------------------------------ MODULE Harness ------------------------------
(* The profile's harness (profiles/local-web/src): one process generates a   *)
(* project, runs its seven gates and leaves evidence in a directory that     *)
(* later runs reuse. A normal run stops at the first gate that fails, and    *)
(* hands the server that passed the boot gate to the two gates after it      *)
(* under an attempt authority, three files that must agree. A seeded run     *)
(* breaks each gate on purpose in a project of its own. Everything that      *)
(* fails (a command, a write, a read, the server, the process) is a mishap.  *)
(* A file is replaced by a rename, and identities of runs are fresh.         *)
EXTENDS Integers, Sequences

CONSTANTS MaxRuns,      \* bound: runs of the harness over one directory
          MaxMishaps    \* bound: mishaps, of all the runs together
ASSUME HarnessAssumption == MaxRuns \in Nat \ {0} /\ MaxMishaps \in Nat

VARIABLES
  disk,     \* the artifacts directory
  run,      \* the number of the run; 0 before the first
  pc,       \* where it is, or how it ended
  m,        \* its memory
  server,   \* the server it holds: "none", "live" or "exited"
  strays,   \* runs with a process group that is not proven absent
  mishaps
vars == <<disk, run, pc, m, server, strays, mishaps>>

GATE_IDS == <<"lint", "type", "unit", "build", "boot", "axe", "smoke">>
Gates    == {GATE_IDS[i] : i \in 1..Len(GATE_IDS)}
Browser  == {"axe", "smoke"}
Prepared == {"boot"} \cup Browser        \* requiresBuildBeforeMutation
Runs     == 1..MaxRuns
Statuses == {"passed", "failed"}
Ended    == {"none", "exit0", "exit1", "crashed"}
Working  == {"begin", "generate", "commit", "install", "prepare", "gate", "pending", "serve",
             "health", "evidence", "stage", "terminal", "finalize", "decide",
             "stop", "rewrite", "browser", "browserEvidence", "bootFailed",
             "markTerminal", "markAuthority", "returned", "mutate", "seedEnd",
             "finally", "settle", "report", "reportAgain"}
Results  == {r \in [exit : {"0", "1", "none"}, timedOut : BOOLEAN, reaped : BOOLEAN] :
               r.timedOut \/ r.reaped}
Records  == [by : 0..MaxRuns, status : Statuses \cup {"none"}]

TypeOK ==
  /\ disk \in [gates : [{"normal", "baseline", "trial"} -> [Gates -> Records]],
               attempts : [Runs -> [authority : Statuses \cup {"none", "pending"},
                                    terminal : Statuses \cup {"none"},
                                    candidate : BOOLEAN]],
               mutated : [Gates -> 0..MaxRuns],
               seeds : [Gates -> Records],
               result : [by : 0..MaxRuns, mode : {"none", "normal", "seeded"},
                         status : Statuses \cup {"none"}, accepted : BOOLEAN]]
  /\ run \in 0..MaxRuns /\ pc \in Working \cup Ended
  /\ m \in [mode : {"normal", "seeded"}, gate : 1..Len(GATE_IDS),
            phase : {"normal", "baseline", "trial"}, result : Results,
            evidence : Statuses \cup {"none"}, durable : BOOLEAN, reaped : BOOLEAN,
            attributable : BOOLEAN, status : Statuses, clean : BOOLEAN,
            attempt : Statuses \cup {"none", "pending"}, back : Working]
  /\ server \in {"none", "live", "exited"} /\ strays \subseteq Runs
  /\ mishaps \in 0..MaxMishaps

-----------------------------------------------------------------------------
Succeeded == [exit |-> "0", timedOut |-> FALSE, reaped |-> TRUE]
Failed    == [Succeeded EXCEPT !.exit = "1"]
NoRecord  == [by |-> 0, status |-> "none"]

Memory(mode) ==
  [mode |-> mode, gate |-> 1, phase |-> IF mode = "normal" THEN "normal" ELSE "baseline",
   result |-> Succeeded, evidence |-> "passed", durable |-> FALSE, reaped |-> TRUE,
   attributable |-> FALSE, status |-> "passed", clean |-> TRUE,
   attempt |-> "none", back |-> "begin"]

Init ==
  /\ disk = [gates |-> [p \in {"normal", "baseline", "trial"} |-> [g \in Gates |-> NoRecord]],
             attempts |-> [r \in Runs |-> [authority |-> "none", terminal |-> "none",
                                           candidate |-> FALSE]],
             mutated |-> [g \in Gates |-> 0],
             seeds |-> [g \in Gates |-> NoRecord],
             result |-> [by |-> 0, mode |-> "none", status |-> "none", accepted |-> FALSE]]
  /\ run = 0 /\ pc = "none" /\ m = Memory("normal")
  /\ server = "none" /\ strays = {} /\ mishaps = 0

-----------------------------------------------------------------------------
Gate    == GATE_IDS[m.gate]
Seeded  == m.mode = "seeded"
Trial   == m.phase = "trial"
Mine    == disk.attempts[run]
Goes(p, n) == pc' = p /\ m' = n
Ends(how)  == pc' = how /\ m' = Memory("normal")

\* Each thing that does not go well costs a mishap.
Cost(ok)  == IF ok THEN 0 ELSE 1
Costs(n)  == mishaps + n <= MaxMishaps /\ mishaps' = mishaps + n
Writes(d, ok) == disk' = IF ok THEN d ELSE disk
Leaves(reaped) == strays' = IF reaped THEN strays ELSE strays \cup {run}

\* What a script of the project returns goes well, unless it was broken on purpose.
Expected == IF Trial THEN Failed ELSE Succeeded

Status(result) ==
  IF result.exit = "0" /\ ~result.timedOut /\ result.reaped THEN "passed" ELSE "failed"
GateRecord(result) ==
  [disk EXCEPT !.gates[m.phase][Gate] = [by |-> run, status |-> Status(result)]]
FailedBootResult(result) == [result EXCEPT !.exit = "1"]
InvalidateResultForExitedServer(result) ==
  IF server = "exited" /\ result.exit = "0" THEN [result EXCEPT !.exit = "1"] ELSE result

\* An exception outside the gates: a normal run has failed, and so has a seed.
Throws(n) == Goes(IF Seeded THEN "seedEnd" ELSE "finally", [n EXCEPT !.status = "failed"])

\* Three files decide, and all of them must be those of this attempt.
Accepted(a) == a.authority = "passed" /\ a.terminal = "passed" /\ a.candidate

MarkAttemptFailed(back, n) ==
  Goes("markTerminal", [n EXCEPT !.attempt = "failed", !.back = back])

-----------------------------------------------------------------------------
(* The frame of a run: its project, its dependencies.                        *)
Start ==
  /\ pc \in Ended /\ run < MaxRuns /\ run' = run + 1
  /\ \E mode \in {"normal", "seeded"} : Goes("begin", Memory(mode))
  /\ UNCHANGED <<disk, server, strays, mishaps>>

\* mkdtemp is outside every try; generateProject is inside.
Begin ==
  /\ pc = "begin"
  /\ \/ Goes("generate", m) /\ Costs(0)
     \/ Ends("exit1") /\ Costs(1)
  /\ UNCHANGED <<disk, run, server, strays>>

GenerateProject ==
  /\ pc = "generate"
  /\ \/ Goes("commit", m) /\ Costs(0)
     \/ Throws(m) /\ Costs(1)
  /\ UNCHANGED <<disk, run, server, strays>>

\* Git runs in an environment of its own; the first commit is the template.
InitializeRepository ==
  /\ pc = "commit"
  /\ \/ Goes("install", m) /\ Costs(0)
     \/ Throws(m) /\ Costs(1)
  /\ UNCHANGED <<disk, run, server, strays>>

RunInstall ==
  /\ pc = "install"
  /\ \E r \in Results, ok \in BOOLEAN :
       /\ Costs(Cost(r = Succeeded) + Cost(ok)) /\ Leaves(r.reaped)
       /\ IF ok /\ Status(r) = "passed"
          THEN Goes(IF Seeded /\ Gate \in Prepared THEN "prepare" ELSE "gate", m)
          ELSE Throws(m)
  /\ UNCHANGED <<disk, run, server>>

PrepareSeed ==
  /\ pc = "prepare"
  /\ \E r \in Results, ok \in BOOLEAN :
       /\ Costs(Cost(r = Succeeded) + Cost(ok)) /\ Leaves(r.reaped)
       /\ IF ok /\ Status(r) = "passed" THEN Goes("gate", m) ELSE Throws(m)
  /\ UNCHANGED <<disk, run, server>>

-----------------------------------------------------------------------------
(* One gate. A gate of a normal run may be served by the server of the boot  *)
(* gate; the three gates that need a server start one of their own in a      *)
(* seeded run.                                                               *)
ChooseGate ==
  /\ pc = "gate" /\ Gate \in IF Seeded THEN Prepared ELSE {"boot"}
  /\ Goes(IF Seeded THEN "serve" ELSE "pending",
          [m EXCEPT !.attempt = IF Seeded THEN @ ELSE "pending",
                    !.durable = FALSE, !.evidence = "none"])
  /\ UNCHANGED <<disk, run, server, strays, mishaps>>

RunSimpleGate ==
  /\ pc = "gate" /\ Gate \notin IF Seeded THEN Prepared ELSE {"boot"}
  /\ Gate \in Browser => server # "none"
  /\ \E r \in Results, ok \in BOOLEAN :
       LET result == InvalidateResultForExitedServer(r) IN
       /\ Costs(Cost(r = Expected) + Cost(ok)) /\ Leaves(r.reaped)
       /\ Writes(GateRecord(result), ok)
       /\ IF ok
          THEN Goes("returned", [m EXCEPT !.result = result, !.evidence = Status(result),
                                          !.reaped = result.reaped])
          ELSE Throws(m)
  /\ UNCHANGED <<run, server>>

\* Boot has passed, but its server was not handed over.
NoServerToRunOn ==
  /\ pc = "gate" /\ ~Seeded /\ Gate \in Browser /\ server = "none"
  /\ \E ok \in BOOLEAN :
       LET result == [exit |-> "none", timedOut |-> TRUE, reaped |-> FALSE] IN
       /\ Costs(Cost(ok)) /\ Writes(GateRecord(result), ok)
       /\ IF ok THEN Goes("returned", [m EXCEPT !.result = result, !.evidence = "failed"])
          ELSE Throws(m)
  /\ UNCHANGED <<run, server, strays>>

CreatePendingAttemptAuthority ==
  /\ pc = "pending"
  /\ \E ok \in BOOLEAN :
       /\ Costs(Cost(ok)) /\ Writes([disk EXCEPT !.attempts[run].authority = "pending"], ok)
       /\ IF ok THEN Goes("serve", m) ELSE MarkAttemptFailed("bootFailed", m)
  /\ UNCHANGED <<run, server, strays>>

\* The attempt could not begin, or there is no port: boot fails without a server.
BootFailed ==
  /\ pc = "bootFailed"
  /\ \E ok \in BOOLEAN :
       /\ Costs(Cost(ok)) /\ Writes(GateRecord(Failed), ok)
       /\ IF ok THEN Goes("returned", [m EXCEPT !.result = Failed, !.evidence = "failed",
                                                !.reaped = TRUE])
          ELSE Throws(m)
  /\ UNCHANGED <<run, server, strays>>

SelectPortFails ==
  /\ pc = "serve" /\ Costs(1)
  /\ IF Seeded THEN Throws(m) ELSE MarkAttemptFailed("bootFailed", m)
  /\ UNCHANGED <<disk, run, server, strays>>

\* A server that is not ready has been stopped already; its own result stands.
StartLiveServer ==
  /\ pc = "serve"
  /\ \/ /\ server' = "live" /\ Costs(0) /\ UNCHANGED strays
        /\ Goes(IF Gate = "boot" THEN "health" ELSE "browser", m)
     \/ \E r \in Results :
          /\ Costs(1) /\ Leaves(r.reaped) /\ UNCHANGED server
          /\ Goes(IF Gate = "boot" THEN "stop" ELSE "browserEvidence",
                  [m EXCEPT !.result = r, !.reaped = r.reaped \/ Gate # "boot"])
  /\ UNCHANGED <<disk, run>>

RunHealth ==
  /\ pc = "health"
  /\ \E r \in Results :
       LET result == InvalidateResultForExitedServer(r) IN
       /\ Costs(Cost(r = Expected)) /\ Leaves(r.reaped)
       /\ Goes(IF result = Succeeded /\ server = "live" THEN "evidence" ELSE "stop",
               [m EXCEPT !.result = result])
  /\ UNCHANGED <<disk, run, server>>

\* Mutant: a write that failed is not noticed.
WriteBootEvidenceLost ==
  /\ pc = "evidence"
  /\ \E ok \in BOOLEAN :
       /\ Costs(Cost(ok)) /\ Writes(GateRecord(m.result), ok)
       /\ IF server = "live"
          THEN Goes(IF Seeded THEN "stop" ELSE "stage",
                    [m EXCEPT !.evidence = "passed", !.durable = Seeded])
          ELSE Goes("stop", m)
  /\ UNCHANGED <<run, server, strays>>

WriteBootEvidence ==
  /\ pc = "evidence"
  /\ \E ok \in BOOLEAN :
       /\ Costs(Cost(ok)) /\ Writes(GateRecord(m.result), ok)
       /\ IF ok /\ server = "live"
          THEN Goes(IF Seeded THEN "stop" ELSE "stage",
                    [m EXCEPT !.evidence = "passed", !.durable = Seeded])
          ELSE Goes("stop", m)
  /\ UNCHANGED <<run, server, strays>>

-----------------------------------------------------------------------------
(* authorizeBootTransfer and markAttemptFailed, one file at a time.          *)
StageAttemptCandidate ==
  /\ pc = "stage"
  /\ \E ok \in BOOLEAN :
       /\ ok => Mine.authority = "pending"
       /\ Costs(Cost(ok)) /\ Writes([disk EXCEPT !.attempts[run].candidate = TRUE], ok)
       /\ IF ok THEN Goes("terminal", m) ELSE MarkAttemptFailed("stop", m)
  /\ UNCHANGED <<run, server, strays>>

WriteTerminalAttemptResult ==
  /\ pc = "terminal"
  /\ \E ok \in BOOLEAN :
       /\ ok => Mine.authority # "none" /\ Mine.terminal # "failed"
       /\ Costs(Cost(ok)) /\ Writes([disk EXCEPT !.attempts[run].terminal = "passed"], ok)
       /\ IF ok THEN Goes("finalize", m) ELSE MarkAttemptFailed("stop", m)
  /\ UNCHANGED <<run, server, strays>>

FinalizeAttemptAuthority ==
  /\ pc = "finalize"
  /\ \E ok \in BOOLEAN :
       /\ ok => Mine.authority \notin {"none", "failed"}
       /\ Costs(Cost(ok)) /\ Writes([disk EXCEPT !.attempts[run].authority = "passed"], ok)
       /\ IF ok THEN Goes("decide", m) ELSE MarkAttemptFailed("stop", m)
  /\ UNCHANGED <<run, server, strays>>

\* evaluateAttemptAuthority takes a record that it cannot read for a refusal.
Evaluates(accepted) == accepted => Accepted(Mine)

DecideTransfer ==
  /\ pc = "decide"
  /\ \E accepted \in BOOLEAN :
       /\ Evaluates(accepted) /\ Costs(Cost(accepted))
       /\ IF accepted
          THEN Goes("returned", [m EXCEPT !.attempt = "passed", !.clean = FALSE])
          ELSE MarkAttemptFailed("stop", m)
  /\ UNCHANGED <<disk, run, server, strays>>

\* Without an authority on disk both writes throw, and both are swallowed.
MarkTerminal ==
  /\ pc = "markTerminal" /\ Goes("markAuthority", m)
  /\ \E ok \in IF Mine.authority = "none" THEN {FALSE} ELSE BOOLEAN :
       /\ Costs(Cost(ok \/ Mine.authority = "none"))
       /\ Writes([disk EXCEPT !.attempts[run].terminal = "failed"], ok)
  /\ UNCHANGED <<run, server, strays>>

MarkAuthority ==
  /\ pc = "markAuthority" /\ Goes(m.back, [m EXCEPT !.back = "begin"])
  /\ \E ok \in IF Mine.authority = "none" THEN {FALSE} ELSE BOOLEAN :
       /\ Costs(Cost(ok \/ Mine.authority = "none"))
       /\ Writes([disk EXCEPT !.attempts[run].authority = "failed"], ok)
  /\ UNCHANGED <<run, server, strays>>

-----------------------------------------------------------------------------
(* The end of a gate that started a server and keeps it no longer.           *)
\* Mutant: a group that is still there leaves the result as it was.
StopLiveServerUnproven ==
  /\ pc = "stop" /\ server' = "none"
  /\ \E reaped \in IF server = "none" THEN {m.reaped} ELSE BOOLEAN :
       LET before == IF m.durable THEN m.result
                     ELSE IF Gate = "boot" THEN FailedBootResult(m.result)
                     ELSE InvalidateResultForExitedServer(m.result)
       IN  /\ Costs(Cost(reaped \/ server = "none")) /\ Leaves(reaped \/ server = "none")
           /\ Goes(IF Gate # "boot" THEN "browserEvidence"
                   ELSE IF m.durable /\ reaped THEN "returned" ELSE "rewrite",
                   [m EXCEPT !.reaped = reaped, !.durable = @ /\ reaped,
                             !.evidence = IF reaped THEN @ ELSE "none",
                             !.clean = IF Gate = "boot" /\ ~Seeded THEN reaped ELSE @,
                             !.result = before])
  /\ UNCHANGED <<disk, run>>

StopLiveServer ==
  /\ pc = "stop" /\ server' = "none"
  /\ \E reaped \in IF server = "none" THEN {m.reaped} ELSE BOOLEAN :
       LET before == IF m.durable THEN m.result
                     ELSE IF Gate = "boot" THEN FailedBootResult(m.result)
                     ELSE InvalidateResultForExitedServer(m.result)
       IN  /\ Costs(Cost(reaped \/ server = "none")) /\ Leaves(reaped \/ server = "none")
           /\ Goes(IF Gate # "boot" THEN "browserEvidence"
                   ELSE IF m.durable /\ reaped THEN "returned" ELSE "rewrite",
                   [m EXCEPT !.reaped = reaped, !.durable = @ /\ reaped,
                             !.evidence = IF reaped THEN @ ELSE "none",
                             !.clean = IF Gate = "boot" /\ ~Seeded THEN reaped ELSE @,
                             !.result = IF reaped THEN before
                                        ELSE [before EXCEPT !.timedOut = TRUE]])
  /\ UNCHANGED <<disk, run>>

\* A record that claimed success is replaced. A write that fails leaves it there,
\* and what was written before is what boot returns.
RewriteBootEvidence ==
  /\ pc = "rewrite"
  /\ \E ok \in BOOLEAN :
       LET result == FailedBootResult(m.result) IN
       /\ Costs(Cost(ok)) /\ Writes(GateRecord(result), ok)
       /\ Goes("returned", [m EXCEPT !.result = result,
                                     !.evidence = IF ok \/ @ = "none" THEN "failed" ELSE @])
  /\ UNCHANGED <<run, server, strays>>

RunBrowserGate ==
  /\ pc = "browser"
  /\ \E r \in Results :
       /\ Costs(Cost(r = Expected)) /\ Leaves(r.reaped)
       /\ Goes("stop", [m EXCEPT !.result = InvalidateResultForExitedServer(r)])
  /\ UNCHANGED <<disk, run, server>>

WriteBrowserEvidence ==
  /\ pc = "browserEvidence"
  /\ \E ok \in BOOLEAN :
       /\ Costs(Cost(ok)) /\ Writes(GateRecord(m.result), ok)
       /\ IF ok THEN Goes("returned", [m EXCEPT !.evidence = Status(m.result)]) ELSE Throws(m)
  /\ UNCHANGED <<run, server, strays>>

-----------------------------------------------------------------------------
(* After a gate. A normal run goes on to the next one; a seed goes from its  *)
(* clean baseline to the same gate of the broken project, and to its record. *)
NormalGateReturns ==
  /\ pc = "returned" /\ ~Seeded
  /\ IF m.evidence = "failed" THEN Goes("finally", [m EXCEPT !.status = "failed"])
     ELSE IF m.gate = Len(GATE_IDS) THEN Goes("finally", m)
     ELSE Goes("gate", [m EXCEPT !.gate = @ + 1])
  /\ UNCHANGED <<disk, run, server, strays, mishaps>>

\* Mutant: a baseline that failed is as good.
BaselineReturnsAny ==
  /\ pc = "returned" /\ Seeded /\ ~Trial
  /\ Goes("mutate", m)
  /\ UNCHANGED <<disk, run, server, strays, mishaps>>

BaselineReturns ==
  /\ pc = "returned" /\ Seeded /\ ~Trial
  /\ IF m.evidence = "passed" THEN Goes("mutate", m) ELSE Throws(m)
  /\ UNCHANGED <<disk, run, server, strays, mishaps>>

ApplyMutation ==
  /\ pc = "mutate"
  /\ \E ok \in BOOLEAN :
       /\ Costs(Cost(ok)) /\ Writes([disk EXCEPT !.mutated[Gate] = run], ok)
       /\ IF ok THEN Goes("gate", [m EXCEPT !.phase = "trial"]) ELSE Throws(m)
  /\ UNCHANGED <<run, server, strays>>

TrialReturns ==
  /\ pc = "returned" /\ Trial
  /\ Goes("seedEnd", [m EXCEPT !.attributable = /\ m.evidence = "failed"
                                                /\ m.result.exit = "1"
                                                /\ ~m.result.timedOut])
  /\ UNCHANGED <<disk, run, server, strays, mishaps>>

\* The record is written in a finally; when that fails the whole run rejects.
EndSeed ==
  /\ pc = "seedEnd"
  /\ \E removed, ok \in BOOLEAN :
       LET passed == m.attributable /\ removed /\ m.reaped
           status == IF passed THEN m.status ELSE "failed"
           next   == [Memory("seeded") EXCEPT !.status = status, !.gate = m.gate + 1]
       IN  /\ Costs(Cost(removed) + Cost(ok))
           /\ Writes([disk EXCEPT !.seeds[Gate] =
                        [by |-> run, status |-> IF passed THEN "passed" ELSE "failed"]], ok)
           /\ IF ~ok THEN Ends("exit1")
              ELSE IF m.gate < Len(GATE_IDS) THEN Goes("begin", next)
              ELSE Goes("report", [next EXCEPT !.gate = 1])
  /\ UNCHANGED <<run, server, strays>>

-----------------------------------------------------------------------------
(* The end of a normal run: the server, the project, the attempt, the report.*)
\* Mutant: the end of the server does not decide about the run.
FinallyAnyway ==
  /\ pc = "finally" /\ server' = "none"
  /\ \E reaped \in IF server = "none" THEN {TRUE} ELSE BOOLEAN, removed \in BOOLEAN :
       /\ Costs(Cost(reaped) + Cost(removed)) /\ Leaves(reaped)
       /\ IF removed
          THEN Goes("settle", [m EXCEPT !.clean = IF server = "none" THEN @ ELSE reaped])
          ELSE Ends("exit1")
  /\ UNCHANGED <<disk, run>>

Finally ==
  /\ pc = "finally" /\ server' = "none"
  /\ \E reaped \in IF server = "none" THEN {TRUE} ELSE BOOLEAN, removed \in BOOLEAN :
       /\ Costs(Cost(reaped) + Cost(removed)) /\ Leaves(reaped)
       /\ IF removed
          THEN Goes("settle", [m EXCEPT !.clean = IF server = "none" THEN @ ELSE reaped,
                                        !.status = IF reaped THEN @ ELSE "failed"])
          ELSE Ends("exit1")
  /\ UNCHANGED <<disk, run>>

\* Mutant: a run that failed leaves its attempt as it is.
SettleAttemptUnmarked ==
  /\ pc = "settle"
  /\ IF m.attempt = "none" THEN Goes("report", m) /\ Costs(0)
     ELSE IF m.status = "failed" \/ ~m.clean THEN Goes("report", m) /\ Costs(0)
     ELSE \E accepted \in BOOLEAN :
            /\ Evaluates(accepted) /\ Costs(Cost(accepted))
            /\ IF accepted THEN Goes("report", [m EXCEPT !.attempt = "passed"])
               ELSE MarkAttemptFailed("report", [m EXCEPT !.status = "failed"])
  /\ UNCHANGED <<disk, run, server, strays>>

SettleAttempt ==
  /\ pc = "settle"
  /\ IF m.attempt = "none" THEN Goes("report", m) /\ Costs(0)
     ELSE IF m.status = "failed" \/ ~m.clean THEN MarkAttemptFailed("report", m) /\ Costs(0)
     ELSE \E accepted \in BOOLEAN :
            /\ Evaluates(accepted) /\ Costs(Cost(accepted))
            /\ IF accepted THEN Goes("report", [m EXCEPT !.attempt = "passed"])
               ELSE MarkAttemptFailed("report", [m EXCEPT !.status = "failed"])
  /\ UNCHANGED <<disk, run, server, strays>>

Summary(status) ==
  [disk EXCEPT !.result = [by |-> run, mode |-> m.mode, status |-> status,
                           accepted |-> m.attempt = "passed"]]

\* A seeded run rejects when its summary cannot be written; a normal run has failed.
Report ==
  /\ pc = "report"
  /\ \E ok \in BOOLEAN :
       /\ Costs(Cost(ok)) /\ Writes(Summary(m.status), ok)
       /\ IF ok THEN Ends(IF m.status = "passed" THEN "exit0" ELSE "exit1")
          ELSE IF Seeded THEN Ends("exit1")
          ELSE IF m.attempt = "none" THEN Goes("reportAgain", [m EXCEPT !.status = "failed"])
          ELSE MarkAttemptFailed("reportAgain", [m EXCEPT !.status = "failed"])
  /\ UNCHANGED <<run, server, strays>>

ReportAgain ==
  /\ pc = "reportAgain" /\ Ends("exit1")
  /\ \E ok \in BOOLEAN : Costs(Cost(ok)) /\ Writes(Summary("failed"), ok)
  /\ UNCHANGED <<run, server, strays>>

-----------------------------------------------------------------------------
(* What happens to a run. A group whose lease is lost is reaped in the end.  *)
ServerExits ==
  /\ server = "live" /\ server' = "exited" /\ Costs(1)
  /\ UNCHANGED <<disk, run, pc, m, strays>>

Crash ==
  /\ pc \in Working /\ Costs(1) /\ Ends("crashed")
  /\ server' = "none" /\ strays' = strays \cup {run} /\ UNCHANGED <<disk, run>>

LeaseReaps ==
  /\ \E r \in strays : strays' = strays \ {r}
  /\ UNCHANGED <<disk, run, pc, m, server, mishaps>>

Frame    == Start \/ Begin \/ GenerateProject \/ InitializeRepository \/ RunInstall
            \/ PrepareSeed
GateStep == ChooseGate \/ RunSimpleGate \/ NoServerToRunOn \/ CreatePendingAttemptAuthority \/ BootFailed
            \/ SelectPortFails \/ StartLiveServer \/ RunHealth \/ WriteBootEvidence
            \/ StopLiveServer \/ RewriteBootEvidence \/ RunBrowserGate \/ WriteBrowserEvidence
Attempt  == StageAttemptCandidate \/ WriteTerminalAttemptResult \/ FinalizeAttemptAuthority
            \/ DecideTransfer \/ MarkTerminal \/ MarkAuthority
Returned == NormalGateReturns \/ BaselineReturns \/ ApplyMutation \/ TrialReturns \/ EndSeed
Closing  == Finally \/ SettleAttempt \/ Report \/ ReportAgain
Next == Frame \/ GateStep \/ Attempt \/ Returned \/ Closing \/ ServerExits \/ Crash \/ LeaseReaps
Spec == Init /\ [][Next]_vars
-----------------------------------------------------------------------------
(* A summary that says passed was earned by the run that wrote it: in a      *)
(* normal run all seven gates have a passed record of that same run and the  *)
(* attempt's three files agree; in a seeded run all seven seeds do. No file  *)
(* of an earlier run of the directory counts (harness.ts:771-774, 890).      *)
PassIsEarned ==
  disk.result.by = run /\ disk.result.status = "passed" =>
    IF disk.result.mode = "normal"
    THEN /\ \A g \in Gates : disk.gates["normal"][g] = [by |-> run, status |-> "passed"]
         /\ disk.result.accepted /\ Accepted(Mine)
    ELSE \A g \in Gates : disk.seeds[g] = [by |-> run, status |-> "passed"]

(* The exit code and the summary on disk never tell two stories: 0 exactly   *)
(* when this run left a summary that says passed, and a summary that says    *)
(* failed claims no accepted attempt (harness.ts:799-812).                   *)
ExitTellsEvidence ==
  /\ pc \in {"exit0", "exit1"} =>
       (pc = "exit0" <=> disk.result.by = run /\ disk.result.status = "passed")
  /\ disk.result.status # "passed" => ~disk.result.accepted

(* An attempt becomes accepted only while a record of this very run says on  *)
(* disk that boot passed, and with its server in hand, although that may     *)
(* have exited by then (harness.ts:374-384).                                 *)
BootBehindAcceptance ==
  [][\A r \in Runs : ~Accepted(disk.attempts[r]) /\ Accepted(disk.attempts'[r]) =>
       /\ disk.gates["normal"]["boot"] = [by |-> r, status |-> "passed"]
       /\ server # "none"]_vars

(* A run that returns 0 has nothing left of all the commands and servers it  *)
(* ran: each group was proven absent (harness.ts:763, 426, 854).             *)
NothingLeftBehind == pc = "exit0" => run \notin strays /\ server = "none"

(* A seed counts only with its baseline passed, its mutation recorded and    *)
(* its gate failed after it, by one and the same run (harness.ts:829-861).   *)
(* The failed record of a broken boot gate may be missing: its write is      *)
(* allowed to fail (harness.ts:413-415).                                     *)
SeedCounts ==
  \A g \in Gates : disk.seeds[g].status = "passed" =>
    LET by == disk.seeds[g].by IN
    by = run =>
      /\ disk.gates["baseline"][g] = [by |-> by, status |-> "passed"]
      /\ disk.mutated[g] = by
      /\ g = "boot" \/ disk.gates["trial"][g] = [by |-> by, status |-> "failed"]
=============================================================================
