---------------------------- MODULE ProbeRunner ----------------------------
(* The engine-conformance probe (tools/probe): processes that each run one   *)
(* suite of probes, one engine call at a time, under a lock file in the      *)
(* home directory, and compare what they found with a recorded baseline. A   *)
(* call is a child in a process group of its own, either captured (a timeout *)
(* kills the group, a watchdog settles a call whose pipe stays open) or      *)
(* streamed. What a probe concludes is the engine's business and chosen      *)
(* freely; what the runner believes of it is not. Files are read and written *)
(* synchronously, so a signal is only handled while a call is awaited.       *)
EXTENDS Integers, FiniteSets

CONSTANTS
  Procs,          \* the processes, each with a pid of its own
  NoFile,
  Probes,         \* the number of probes; the last one needs a live call
  Verdicts,       \* the verdicts a probe may return
  MaxCalls        \* bound: calls of one probe
ASSUME ProbeAssumption ==
  /\ NoFile \notin Procs /\ Probes \in Nat \ {0} /\ MaxCalls \in Nat \ {0}
  /\ Verdicts \subseteq {"pass", "partial", "fail"}

VARIABLES
  lock,       \* probe.lock: NoFile, or who created it and whether it is written
  proc,       \* the memory of each process
  baseline,   \* the recorded expectation
  \* Auxiliary, read by no action:
  judged,     \* the lock each process has judged stale and is about to rename
  robbed      \* a process has renamed a lock other than the one it had judged
vars == <<lock, proc, baseline, judged, robbed>>

Ids      == 1..Probes
Captured == {"current", "retained"}   \* the call in flight, and those that outlived a kill
Judged   == Verdicts \cup {"error"}
Status   == Judged \cup {"skip", "inconclusive"}
Outcomes == {"completed", "timeout", "failed"}   \* CHILD_ERROR and SPAWN_FAILED are one
Declared == {"nothing", "timeout", "observation", "help"}
Ends     == [declared : Declared, outcome : Outcomes, clean : BOOLEAN]
MaxTries == 3
Locking  == {"create", "fill", "readBack", "judge", "reclaim"}
Calling  == {"call", "killed", "held"}
Awaiting == Calling \cup {"probe", "stream"}
Gone     == {"off", "exited", "dead"}

Locks    == [by : Procs, written : BOOLEAN] \cup {NoFile}

TypeOK ==
  /\ lock \in Locks
  /\ proc \in [Procs -> [
       pc : Gone \cup Locking \cup Awaiting \cup {"loop", "report"},
       live : BOOLEAN, only : SUBSET Ids, update : BOOLEAN, complete : BOOLEAN,
       tries : 0..MaxTries, probe : 0..Probes, calls : 0..MaxCalls,
       declared : Declared, degraded : BOOLEAN, rests : SUBSET Ends,
       helpCache : {"none", "clean", "unclean"}, results : [Ids -> Status \cup {"none"}],
       holds : BOOLEAN, alive : SUBSET Captured, tracked : SUBSET Captured,
       exit : {"none", "0", "1", "2", "3", "4", "130"}]]
  /\ baseline \in [Ids -> Judged \cup {"unrecorded"}] \cup {NoFile}
  /\ judged \in [Procs -> Locks] /\ robbed \in BOOLEAN

-----------------------------------------------------------------------------
Blank ==
  [pc |-> "off", live |-> FALSE, only |-> {}, update |-> FALSE, complete |-> FALSE,
   tries |-> 0, probe |-> 0, calls |-> 0, declared |-> "nothing", degraded |-> FALSE,
   rests |-> {}, helpCache |-> "none", results |-> [i \in Ids |-> "none"],
   holds |-> FALSE, alive |-> {}, tracked |-> {}, exit |-> "none"]

Init ==
  /\ lock = NoFile /\ baseline = NoFile
  /\ proc = [q \in Procs |-> Blank]
  /\ judged = [q \in Procs |-> NoFile] /\ robbed = FALSE

Running(q)    == proc[q].pc \notin Gone
At(q, where)  == proc[q].pc = where
Becomes(q, n) == proc' = [proc EXCEPT ![q] = n]
Goes(q, to)   == Becomes(q, [proc[q] EXCEPT !.pc = to])
LiveProbe(i)  == i = Probes
Left(q)       == {i \in proc[q].only : proc[q].results[i] = "none"}

\* release: only a lock that names another process is left alone.
Names(q)   == lock # NoFile /\ lock.by = q /\ lock.written
Others(q)  == lock # NoFile /\ lock.by # q /\ lock.written
Release(q) == lock' = IF Others(q) THEN lock ELSE NoFile

\* Every way out but SIGKILL: the lock that is held, the children that are tracked.
Exits(n, code) ==
  [Blank EXCEPT !.pc = "exited", !.exit = code, !.alive = n.alive \ n.tracked]
Bail(q, code) ==
  /\ Becomes(q, Exits(proc[q], code))
  /\ IF proc[q].holds THEN Release(q) ELSE UNCHANGED lock
  /\ UNCHANGED baseline

-----------------------------------------------------------------------------
(* A captured call (spawnCapture) and what the run makes of its end.         *)
Spawn(q, n, declared) ==
  /\ Becomes(q, [n EXCEPT !.pc = "call", !.declared = declared,
                          !.alive = @ \cup {"current"}, !.tracked = @ \cup {"current"}])
  /\ UNCHANGED <<lock, baseline>>

\* An expected timeout excuses the timeout and the group it leaves, an observation
\* excuses any outcome; nothing excuses a truncated output. Help that is not clean
\* (a non-zero exit, too) is worth nothing.
Degrades(declared, outcome, clean, orphan) ==
  \/ /\ outcome # "completed" /\ declared # "observation"
     /\ ~(declared = "timeout" /\ outcome = "timeout")
  \/ ~clean
  \/ orphan /\ declared # "timeout"

\* Mutant: help text is cached unconditionally.
CachesAnyway(n, outcome, clean) ==
  IF n.declared # "help" THEN n.helpCache
  ELSE IF outcome = "completed" /\ clean THEN "clean" ELSE "unclean"

Caches(n, outcome, clean) ==
  IF n.declared = "help" /\ outcome = "completed" /\ clean THEN "clean" ELSE n.helpCache

\* The call that asks for the version decides whether there is a run at all.
Settle(q, outcome, clean, retained, orphan) ==
  LET end == [declared |-> proc[q].declared, outcome |-> outcome, clean |-> clean]
      n   == [proc[q] EXCEPT !.alive = (@ \ {"current"}) \cup orphan,
                             !.tracked = (@ \ {"current"}) \cup retained]
      ok  == outcome = "completed" /\ clean
  IN
  /\ UNCHANGED <<lock, baseline>>
  /\ \/ n.probe = 0 /\ ok /\ Becomes(q, [n EXCEPT !.pc = "create"])
     \/ n.probe = 0 /\ ~ok /\ Becomes(q, Exits(n, "2"))
     \/ /\ n.probe # 0
        /\ Becomes(q, [n EXCEPT
             !.pc = "probe", !.rests = @ \cup {end}, !.declared = "nothing",
             !.degraded = @ \/ Degrades(n.declared, outcome, clean, orphan # {}),
             !.helpCache = Caches(n, outcome, clean)])

\* spawn throws, or the child never ran.
CallFails(q) == At(q, "call") /\ Settle(q, "failed", TRUE, {}, {})

\* close: the child is gone and so are its pipes.
Closes(q) ==
  \E clean \in BOOLEAN : \/ At(q, "call") /\ Settle(q, "completed", clean, {}, {})
                         \/ At(q, "killed") /\ Settle(q, "timeout", clean, {}, {})

\* The group is killed; somebody may go on holding its pipe ("held").
TimesOut(q) ==
  /\ At(q, "call") /\ \E pc \in {"killed", "held"} : Goes(q, pc)
  /\ UNCHANGED <<lock, baseline>>

\* Mutants: the child is forgotten once its call settles; there is no watchdog.
WatchdogForgets(q) ==
  /\ proc[q].pc \in {"killed", "held"}
  /\ \E clean \in BOOLEAN, orphan \in SUBSET {"retained"} :
       Settle(q, "timeout", clean, {}, orphan)
WatchdogSleeps(q) == FALSE

\* The child stays tracked, for its group may have outlived the kill.
Watchdog(q) ==
  /\ proc[q].pc \in {"killed", "held"}
  /\ \E clean \in BOOLEAN, orphan \in SUBSET {"retained"} :
       Settle(q, "timeout", clean, {"retained"}, orphan)

-----------------------------------------------------------------------------
(* The lock (acquireLock).                                                   *)
Start(q) == At(q, "off") /\ Spawn(q, Blank, "nothing")

Retry(q) ==
  Becomes(q, IF proc[q].tries + 1 < MaxTries
             THEN [proc[q] EXCEPT !.pc = "create", !.tries = @ + 1]
             ELSE Exits(proc[q], "2"))

Create(q) ==
  /\ At(q, "create")
  /\ \/ /\ lock = NoFile /\ lock' = [by |-> q, written |-> FALSE] /\ Goes(q, "fill")
     \/ /\ lock # NoFile /\ Goes(q, "judge") /\ UNCHANGED lock
  /\ UNCHANGED baseline

\* What is written goes to the file that was created, wherever it is by now.
Fill(q) ==
  /\ At(q, "fill") /\ Goes(q, "readBack")
  /\ lock' = IF lock # NoFile /\ lock.by = q THEN [lock EXCEPT !.written = TRUE] ELSE lock
  /\ UNCHANGED baseline

\* A write that fails is no lock, and leaves an unreadable one.
FillFails(q) == At(q, "fill") /\ Bail(q, "2")

\* The options are drawn here and in EndSuite, where they are first looked at.
ReadBack(q) ==
  /\ At(q, "readBack")
  /\ \/ /\ Names(q)
        /\ \E live \in BOOLEAN, only \in SUBSET Ids :
             Becomes(q, [proc[q] EXCEPT !.pc = "loop", !.holds = TRUE, !.tries = 0,
                                        !.live = live, !.only = only])
     \/ ~Names(q) /\ Retry(q)
  /\ UNCHANGED <<lock, baseline>>

HolderLives == lock # NoFile /\ lock.written /\ Running(lock.by)

\* Mutant: a lock past its time to live is stale, whoever holds it.
JudgeExpired(q) ==
  /\ At(q, "judge")
  /\ \/ HolderLives /\ Bail(q, "4")
     \/ Goes(q, "reclaim") /\ UNCHANGED <<lock, baseline>>

\* A holder that lives is refused, whatever the age of its lock; everything else is stale.
Judge(q) ==
  /\ At(q, "judge")
  /\ \/ HolderLives /\ Bail(q, "4")
     \/ ~HolderLives /\ Goes(q, "reclaim") /\ UNCHANGED <<lock, baseline>>

\* The rename moves whatever has the name by now.
Reclaim(q) == At(q, "reclaim") /\ lock' = NoFile /\ Retry(q) /\ UNCHANGED baseline

-----------------------------------------------------------------------------
(* The suite (runSuite) and its probes.                                      *)
\* An unknown id, or a selection of none.
Refuse(q) == At(q, "loop") /\ proc[q].only = {} /\ Bail(q, "2")

NextProbe(q) ==
  /\ At(q, "loop")
  /\ \E i \in Left(q) :
       /\ \A j \in Left(q) : i <= j
       /\ IF LiveProbe(i) /\ ~proc[q].live
          THEN Becomes(q, [proc[q] EXCEPT !.results[i] = "skip"])
          ELSE Becomes(q, [proc[q] EXCEPT !.pc = "probe", !.probe = i, !.calls = 0,
                                          !.degraded = FALSE, !.rests = {}])
  /\ UNCHANGED <<lock, baseline>>

Call(q) ==
  /\ At(q, "probe") /\ proc[q].calls < MaxCalls
  /\ \E declared \in Declared :
       /\ declared = "help" => proc[q].helpCache = "none"
       /\ Spawn(q, [proc[q] EXCEPT !.calls = @ + 1], declared)

\* Help text is asked for once; the verdict rests on the call that was cached.
CachedHelp(q) ==
  /\ At(q, "probe") /\ proc[q].calls < MaxCalls /\ proc[q].helpCache # "none"
  /\ Becomes(q, [proc[q] EXCEPT !.calls = @ + 1,
       !.rests = @ \cup {[declared |-> "help", outcome |-> "completed",
                          clean |-> proc[q].helpCache = "clean"]}])
  /\ UNCHANGED <<lock, baseline>>

\* A line that starts like JSON and is none.
FramingBreak(q) ==
  /\ At(q, "probe") /\ ~proc[q].degraded
  /\ Becomes(q, [proc[q] EXCEPT !.degraded = TRUE])
  /\ UNCHANGED <<lock, baseline>>

\* Its group is the probe's to stop, and is in no set that a signal could kill.
Stream(q) ==
  /\ At(q, "probe") /\ proc[q].calls < MaxCalls
  /\ Becomes(q, [proc[q] EXCEPT !.pc = "stream", !.calls = @ + 1])
  /\ UNCHANGED <<lock, baseline>>

\* The probe stops it. A child that never ran is an uncaught exception.
StreamEnds(q) ==
  /\ At(q, "stream")
  /\ \/ Goes(q, "probe") /\ UNCHANGED <<lock, baseline>>
     \/ Bail(q, "2")

Records(q, status) ==
  /\ Becomes(q, [proc[q] EXCEPT !.pc = "loop", !.results[proc[q].probe] = status,
                                !.calls = 0, !.degraded = FALSE, !.rests = {}])
  /\ UNCHANGED <<lock, baseline>>

Returns(q) ==
  /\ At(q, "probe")
  /\ \E v \in Verdicts : Records(q, IF proc[q].degraded THEN "inconclusive" ELSE v)

Throws(q) == At(q, "probe") /\ Records(q, "error")

\* finally: the lock is released before anything is reported. A run is complete if it
\* is live and no filter, model, timeout or program is set.
EndSuite(q) ==
  /\ At(q, "loop") /\ proc[q].only # {} /\ Left(q) = {}
  /\ Release(q)
  /\ \E update, filtered \in BOOLEAN :
       Becomes(q, [proc[q] EXCEPT
         !.pc = "report", !.holds = Others(q), !.probe = 0, !.helpCache = "none",
         !.update = update, !.complete = ~filtered /\ proc[q].live /\ proc[q].only = Ids])
  /\ UNCHANGED baseline

-----------------------------------------------------------------------------
(* The report and the baseline (run.mjs).                                    *)
Found(q, statuses) == \E i \in Ids : proc[q].results[i] \in statuses
JudgedIn(q)        == {i \in Ids : proc[q].results[i] \in Judged}

\* Mutant: a probe without an expectation is passed over.
DriftsIfRecorded(q) ==
  \E i \in JudgedIn(q) : baseline[i] \notin {"unrecorded", proc[q].results[i]}

\* A probe without an expectation is drift, and so is one that a complete run misses.
Drifts(q) ==
  \/ \E i \in JudgedIn(q) : baseline[i] # proc[q].results[i]
  \/ proc[q].complete /\ \E i \in Ids : baseline[i] # "unrecorded" /\ proc[q].results[i] = "none"

ExitCode(q, drift) ==
  IF Found(q, {"fail", "error"}) \/ drift THEN "1"
  ELSE IF Found(q, {"inconclusive"}) THEN "3" ELSE "0"

\* The directory of the report is refused, or a file fails.
NoReport(q) == At(q, "report") /\ Bail(q, "2")

\* Only a complete run may update the baseline, and then nothing is compared.
UpdateBaseline(q) ==
  /\ At(q, "report") /\ proc[q].update
  /\ baseline' = IF proc[q].complete
                 THEN [i \in Ids |-> IF i \in JudgedIn(q) THEN proc[q].results[i]
                                                          ELSE "unrecorded"]
                 ELSE baseline
  /\ Becomes(q, Exits(proc[q], ExitCode(q, FALSE)))
  /\ IF proc[q].holds THEN Release(q) ELSE UNCHANGED lock

\* The engine may have moved under the baseline, which is drift as well.
CheckBaseline(q) ==
  /\ At(q, "report") /\ ~proc[q].update
  /\ \/ baseline = NoFile /\ Bail(q, ExitCode(q, FALSE))
     \/ /\ baseline # NoFile
        /\ \E moved \in BOOLEAN : Bail(q, ExitCode(q, moved \/ Drifts(q)))

-----------------------------------------------------------------------------
\* Handled between two turns of the event loop, so only where the run awaits.
Signal(q) == proc[q].pc \in Awaiting /\ Bail(q, "130")

\* SIGKILL or a power cut: files stay, and so do groups, out of everybody's reach.
Crash(q) ==
  /\ Running(q) /\ Becomes(q, [Blank EXCEPT !.pc = "dead"])
  /\ UNCHANGED <<lock, baseline>>

Step(q) ==
  \/ CallFails(q) \/ Closes(q) \/ TimesOut(q) \/ Watchdog(q)
  \/ Create(q) \/ Fill(q) \/ FillFails(q) \/ ReadBack(q) \/ Judge(q) \/ Reclaim(q)
  \/ Refuse(q) \/ NextProbe(q) \/ Call(q) \/ CachedHelp(q) \/ FramingBreak(q)
  \/ Stream(q) \/ StreamEnds(q) \/ Returns(q) \/ Throws(q) \/ EndSuite(q)
  \/ NoReport(q) \/ UpdateBaseline(q) \/ CheckBaseline(q)

\* What a step of q adds to the auxiliary variables.
Recorded(q) ==
  /\ judged' = [judged EXCEPT ![q] = IF proc'[q].pc = "reclaim" THEN lock ELSE NoFile]
  /\ robbed' = (robbed \/ (At(q, "reclaim") /\ lock' # lock /\ lock # judged[q]))

Next ==
  \E q \in Procs : (Start(q) \/ Step(q) \/ Signal(q) \/ Crash(q)) /\ Recorded(q)

\* A process that is not killed runs its callbacks and timers, its probes return and
\* stop what they stream. Nobody owes a start, a signal or a crash, and no process is
\* promised a turn before another.
Fairness == WF_vars(\E q \in Procs : Step(q) /\ Recorded(q))
Spec == Init /\ [][Next]_vars /\ Fairness

\* Bound of a run: what two suites do beside each other is not explored.
Apart == ~robbed

-----------------------------------------------------------------------------
\* Two suites never run at once.
OneSuite == \A q, r \in Procs : proc[q].holds /\ proc[r].holds => q = r

\* The one way to two suites is the rename of a lock that was not judged: as long as
\* none has happened, the suite that runs owns the file that says so. No holder that
\* lives is judged stale, and an owner that lost a race for the file notices.
OneUnlessRobbed ==
  ~robbed => OneSuite /\ \A q \in Procs : proc[q].holds => Names(q)

\* A verdict never rests on a call that gave no answer, neither one of the probe nor
\* one whose help text an earlier probe left in the cache; only what the probe
\* declared beforehand is excused.
Answers(e) ==
  /\ e.clean
  /\ \/ e.outcome = "completed" \/ e.declared = "observation"
     \/ /\ e.declared = "timeout" /\ e.outcome = "timeout"
NoVerdictFromSilence ==
  [][\A q \in Procs, i \in Ids :
       proc[q].results[i] = "none" /\ proc'[q].results[i] \in Verdicts
         => \A e \in proc[q].rests : Answers(e)]_vars

\* However a run ends, unless it is killed: no lock names it, and no captured call is
\* left running, not even one that outlived its own kill.
CleanExit ==
  \A q \in Procs : At(q, "exited") => ~Names(q) /\ proc[q].alive = {}

\* A green exit is a measurement: every probe that was selected has been judged, or
\* could not be without a live call; and if there is an expectation to compare with,
\* each judgement is the expected one, a probe that was never recorded included.
GreenIsMeasured ==
  [][\A q \in Procs :
       proc'[q].exit = "0" /\ proc[q].exit = "none" =>
         /\ \A i \in proc[q].only : \/ proc[q].results[i] \in {"pass", "partial"}
                                   \/ /\ LiveProbe(i) /\ ~proc[q].live
         /\ \/ baseline = NoFile \/ proc[q].update
            \/ \A i \in Ids : proc[q].results[i] \in {"none", "skip", baseline[i]}]_vars

\* Every run ends, although a descendant of a call may hold its pipe for ever, and
\* whatever the other runs do: sooner or later nobody is running (a process starts once).
SuiteEnds == []<>(\A q \in Procs : ~Running(q))
=============================================================================
