------------------------- MODULE CommandSupervision -------------------------
(* A command of a generated project and the processes that supervise it      *)
(* (profiles/local-web/src). The parent (command.ts) never signals anybody.  *)
(* A leader heads the process group of the target and reaps it when the      *)
(* parent's lease is lost. In the "supervisor" transport (finite commands)   *)
(* the leader is the child, its standard input is the lease and its fd 3     *)
(* carries everything it says. In the "guardian" transport (servers) the     *)
(* child only relays: the leader is a guardian that it spawned, the lease is *)
(* a socket of the parent, and what the guardian says goes to the socket     *)
(* and, through the child, to the parent's fd 3.                             *)
(* One command and one caller; a step is one callback, one line of a pipe.   *)
EXTENDS Integers, Sequences

CONSTANT MaxFaults      \* bound: signals of the leader to its group that fail
ASSUME MaxFaultsAssumption == MaxFaults \in Nat

VARIABLES
  transport,  \* LeaseTransport
  parent,     \* the process that runs command.ts: "alive", "stalled" (its event
              \* loop runs no more, its pipes stay open) or "gone"
  child,      \* its ChildProcess: "running", "exited" (hasExited), "closed"
  c,          \* its ProcessReceiptState
  call,       \* where the caller is in waitForExit and stopCommand
  out,        \* what runCommand returns to it
  s,          \* the relaying supervisor
  g,          \* the leader of the group, the target and a peer it may leave
  down,       \* the lease: ACK, STOP and end of file, to the leader
  up,         \* the leader's answers on the lease (or its fd 3)
  relay,      \* fd 3 of the guardian, read by the relaying supervisor
  result      \* fd 3 of the relaying supervisor, read by the parent
vars == <<transport, parent, child, c, call, out, s, g, down, up, relay, result>>

Guardian == transport = "guardian"
Codes    == {"0", "1", "signal"}      \* how a process ended; 1 is any failure
EOF      == <<"EOF">>

TypeOK ==
  /\ transport \in {"supervisor", "guardian"}
  /\ parent \in {"alive", "stalled", "gone"}
  /\ child \in {"running", "exited", "closed"}
  /\ c \in [phase : {"spawning", "ready", "acknowledging", "leased", "failed"},
            receipt : {"unsettled", "held", "none"},
            leaseReady : {"pending", "granted", "refused"},
            lease : {"waiting", "open", "closed", "withdrawn"},
            control : BOOLEAN, result : BOOLEAN,
            terminal : Codes \cup {"none"},
            relayPhase : {"awaiting-ready", "ready", "leased", "terminal"}]
  /\ call \in {"wait", "late", "reap", "hold", "stop", "absence", "done"}
  /\ out \in [timedOut : BOOLEAN, reaped : BOOLEAN, exit : Codes \cup {"none"}]
  /\ s \in [phase : {"unborn", "awaiting-ready", "ready", "leased", "terminal", "gone"},
            exit : Codes \cup {"none"}]
  /\ g \in [phase : {"unborn", "starting", "awaiting-ack", "launching", "leased", "gone"},
            cleanup : {"no", "term", "grace", "kill"}, sudden : BOOLEAN,
            code : {"0", "1"}, exit : Codes \cup {"none"},
            target : {"none", "unstarted", "spawning", "alive", "exited", "closed"},
            tcode : Codes \cup {"none"}, peer : BOOLEAN, faults : 0..MaxFaults]
  /\ down \in Seq({"ACK", "STOP", "EOF"})
  /\ {up, relay, result} \subseteq Seq({"READY", "LEASED", "EOF"} \cup Codes)

\* createReceiptState.
NewState(lease) ==
  [phase |-> "spawning", receipt |-> "unsettled", leaseReady |-> "pending",
   lease |-> lease, control |-> TRUE, result |-> TRUE,
   terminal |-> "none", relayPhase |-> "awaiting-ready"]
NoAnswer == [timedOut |-> FALSE, reaped |-> FALSE, exit |-> "none"]

Init ==
  /\ transport \in {"supervisor", "guardian"}
  /\ parent = "alive" /\ child = "running" /\ call \in {"wait", "hold"}
  /\ c = NewState(IF Guardian THEN "waiting" ELSE "open") /\ out = NoAnswer
  /\ s = [phase |-> IF Guardian THEN "unborn" ELSE "gone", exit |-> "none"]
  /\ g = [phase |-> IF Guardian THEN "unborn" ELSE "starting", cleanup |-> "no",
          sudden |-> FALSE, code |-> "1", exit |-> "none", target |-> "none",
          tcode |-> "none", peer |-> FALSE, faults |-> 0]
  /\ down = <<>> /\ up = <<>> /\ relay = <<>> /\ result = <<>>

-----------------------------------------------------------------------------
(* A pipe whose reader is gone, or ignores it, is kept only as far as its    *)
(* end is awaited.                                                           *)
Released(n) == n.lease \in {"closed", "withdrawn"}
Reads(n)    == IF Guardian THEN ~Released(n) ELSE n.control
End(q)      == IF q # <<>> /\ q[Len(q)] = "EOF" THEN EOF ELSE <<>>
OnLease(n, q)  == IF parent = "gone" \/ ~Reads(n) THEN <<>> ELSE q
OnResult(n, q) == IF parent = "gone" \/ ~n.result THEN <<>>
                  ELSE IF n.phase = "failed" THEN End(q) ELSE q

-----------------------------------------------------------------------------
(* The leader. Its next state is chosen from a set, because a signal to its  *)
(* own group may fail and be retried.                                        *)
Up         == g.phase \notin {"unborn", "gone"}
Running    == g.target \in {"spawning", "alive"} \/ g.peer
CanReport  == IF Guardian THEN s.phase # "gone" ELSE parent # "gone" /\ c.control

\* process.exit: the leader and its memory are gone, the rest of its group stays.
Exits(r, code) == [r EXCEPT !.phase = "gone", !.exit = code, !.cleanup = "no",
                            !.sudden = FALSE, !.code = "1", !.faults = 0]

\* The states that SIGKILL to the group may lead to, and SIGTERM before it.
Kill(r) ==
  {[Exits(r, "signal") EXCEPT !.target = IF @ = "none" THEN "none" ELSE "closed",
                              !.peer = FALSE]}
    \cup (IF r.faults < MaxFaults
          THEN {[r EXCEPT !.cleanup = "kill", !.faults = @ + 1]} ELSE {})
Term(r) ==
  (IF r.sudden THEN Kill(r) ELSE {[r EXCEPT !.cleanup = "grace"]})
    \cup (IF r.faults < MaxFaults
          THEN {[r EXCEPT !.cleanup = "term", !.faults = @ + 1]} ELSE {})

BeginCleanup(r, code, sudden) ==
  IF r.cleanup # "no" THEN {r} ELSE Term([r EXCEPT !.code = code, !.sudden = sudden])

\* What the leader says goes to the lease, but a result of a guardian; and to
\* the relay, if there is one. Its death closes both.
Leads(n, said) ==
  LET end == IF n.phase = "gone" THEN EOF ELSE <<>>
      onLease == IF Guardian /\ \E m \in Codes : said = <<m>> THEN <<>> ELSE said
  IN  /\ g' = n
      /\ up' = OnLease(c, up \o onLease \o end)
      /\ relay' = IF Guardian /\ s.phase # "gone" THEN relay \o said \o end ELSE <<>>
      /\ UNCHANGED <<transport, parent, child, c, call, out, s, result>>

\* Mutant: a target counts once its spawn event has come.
AbortUnlessLeased(r, sudden) ==
  IF Guardian /\ r.phase # "leased" /\ r.cleanup = "no"
  THEN Leads(Exits(r, "1"), <<"1">>)
  ELSE \E n \in BeginCleanup(r, "1", sudden) : Leads(n, <<>>)

\* A guardian without a target reports and exits; otherwise the group is reaped.
AbortOrReap(r, sudden) ==
  IF Guardian /\ r.target = "none" /\ r.cleanup = "no"
  THEN Leads(Exits(r, "1"), <<"1">>)
  ELSE \E n \in BeginCleanup(r, "1", sudden) : Leads(n, <<>>)

\* invalidLaunch: it cannot show that it leads a group of its own.
CannotLead ==
  /\ g.phase = "starting" /\ Leads(Exits(g, "1"), <<>>) /\ UNCHANGED down

\* A legacy supervisor is ready at once; a guardian connects to the lease first.
Introduce ==
  /\ g.phase = "starting" /\ g.cleanup = "no"
  /\ Guardian => c.lease = "waiting" /\ parent # "gone"
  /\ Leads(IF CanReport THEN [g EXCEPT !.phase = "awaiting-ack"] ELSE Exits(g, "1"),
           <<"READY">>)
  /\ UNCHANGED down

\* connectDeadlineTimer and handshakeTimer.
LeaderTimeout ==
  /\ g.phase = "awaiting-ack" \/ (Guardian /\ g.phase = "starting")
  /\ g.cleanup = "no" /\ AbortOrReap(g, Guardian) /\ UNCHANGED down

\* SIGTERM or SIGINT from outside, or its own SIGTERM to the group.
LeaderSignalled ==
  /\ Up /\ g.cleanup = "no" /\ UNCHANGED down
  /\ \E n \in BeginCleanup(g, "1", Guardian) : Leads(n, <<>>)

HandleLeaseLoss == AbortOrReap(g, TRUE)

\* Mutant: once the target runs, only the lease counts.
LivenessLostBefore ==
  /\ Guardian /\ s.phase = "gone" /\ Up /\ g.cleanup = "no" /\ g.phase # "leased"
  /\ HandleLeaseLoss /\ UNCHANGED down

\* The supervisor of a guardian is gone: end of file on fd 4.
LivenessLost ==
  /\ Guardian /\ s.phase = "gone" /\ Up /\ g.cleanup = "no"
  /\ HandleLeaseLoss /\ UNCHANGED down

\* startTarget: spawn throws, fails later, or has made the process. A legacy
\* supervisor says LEASED at once.
StartTarget ==
  \/ /\ Guardian
     /\ \E n \in BeginCleanup(g, "1", TRUE) : Leads(n, <<"1">>)
  \/ /\ Guardian
     /\ \E t \in {"unstarted", "spawning"} :
          Leads([g EXCEPT !.phase = "launching", !.target = t], <<>>)
  \/ /\ ~Guardian
     /\ \E t \in {"unstarted", "alive"} :
          LET r == [g EXCEPT !.phase = "leased", !.target = t]
          IN  \E n \in IF CanReport THEN {r} ELSE BeginCleanup(r, "1", FALSE) :
                Leads(n, <<"LEASED">>)

ReadControl ==
  /\ g.phase \in {"awaiting-ack", "launching", "leased"} /\ down # <<>>
  /\ down' = Tail(down)
  /\ IF g.cleanup # "no" THEN Leads(g, <<>>)
     ELSE \/ Head(down) = "ACK" /\ g.phase = "awaiting-ack" /\ StartTarget
          \/ /\ Head(down) = "STOP" /\ g.phase # "awaiting-ack"
             /\ \E n \in BeginCleanup(g, "0", FALSE) : Leads(n, <<>>)
          \/ Head(down) = "EOF" /\ HandleLeaseLoss

TargetSpawned ==
  /\ Up /\ g.target = "spawning" /\ UNCHANGED down
  /\ LET r == [g EXCEPT !.target = "alive"]
     IN  IF g.cleanup # "no" THEN Leads(r, <<>>)
         ELSE \E n \in IF CanReport THEN {[r EXCEPT !.phase = "leased"]}
                       ELSE BeginCleanup([r EXCEPT !.phase = "leased"], "1", TRUE) :
                Leads(n, <<"LEASED">>)

\* The target's error event: there is no such command.
TargetMissing ==
  /\ Up /\ g.target = "unstarted" /\ UNCHANGED down
  /\ \E n \in BeginCleanup([g EXCEPT !.target = "closed"], "1", Guardian) : Leads(n, <<"1">>)

\* finishPersistentTarget: a server may outlive its launcher in the group. The
\* count of peers may be unobservable.
Inspected(r) ==
  IF r.tcode # "0" THEN BeginCleanup(r, "1", FALSE)
  ELSE BeginCleanup(r, "1", FALSE)
         \cup (IF r.peer THEN {r} ELSE BeginCleanup(r, "0", FALSE))

\* Mutant: a target that a signal ended is reported with exit code 0.
TargetClosedZero ==
  /\ Up /\ g.target = "exited" /\ UNCHANGED down
  /\ LET r == [g EXCEPT !.target = "closed"]
     IN  \E n \in IF ~CanReport THEN BeginCleanup(r, "1", Guardian)
                  ELSE IF Guardian THEN Inspected(r)
                  ELSE BeginCleanup(r, IF r.tcode = "0" THEN "0" ELSE "1", FALSE) :
           Leads(n, <<IF g.tcode = "signal" THEN "0" ELSE g.tcode>>)

\* The target's close event.
TargetClosed ==
  /\ Up /\ g.target = "exited" /\ UNCHANGED down
  /\ LET r == [g EXCEPT !.target = "closed"]
     IN  \E n \in IF ~CanReport THEN BeginCleanup(r, "1", Guardian)
                  ELSE IF Guardian THEN Inspected(r)
                  ELSE BeginCleanup(r, IF r.tcode = "0" THEN "0" ELSE "1", FALSE) :
           Leads(n, <<g.tcode>>)

\* persistentPoll.
Inspect ==
  /\ Guardian /\ Up /\ g.target = "closed" /\ g.cleanup = "no" /\ UNCHANGED down
  /\ \E n \in Inspected(g) : Leads(n, <<>>)

KillTimer ==
  /\ Up /\ g.cleanup = "grace" /\ UNCHANGED down
  /\ \E n \in Kill(g) : Leads(n, <<>>)

\* retrySelfGroupSignal, which may find that nobody is left.
RetryTimer ==
  /\ Up /\ g.cleanup \in {"term", "kill"} /\ UNCHANGED down
  /\ \E n \in (IF g.cleanup = "term" THEN Term(g) ELSE Kill(g))
                \cup (IF Running THEN {} ELSE {Exits(g, g.code)}) : Leads(n, <<>>)

\* The target exits, leaves a process behind in the group, or that one exits.
TargetActs ==
  /\ Up /\ UNCHANGED down
  /\ \/ /\ g.target = "alive"
        /\ \E code \in Codes :
             Leads([g EXCEPT !.target = "exited", !.tcode = code], <<>>)
     \/ g.target = "alive" /\ ~g.peer /\ Leads([g EXCEPT !.peer = TRUE], <<>>)
     \/ g.peer /\ Leads([g EXCEPT !.peer = FALSE], <<>>)

-----------------------------------------------------------------------------
(* The relaying supervisor. READY, LEASED and one result, in this order.     *)
Follows(phase, m) ==
  \/ m = "READY" /\ phase = "awaiting-ready"
  \/ m = "LEASED" /\ phase = "ready"
  \/ m \in Codes /\ phase = "leased"
PhaseAfter(m) == CASE m = "READY" -> "ready" [] m = "LEASED" -> "leased" [] OTHER -> "terminal"

Relaying  == Guardian /\ s.phase \notin {"unborn", "gone"}
\* finish: the exit of this process closes the parent's fd 3.
Finish(said, code) ==
  /\ s' = [phase |-> "gone", exit |-> code]
  /\ result' = OnResult(c, result \o said \o EOF)
FailRelay == Finish(IF s.phase = "terminal" THEN <<>> ELSE <<"1">>, "1")
RelayFrame == UNCHANGED <<transport, parent, child, c, call, out, down, up>>

SpawnGuardian ==
  /\ Guardian /\ s.phase = "unborn" /\ g.phase = "unborn" /\ RelayFrame /\ UNCHANGED relay
  /\ \/ /\ s' = [s EXCEPT !.phase = "awaiting-ready"]
        /\ g' = [g EXCEPT !.phase = "starting"] /\ UNCHANGED result
     \/ FailRelay /\ g' = [g EXCEPT !.phase = "gone"]

RelayLine ==
  /\ Relaying /\ relay # <<>> /\ Head(relay) # "EOF" /\ RelayFrame /\ UNCHANGED g
  /\ relay' = Tail(relay)
  /\ LET m == Head(relay)
     IN  IF ~Follows(s.phase, m) THEN FailRelay
         ELSE IF parent = "gone" \/ ~c.result THEN Finish(<<>>, "1")
         ELSE s' = [s EXCEPT !.phase = PhaseAfter(m)] /\ result' = OnResult(c, Append(result, m))

\* The guardian closed, or two seconds have passed since its relay ended.
GuardianClosed ==
  /\ Relaying /\ g.phase = "gone" /\ relay = EOF /\ RelayFrame /\ UNCHANGED <<g, relay>>
  /\ \/ Finish(IF s.phase = "terminal" THEN <<>> ELSE <<g.exit>>,
               IF g.exit = "0" THEN "0" ELSE "1")
     \/ FailRelay

\* A signal, or a crash.
RelayStops ==
  /\ Relaying /\ Finish(<<>>, "1") /\ RelayFrame /\ UNCHANGED <<g, relay>>

-----------------------------------------------------------------------------
(* The parent. Its next state is n and it has written said on the lease,     *)
(* which it may have closed as well.                                         *)
ParentTakes(n, said, u, r) ==
  /\ parent = "alive" /\ c' = n
  /\ up' = OnLease(n, u) /\ result' = OnResult(n, r)
  /\ down' = down \o said \o IF Released(n) /\ ~Released(c) THEN EOF ELSE <<>>
Parent(n, said) == ParentTakes(n, said, up, result)
ParentFrame == UNCHANGED <<transport, s, g, relay>>

\* closeGuardianLeaseRuntime withdraws the server if nobody has connected.
CloseLease(n) ==
  [n EXCEPT !.lease = IF @ = "waiting" THEN "withdrawn"
                      ELSE IF @ = "open" THEN "closed" ELSE @,
            !.receipt = IF Guardian /\ @ = "unsettled" THEN "none" ELSE @]
\* Mutant: the promise of the lease is left to the timers.
FailLeaseUnsettled(n) ==
  CloseLease([n EXCEPT !.phase = "failed", !.terminal = "none", !.control = FALSE,
                       !.relayPhase = "terminal",
                       !.receipt = IF @ = "unsettled" THEN "none" ELSE @])

FailLease(n) ==
  CloseLease([n EXCEPT !.phase = "failed", !.terminal = "none", !.control = FALSE,
                       !.relayPhase = "terminal",
                       !.leaseReady = IF @ = "pending" THEN "refused" ELSE @,
                       !.receipt = IF @ = "unsettled" THEN "none" ELSE @])
RelinquishLease(n) == IF n.phase = "leased" THEN CloseLease(n) ELSE FailLease(n)

\* What an observation by ps may show: a live leader, or nothing.
Observations == IF Up THEN BOOLEAN ELSE {FALSE}
OwnsManagedGroup(n, observed) == n.receipt = "held" /\ child = "running" /\ observed

\* recordProcessReceipt, which gives up after half a second.
RecordReceipt ==
  /\ ~Guardian /\ c.receipt = "unsettled"
  /\ \E observed \in Observations :
       Parent([c EXCEPT !.receipt = IF observed /\ child = "running" THEN "held" ELSE "none"], <<>>)
  /\ ParentFrame /\ UNCHANGED <<parent, child, call, out>>

\* The connection event of the lease server.
AcceptLease ==
  /\ Guardian /\ c.lease = "waiting" /\ up # <<>> /\ Parent([c EXCEPT !.lease = "open"], <<>>)
  /\ ParentFrame /\ UNCHANGED <<parent, child, call, out>>

\* acknowledgeReady, once the receipt is settled.
AcknowledgeReady ==
  /\ c.phase = "ready" /\ c.receipt # "unsettled"
  /\ \E observed \in Observations :
       IF OwnsManagedGroup(c, observed) /\ c.lease = "open"
       THEN Parent([c EXCEPT !.phase = "acknowledging"], <<"ACK">>)
       ELSE Parent(FailLease(c), <<>>)
  /\ ParentFrame /\ UNCHANGED <<parent, child, call, out>>

\* consumeControlMessage, for a line that the leader can send.
Consumed(m, observed) ==
  IF m = "READY" /\ c.phase = "spawning" /\ ~Guardian THEN [c EXCEPT !.phase = "ready"]
  ELSE IF m = "READY" /\ c.phase = "spawning" /\ observed /\ c.receipt = "unsettled"
  THEN [c EXCEPT !.phase = "ready", !.receipt = "held"]
  ELSE IF m = "LEASED" /\ c.phase = "acknowledging" /\ OwnsManagedGroup(c, observed)
  THEN [c EXCEPT !.phase = "leased",
                 !.leaseReady = IF @ = "pending" THEN "granted" ELSE @]
  ELSE IF m \in Codes /\ c.phase = "leased" /\ c.terminal = "none"
  THEN [c EXCEPT !.terminal = m]
  ELSE FailLease(c)

ReadLease ==
  /\ Reads(c) /\ c.lease # "waiting" /\ up # <<>>
  /\ \E observed \in Observations :
       ParentTakes(IF Head(up) = "EOF" THEN IF child = "running" THEN RelinquishLease(c) ELSE c
              ELSE Consumed(Head(up), observed), <<>>, Tail(up), result)
  /\ ParentFrame /\ UNCHANGED <<parent, child, call, out>>

\* attachGuardianResultRelay.
Reported(m) ==
  IF ~Follows(c.relayPhase, m) THEN FailLease(c)
  ELSE [c EXCEPT !.relayPhase = PhaseAfter(m), !.terminal = IF m \in Codes THEN m ELSE @]

ReadResult ==
  /\ Guardian /\ result # <<>>
  /\ ParentTakes(IF Head(result) = "EOF" THEN IF child = "running" THEN RelinquishLease(c) ELSE c
            ELSE IF c.phase = "failed" THEN c ELSE Reported(Head(result)),
              <<>>, up, Tail(result))
  /\ ParentFrame /\ UNCHANGED <<parent, child, call, out>>

\* connectionTimer, protocolTimer, an error of the lease server; and the error
\* of a write to a leader that is gone.
LeaseFails ==
  /\ \/ c.leaseReady = "pending" /\ c.lease # "withdrawn" /\ child # "closed"
     \/ ~Up /\ \E i \in DOMAIN down : down[i] # "EOF"
  /\ c.phase # "failed" /\ Parent(FailLease(c), <<>>)
  /\ ParentFrame /\ UNCHANGED <<parent, child, call, out>>

\* The close event of a socket that the parent itself destroyed.
LeaseSocketClosed ==
  /\ Guardian /\ c.lease = "closed" /\ child = "running"
  /\ c.phase \notin {"leased", "failed"} /\ Parent(FailLease(c), <<>>)
  /\ ParentFrame /\ UNCHANGED <<parent, child, call, out>>

ChildCode == IF Guardian THEN s.exit ELSE g.exit
ChildExits ==
  /\ child = "running" /\ ChildCode # "none" /\ child' = "exited" /\ Parent(c, <<>>)
  /\ ParentFrame /\ UNCHANGED <<parent, call, out>>

\* The close event comes when every pipe of the child has ended. A guardian's
\* success is believed only if the supervisor closed cleanly.
TerminalValid ==
  c.terminal # "none" /\ ~(Guardian /\ c.terminal = "0" /\ ChildCode # "0")
ChildCloses ==
  /\ child = "exited" /\ child' = "closed"
  /\ IF Guardian THEN result = <<>> ELSE up = <<>>
  /\ Parent(IF c.phase = "leased" /\ TerminalValid THEN CloseLease(c) ELSE FailLease(c), <<>>)
  /\ ParentFrame /\ UNCHANGED <<parent, call, out>>

\* The first SIGTERM or SIGINT; and the end of the process, expected or not, with
\* all that it knew.
ParentSignalled ==
  /\ ~Released(c) /\ child # "closed" /\ Parent(CloseLease(c), <<>>)
  /\ ParentFrame /\ UNCHANGED <<parent, child, call, out>>
ParentStalls ==
  /\ parent = "alive" /\ parent' = "stalled"
  /\ ParentFrame /\ UNCHANGED <<child, c, call, out, down, up, result>>
ParentGone ==
  /\ parent # "gone" /\ parent' = "gone" /\ c' = NewState("closed")
  /\ down' = IF Released(c) THEN down ELSE down \o EOF
  /\ call' = "done" /\ out' = NoAnswer /\ up' = <<>> /\ result' = <<>>
  /\ ParentFrame /\ UNCHANGED child

-----------------------------------------------------------------------------
(* The caller: runCommand waits for the exit and then stops the command; the *)
(* harness holds a server and then stops it. Its waits are bounded by time,  *)
(* except those for the lease and for the receipt.                           *)
CallerFrame == ParentFrame /\ UNCHANGED <<parent, child>>

RequestAuthenticatedStop ==
  IF child # "running" THEN Parent(CloseLease(c), <<>>)
  ELSE IF c.phase # "leased" \/ c.lease # "open" THEN Parent(FailLease(c), <<>>)
  ELSE Parent(CloseLease(c), <<"STOP">>)

WaitEnds ==
  /\ call = "wait" /\ Parent(c, <<>>) /\ CallerFrame
  /\ \/ child = "closed" /\ call' = "reap" /\ UNCHANGED out
     \/ child # "closed" /\ call' = "late" /\ out' = [out EXCEPT !.timedOut = TRUE]

StopLate ==
  /\ call = "late" /\ c.leaseReady # "pending" /\ call' = "reap"
  /\ IF c.leaseReady = "granted" THEN RequestAuthenticatedStop ELSE Parent(FailLease(c), <<>>)
  /\ CallerFrame /\ UNCHANGED out

\* terminal?.exitCode ?? otherwise: a signal has no exit code.
ExitCode(otherwise) == IF c.terminal \in {"0", "1"} THEN c.terminal ELSE otherwise

WaitReturns ==
  /\ call = "reap" /\ c.receipt # "unsettled" /\ call' = "stop" /\ Parent(c, <<>>)
  /\ out' = [out EXCEPT !.exit = IF c.phase = "failed" THEN "1"
               ELSE ExitCode(IF child = "running" THEN "none" ELSE ChildCode)]
  /\ CallerFrame

StopCommand ==
  /\ call \in {"hold", "stop"} /\ c.leaseReady # "pending" /\ c.receipt # "unsettled"
  /\ call' = "absence" /\ CallerFrame /\ UNCHANGED out
  /\ IF c.leaseReady = "refused" \/ c.receipt = "none" THEN Parent(FailLease(c), <<>>)
     ELSE IF child = "running" THEN RequestAuthenticatedStop
     ELSE Parent(CloseLease(c), <<>>)

\* Mutant: a child that has closed is taken for a group that is gone.
StopReturnsOnClose ==
  /\ call = "absence" /\ call' = "done" /\ CallerFrame /\ Parent(c, <<>>)
  /\ out' = [out EXCEPT !.reaped = child = "closed"]

\* waitForGroupAbsence and the rest of runCommand. A command that is not seen
\* reaped is let go (releaseChildHandle).
StopReturns ==
  /\ call = "absence" /\ call' = "done" /\ CallerFrame
  /\ \E reaped \in (IF ~Up /\ ~Running /\ c.receipt = "held" THEN BOOLEAN ELSE {FALSE}) :
       /\ Parent(IF reaped THEN c
                 ELSE [CloseLease(c) EXCEPT !.control = FALSE, !.result = FALSE], <<>>)
       /\ out' = [timedOut |-> out.timedOut \/ ~reaped, reaped |-> reaped,
                  exit |-> IF out.exit = "none" \/ c.phase = "failed" THEN out.exit
                           ELSE ExitCode(out.exit)]

-----------------------------------------------------------------------------
Leader ==
  \/ CannotLead \/ Introduce \/ LeaderTimeout \/ LeaderSignalled \/ LivenessLost
  \/ ReadControl \/ TargetSpawned \/ TargetMissing \/ TargetClosed \/ Inspect
  \/ KillTimer \/ RetryTimer \/ TargetActs
Supervisor == SpawnGuardian \/ RelayLine \/ GuardianClosed \/ RelayStops
Controller ==
  \/ RecordReceipt \/ AcceptLease \/ AcknowledgeReady \/ ReadLease \/ ReadResult
  \/ LeaseFails \/ LeaseSocketClosed \/ ChildExits \/ ChildCloses
  \/ ParentSignalled \/ ParentStalls \/ ParentGone
Caller == WaitEnds \/ StopLate \/ WaitReturns \/ StopCommand \/ StopReturns
Next == Leader \/ Supervisor \/ Controller \/ Caller
Spec == Init /\ [][Next]_vars

(* A process that neither stalls nor dies runs its callbacks and its timers, *)
(* and an observation ends. Nobody owes a stop, a signal, an exit of the     *)
(* target or a crash. A caller that waits may have set any timeout.          *)
Fairness ==
  /\ WF_vars(Introduce) /\ WF_vars(LeaderTimeout) /\ WF_vars(LivenessLost)
  /\ WF_vars(ReadControl) /\ WF_vars(TargetSpawned) /\ WF_vars(TargetMissing)
  /\ WF_vars(TargetClosed) /\ WF_vars(KillTimer) /\ WF_vars(RetryTimer)
  /\ WF_vars(SpawnGuardian) /\ WF_vars(RelayLine) /\ WF_vars(GuardianClosed)
  /\ WF_vars(RecordReceipt) /\ WF_vars(AcceptLease) /\ WF_vars(AcknowledgeReady)
  /\ WF_vars(ReadLease) /\ WF_vars(ReadResult) /\ WF_vars(LeaseFails)
  /\ WF_vars(LeaseSocketClosed) /\ WF_vars(ChildExits) /\ WF_vars(ChildCloses)
  /\ WF_vars(Caller)
FairSpec == Spec /\ Fairness

-----------------------------------------------------------------------------
(* Whoever leads the group does not leave before the target and what it      *)
(* started are gone: no way out of the leader, however early or late, leaves *)
(* a process behind that nobody reaps.                                       *)
NobodyLeft == g.phase = "gone" => ~Running

(* runCommand reports exit code 0 in time only if the target itself exited   *)
(* with 0 and its group is gone; nothing that a supervisor's own exit, a     *)
(* stop or a lost lease leaves behind is taken for it.                       *)
SuccessIsEarned ==
  call = "done" /\ out.exit = "0" /\ ~out.timedOut => g.tcode = "0" /\ ~Up /\ ~Running

(* Once a group was reported reaped it stays empty: nothing that was still   *)
(* under way starts a target afterwards.                                     *)
ReapedIsFinal == out.reaped => ~Up /\ ~Running

(* The first cause of a cleanup stands: neither the end of file behind a     *)
(* STOP, nor the group's own SIGTERM, nor the target that dies of it takes   *)
(* away the grace, or the exit code, that the first cause gave.              *)
FirstCauseStands ==
  [][g.cleanup # "no" /\ Up' => g'.cleanup # "no" /\ g'.code = g.code /\ g'.sudden = g.sudden]_vars

(* A group whose lease is lost is reaped: the parent has closed the lease or *)
(* is gone, or the supervisor of a guardian is gone.                         *)
LeaseLost == Released(c) \/ parent = "gone" \/ (Guardian /\ s.phase = "gone")
LeaseBoundsGroup == LeaseLost ~> (g.phase = "gone")

(* A caller that stops a command, or waits for it, gets its answer.          *)
CallsReturn == call \notin {"hold", "done"} ~> (call = "done" \/ parent # "alive")
=============================================================================
