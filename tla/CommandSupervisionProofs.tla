---------------------- MODULE CommandSupervisionProofs ----------------------
(* Proofs about a command's processes, for any number of signals that fail.  *)
(* The first half is about the leader alone: it leaves nobody behind, and    *)
(* the first cause of a cleanup stands.  The second follows what is said on  *)
(* the pipes: an exit code 0 that a caller gets in time is the target's own, *)
(* a group that was reported reaped stays empty, every promise is settled    *)
(* once, and the end of the lease is on its way to whoever must hear of it.  *)
EXTENDS CommandSupervision, SequenceTheorems, TLAPS

Leaders ==
  [phase : {"unborn", "starting", "awaiting-ack", "launching", "leased", "gone"},
   cleanup : {"no", "term", "grace", "kill"}, sudden : BOOLEAN,
   code : {"0", "1"}, exit : Codes \cup {"none"},
   target : {"none", "unstarted", "spawning", "alive", "exited", "closed"},
   tcode : Codes \cup {"none"}, peer : BOOLEAN, faults : 0 .. MaxFaults]

(* A leader that has not acknowledged yet has no target, whoever has no      *)
(* target has no peer, and a leader that is gone has left neither.           *)
Sound(r) ==
  /\ r \in Leaders
  /\ r.phase \in {"unborn", "starting", "awaiting-ack"} => r.target = "none"
  /\ r.target = "none" => ~r.peer
  /\ r.phase = "gone" => r.target \notin {"spawning", "alive"} /\ ~r.peer

(* What the property says of a step from r to n.                             *)
Stands(r, n) ==
  r.cleanup # "no" /\ n.phase \notin {"unborn", "gone"}
    => n.cleanup # "no" /\ n.code = r.code /\ n.sudden = r.sudden

Good(r, n) == Sound(n) /\ Stands(r, n)
LeaderInv == Sound(g)

LEMMA NoFault == 0 \in 0 .. MaxFaults
  BY MaxFaultsAssumption

(* SIGKILL to the group ends all of it or nothing.                           *)
LEMMA KillSound ==
  ASSUME NEW r, Sound(r), NEW n \in Kill(r)
  PROVE  /\ Sound(n) /\ n.phase \in {r.phase, "gone"}
         /\ n.phase # "gone" => n.cleanup # "no" /\ n.code = r.code /\ n.sudden = r.sudden
<1> DEFINE dead == [Exits(r, "signal") EXCEPT
                      !.target = IF @ = "none" THEN "none" ELSE "closed", !.peer = FALSE]
           failed == [r EXCEPT !.cleanup = "kill", !.faults = @ + 1]
<1>1. r \in Leaders
  BY DEF Sound
<1>2. n = dead \/ (n = failed /\ r.faults < MaxFaults)
  BY DEF Kill
<1>3. CASE n = dead
  <2>1. /\ dead \in Leaders /\ dead.phase = "gone" /\ ~dead.peer
        /\ dead.target \in {"none", "closed"}
    BY <1>1, NoFault DEF Leaders, Exits, Codes
  <2> QED
    BY <1>3, <2>1 DEF Sound
<1>4. CASE n = failed /\ r.faults < MaxFaults
  <2>. DEFINE more == r.faults + 1
             again == [r EXCEPT !.cleanup = "kill", !.faults = more]
  <2>0. more \in 0 .. MaxFaults /\ failed = again
    BY <1>1, <1>4, MaxFaultsAssumption DEF Leaders
  <2>. HIDE DEF more
  <2>1. /\ again \in Leaders /\ again.phase = r.phase /\ again.target = r.target
        /\ again.peer = r.peer /\ again.cleanup = "kill"
        /\ again.code = r.code /\ again.sudden = r.sudden
    BY <1>1, <2>0 DEF Leaders, Codes
  <2> QED
    BY <1>4, <2>0, <2>1 DEF Sound
<1> QED
  BY <1>2, <1>3, <1>4

(* SIGTERM to the group starts a cleanup or, if it is sudden, ends it.       *)
LEMMA TermSound ==
  ASSUME NEW r, Sound(r), NEW n \in Term(r)
  PROVE  /\ Sound(n) /\ n.phase \in {r.phase, "gone"}
         /\ n.phase # "gone" => n.cleanup # "no" /\ n.code = r.code /\ n.sudden = r.sudden
<1> DEFINE grace == [r EXCEPT !.cleanup = "grace"]
           failed == [r EXCEPT !.cleanup = "term", !.faults = @ + 1]
<1>1. r \in Leaders
  BY DEF Sound
<1>2. n \in Kill(r) \/ n = grace \/ (n = failed /\ r.faults < MaxFaults)
  BY DEF Term
<1>3. CASE n \in Kill(r)
  BY <1>3, KillSound
<1>4. CASE n = grace
  <2>1. /\ grace \in Leaders /\ grace.phase = r.phase /\ grace.target = r.target
        /\ grace.peer = r.peer /\ grace.cleanup = "grace"
        /\ grace.code = r.code /\ grace.sudden = r.sudden
    BY <1>1 DEF Leaders, Codes
  <2> QED
    BY <1>4, <2>1 DEF Sound
<1>5. CASE n = failed /\ r.faults < MaxFaults
  <2>. DEFINE more == r.faults + 1
             again == [r EXCEPT !.cleanup = "term", !.faults = more]
  <2>0. more \in 0 .. MaxFaults /\ failed = again
    BY <1>1, <1>5, MaxFaultsAssumption DEF Leaders
  <2>. HIDE DEF more
  <2>1. /\ again \in Leaders /\ again.phase = r.phase /\ again.target = r.target
        /\ again.peer = r.peer /\ again.cleanup = "term"
        /\ again.code = r.code /\ again.sudden = r.sudden
    BY <1>1, <2>0 DEF Leaders, Codes
  <2> QED
    BY <1>5, <2>0, <2>1 DEF Sound
<1> QED
  BY <1>2, <1>3, <1>4, <1>5

(* beginCleanup changes nothing the second time.                             *)
LEMMA CleanupSound ==
  ASSUME NEW r, Sound(r), NEW code \in {"0", "1"}, NEW sudden \in BOOLEAN,
         NEW n \in BeginCleanup(r, code, sudden)
  PROVE  Good(r, n)
<1> DEFINE q == [r EXCEPT !.code = code, !.sudden = sudden]
<1>1. CASE r.cleanup # "no"
  BY <1>1 DEF BeginCleanup, Good, Stands
<1>2. CASE r.cleanup = "no"
  <2>1. r \in Leaders
    BY DEF Sound
  <2>2. /\ q \in Leaders /\ q.phase = r.phase /\ q.target = r.target /\ q.peer = r.peer
    BY <2>1 DEF Leaders, Codes
  <2>3. Sound(q)
    BY <2>2 DEF Sound
  <2>4. n \in Term(q)
    BY <1>2 DEF BeginCleanup
  <2>5. Sound(n)
    BY <2>3, <2>4, TermSound
  <2> QED
    BY <1>2, <2>5 DEF Good, Stands
<1> QED
  BY <1>1, <1>2

(* AbortOrReap exits alone only without a target.                            *)
LEMMA AbortSound ==
  ASSUME LeaderInv, NEW sudden \in BOOLEAN, AbortOrReap(g, sudden)
  PROVE  Good(g, g')
<1>1. CASE Guardian /\ g.target = "none" /\ g.cleanup = "no"
  <2>1. g' = Exits(g, "1")
    BY <1>1 DEF AbortOrReap, Leads
  <2>2. /\ Exits(g, "1") \in Leaders /\ Exits(g, "1").target = g.target
        /\ Exits(g, "1").peer = g.peer /\ Exits(g, "1").phase = "gone"
    BY NoFault DEF LeaderInv, Sound, Leaders, Exits, Codes
  <2> QED
    BY <1>1, <2>1, <2>2 DEF LeaderInv, Sound, Good, Stands
<1>2. CASE ~(Guardian /\ g.target = "none" /\ g.cleanup = "no")
  <2>1. PICK n \in BeginCleanup(g, "1", sudden) : Leads(n, <<>>)
    BY <1>2 DEF AbortOrReap
  <2> QED
    BY <2>1, CleanupSound DEF Leads, LeaderInv
<1> QED
  BY <1>1, <1>2

(* startTarget: from the acknowledgement on the leader has a target, whether *)
(* spawn threw, will fail or has made the process.                           *)
LEMMA StartSound ==
  ASSUME LeaderInv, g.phase = "awaiting-ack", g.cleanup = "no", StartTarget
  PROVE  Good(g, g')
<1> USE DEF LeaderInv
<1>1. CASE \E n \in BeginCleanup(g, "1", TRUE) : Leads(n, <<"1">>)
  BY <1>1, CleanupSound DEF Leads
<1>2. CASE \E t \in {"unstarted", "spawning"} :
             Leads([g EXCEPT !.phase = "launching", !.target = t], <<>>)
  <2>1. PICK t \in {"unstarted", "spawning"} :
          g' = [g EXCEPT !.phase = "launching", !.target = t]
    BY <1>2 DEF Leads
  <2>2. g \in Leaders /\ ~g.peer
    BY DEF Sound
  <2>3. /\ g' \in Leaders /\ g'.phase = "launching" /\ g'.target = t /\ g'.cleanup = "no"
    BY <2>1, <2>2 DEF Leaders, Codes
  <2>4. ~g'.peer
    BY <2>1, <2>2 DEF Leaders
  <2> QED
    BY <2>3, <2>4 DEF Sound, Good, Stands
<1>3. CASE \E t \in {"unstarted", "alive"} :
             LET r == [g EXCEPT !.phase = "leased", !.target = t]
             IN  \E n \in IF CanReport THEN {r} ELSE BeginCleanup(r, "1", FALSE) :
                   Leads(n, <<"LEASED">>)
  <2>1. PICK t \in {"unstarted", "alive"} :
          \E n \in IF CanReport THEN {[g EXCEPT !.phase = "leased", !.target = t]}
                   ELSE BeginCleanup([g EXCEPT !.phase = "leased", !.target = t], "1", FALSE) :
            g' = n
    BY <1>3 DEF Leads
  <2> DEFINE r == [g EXCEPT !.phase = "leased", !.target = t]
  <2>2. g \in Leaders /\ ~g.peer
    BY DEF Sound
  <2>3. r \in Leaders /\ r.phase = "leased" /\ r.target = t
    BY <2>2 DEF Leaders, Codes
  <2>4. ~r.peer
    BY <2>2 DEF Leaders
  <2>5. Sound(r)
    BY <2>3, <2>4 DEF Sound
  <2>6. g' = r \/ g' \in BeginCleanup(r, "1", FALSE)
    BY <2>1
  <2>7. Sound(g')
    BY <2>5, <2>6, CleanupSound DEF Good
  <2> QED
    BY <2>7 DEF Good, Stands
<1> QED
  BY <1>1, <1>2, <1>3 DEF StartTarget

(* What the target, its events and its peers do to the leader.               *)
LEMMA TargetSound ==
  ASSUME LeaderInv, TargetSpawned \/ TargetMissing \/ TargetClosed \/ TargetActs
  PROVE  Good(g, g')
<1>0. g \in Leaders /\ Sound(g)
  BY DEF LeaderInv, Sound
<1>1. CASE TargetSpawned
  <2> DEFINE r == [g EXCEPT !.target = "alive"]
             q == [r EXCEPT !.phase = "leased"]
  <2>1. /\ r \in Leaders /\ r.target = "alive" /\ r.phase = g.phase
        /\ r.cleanup = g.cleanup /\ r.code = g.code /\ r.sudden = g.sudden
    BY <1>0 DEF Leaders, Codes
  <2>2. /\ q \in Leaders /\ q.target = "alive" /\ q.phase = "leased"
    BY <1>0 DEF Leaders, Codes
  <2>3. g.phase \in {"launching", "leased"}
    BY <1>1, <1>0 DEF TargetSpawned, Up, Sound, Leaders
  <2>4. Sound(r) /\ Sound(q)
    BY <2>1, <2>2, <2>3 DEF Sound
  <2>5. CASE g.cleanup # "no"
    BY <1>1, <2>1, <2>4, <2>5 DEF TargetSpawned, Leads, Good, Stands
  <2>6. CASE g.cleanup = "no"
    <3>1. g' = q \/ g' \in BeginCleanup(q, "1", TRUE)
      BY <1>1, <2>6 DEF TargetSpawned, Leads
    <3>2. Sound(g')
      BY <2>4, <3>1, CleanupSound DEF Good
    <3> QED
      BY <2>6, <3>2 DEF Good, Stands
  <2> QED
    BY <2>5, <2>6
<1>2. CASE TargetMissing \/ TargetClosed
  <2> DEFINE r == [g EXCEPT !.target = "closed"]
  <2>1. /\ r \in Leaders /\ r.target = "closed" /\ r.phase = g.phase
        /\ r.cleanup = g.cleanup /\ r.code = g.code /\ r.sudden = g.sudden
    BY <1>0 DEF Leaders, Codes
  <2>2. g.phase \in {"launching", "leased"}
    BY <1>2, <1>0 DEF TargetMissing, TargetClosed, Up, Sound, Leaders
  <2>3. Sound(r)
    BY <2>1, <2>2 DEF Sound
  <2>4. \/ g' = r
        \/ \E code \in {"0", "1"}, sudden \in BOOLEAN : g' \in BeginCleanup(r, code, sudden)
    BY <1>2 DEF TargetMissing, TargetClosed, Leads, Inspected, Guardian
  <2>5. Good(r, g')
    BY <2>3, <2>4, CleanupSound DEF Good, Stands
  <2> QED
    BY <2>1, <2>5 DEF Good, Stands
<1>3. CASE TargetActs
  <2>1. PICK n : /\ g' = n
                 /\ \/ /\ g.target = "alive"
                       /\ \E code \in Codes :
                            n = [g EXCEPT !.target = "exited", !.tcode = code]
                    \/ g.target = "alive" /\ n = [g EXCEPT !.peer = TRUE]
                    \/ g.peer /\ n = [g EXCEPT !.peer = FALSE]
    BY <1>3 DEF TargetActs, Leads
  <2>2. g.phase \in {"launching", "leased"}
    BY <1>3, <1>0 DEF TargetActs, Up, Sound, Leaders
  <2>3. /\ n \in Leaders /\ n.phase = g.phase /\ n.target # "none"
        /\ n.cleanup = g.cleanup /\ n.code = g.code /\ n.sudden = g.sudden
    BY <1>0, <2>1 DEF Leaders, Codes, Sound
  <2> QED
    BY <2>1, <2>2, <2>3 DEF Good, Sound, Stands
<1> QED
  BY <1>1, <1>2, <1>3

(* Every step is good for the leader.                                        *)
LEMMA StepSound ==
  ASSUME LeaderInv, [Next]_vars
  PROVE  Good(g, g')
<1>0. g \in Leaders /\ Sound(g)
  BY DEF LeaderInv, Sound
<1>1. CASE g' = g
  BY <1>0, <1>1 DEF Good, Stands
<1>2. CASE CannotLead
  <2>1. g' = Exits(g, "1") /\ g.target = "none" /\ ~g.peer
    BY <1>0, <1>2 DEF CannotLead, Leads, Sound
  <2>2. /\ g' \in Leaders /\ g'.phase = "gone" /\ g'.target = g.target /\ g'.peer = g.peer
    BY <1>0, <2>1, NoFault DEF Exits, Leaders, Codes
  <2> QED
    BY <2>1, <2>2 DEF Good, Sound, Stands
<1>3. CASE Introduce
  <2>1. /\ \/ g' = [g EXCEPT !.phase = "awaiting-ack"]
           \/ g' = Exits(g, "1")
        /\ g.target = "none" /\ ~g.peer /\ g.cleanup = "no"
    BY <1>0, <1>3 DEF Introduce, Leads, Sound
  <2>2. CASE g' = [g EXCEPT !.phase = "awaiting-ack"]
    <3>1. /\ g' \in Leaders /\ g'.phase = "awaiting-ack"
          /\ g'.target = g.target /\ g'.peer = g.peer
      BY <1>0, <2>2 DEF Leaders, Codes
    <3> QED
      BY <2>1, <3>1 DEF Good, Sound, Stands
  <2>3. CASE g' = Exits(g, "1")
    <3>1. /\ g' \in Leaders /\ g'.phase = "gone"
          /\ g'.target = g.target /\ g'.peer = g.peer
      BY <1>0, <2>3, NoFault DEF Exits, Leaders, Codes
    <3> QED
      BY <2>1, <3>1 DEF Good, Sound, Stands
  <2> QED
    BY <2>1, <2>2, <2>3
<1>4. CASE LeaderTimeout
  BY <1>4, AbortSound DEF LeaderTimeout, Guardian
<1>5. CASE LeaderSignalled
  <2>1. Guardian \in BOOLEAN
    BY DEF Guardian
  <2> QED
    BY <1>0, <1>5, <2>1, CleanupSound DEF LeaderSignalled, Leads
<1>6. CASE LivenessLost
  BY <1>6, AbortSound DEF LivenessLost, HandleLeaseLoss
<1>7. CASE ReadControl
  <2>1. CASE g.cleanup # "no"
    BY <1>0, <1>7, <2>1 DEF ReadControl, Leads, Good, Stands
  <2>2. CASE g.cleanup = "no" /\ g.phase = "awaiting-ack" /\ StartTarget
    BY <2>2, StartSound
  <2>3. CASE \E n \in BeginCleanup(g, "0", FALSE) : Leads(n, <<>>)
    BY <1>0, <2>3, CleanupSound DEF Leads
  <2>4. CASE HandleLeaseLoss
    BY <2>4, AbortSound DEF HandleLeaseLoss
  <2> QED
    BY <1>7, <2>1, <2>2, <2>3, <2>4 DEF ReadControl
<1>8. CASE TargetSpawned \/ TargetMissing \/ TargetClosed \/ TargetActs
  BY <1>8, TargetSound
<1>9. CASE Inspect
  <2>1. \/ g' = g
        \/ \E code \in {"0", "1"} : g' \in BeginCleanup(g, code, FALSE)
    BY <1>9 DEF Inspect, Inspected, Leads
  <2> QED
    BY <1>0, <2>1, CleanupSound DEF Good, Stands
<1>10. CASE KillTimer
  <2>1. g' \in Kill(g) /\ g.cleanup # "no"
    BY <1>10 DEF KillTimer, Leads
  <2> QED
    BY <1>0, <2>1, KillSound DEF Good, Stands
<1>11. CASE RetryTimer
  <2>1. \/ g' \in Term(g) \/ g' \in Kill(g)
        \/ g' = Exits(g, g.code) /\ ~Running
    BY <1>11 DEF RetryTimer, Leads
  <2>2. CASE g' \in Term(g)
    BY <1>0, <2>2, TermSound DEF Good, Stands
  <2>3. CASE g' \in Kill(g)
    BY <1>0, <2>3, KillSound DEF Good, Stands
  <2>4. CASE g' = Exits(g, g.code) /\ ~Running
    <3>1. /\ g' \in Leaders /\ g'.phase = "gone"
          /\ g'.target = g.target /\ g'.peer = g.peer
      BY <1>0, <2>4, NoFault DEF Exits, Leaders, Codes
    <3> QED
      BY <2>4, <3>1 DEF Good, Sound, Stands, Running
  <2> QED
    BY <2>1, <2>2, <2>3, <2>4
<1>12. CASE SpawnGuardian
  <2>1. g' = [g EXCEPT !.phase = "starting"] \/ g' = [g EXCEPT !.phase = "gone"]
    BY <1>12 DEF SpawnGuardian
  <2>2. g.phase = "unborn" /\ g.target = "none" /\ ~g.peer
    BY <1>12, <1>0 DEF SpawnGuardian, Sound
  <2>3. /\ g' \in Leaders /\ g'.phase \in {"starting", "gone"} /\ g'.target = g.target
        /\ g'.peer = g.peer /\ g'.cleanup = g.cleanup
        /\ g'.code = g.code /\ g'.sudden = g.sudden
    BY <1>0, <2>1 DEF Leaders, Codes
  <2> QED
    BY <2>2, <2>3 DEF Good, Sound, Stands
<1>13. CASE RelayLine \/ GuardianClosed \/ RelayStops \/ Controller \/ Caller
  <2>1. g' = g
    BY <1>13 DEF RelayLine, GuardianClosed, RelayStops, Controller, Caller,
                 RecordReceipt, AcceptLease, AcknowledgeReady, ReadLease, ReadResult,
                 LeaseFails, LeaseSocketClosed, ChildExits, ChildCloses, ParentSignalled,
                 ParentStalls, ParentGone, WaitEnds, StopLate, WaitReturns, StopCommand,
                 StopReturns, CallerFrame, ParentFrame
  <2> QED
    BY <1>1, <2>1
<1>14. CASE UNCHANGED vars
  BY <1>1, <1>14 DEF vars
<1> QED
  BY <1>2, <1>3, <1>4, <1>5, <1>6, <1>7, <1>8, <1>9, <1>10, <1>11, <1>12, <1>13, <1>14
     DEF Next, Leader, Supervisor

(* LeaderInv holds always.                                                   *)
LEMMA LeaderInvariant == Spec => []LeaderInv
<1>1. Init => LeaderInv
  BY MaxFaultsAssumption DEF Init, LeaderInv, Sound, Leaders, Codes
<1>2. LeaderInv /\ [Next]_vars => LeaderInv'
  BY StepSound DEF Good, LeaderInv
<1> QED
  BY <1>1, <1>2, PTL DEF Spec

(* NobodyLeft: the guardian or the legacy supervisor does not exit before    *)
(* its target and what the target left in the group are gone.                *)
THEOREM GroupSafety == Spec => []NobodyLeft
<1>1. LeaderInv => NobodyLeft
  BY DEF LeaderInv, Sound, NobodyLeft, Running
<1> QED
  BY <1>1, LeaderInvariant, PTL

(* FirstCauseStands: whatever follows the first call of beginCleanup changes *)
(* neither its exit code nor its grace.                                      *)
THEOREM CauseSafety == Spec => FirstCauseStands
<1>1. LeaderInv /\ [Next]_vars
        => [g.cleanup # "no" /\ Up'
              => g'.cleanup # "no" /\ g'.code = g.code /\ g'.sudden = g.sudden]_vars
  BY StepSound DEF Good, Stands, Up
<1> QED
  BY <1>1, LeaderInvariant, PTL DEF Spec, FirstCauseStands

-----------------------------------------------------------------------------
(* The other half: what is said, kept and returned.                          *)
Orders   == {"ACK", "STOP", "EOF"}
Messages == {"READY", "LEASED", "EOF"} \cup Codes
States ==
  [phase : {"spawning", "ready", "acknowledging", "leased", "failed"},
   receipt : {"unsettled", "held", "none"},
   leaseReady : {"pending", "granted", "refused"},
   lease : {"waiting", "open", "closed", "withdrawn"},
   control : BOOLEAN, result : BOOLEAN,
   terminal : Codes \cup {"none"},
   relayPhase : {"awaiting-ready", "ready", "leased", "terminal"}]
Outcomes == [timedOut : BOOLEAN, reaped : BOOLEAN, exit : Codes \cup {"none"}]
Relays ==
  [phase : {"unborn", "awaiting-ready", "ready", "leased", "terminal", "gone"},
   exit : Codes \cup {"none"}]

FieldTypes ==
  /\ transport \in {"supervisor", "guardian"}
  /\ parent \in {"alive", "stalled", "gone"}
  /\ child \in {"running", "exited", "closed"}
  /\ c \in States /\ out \in Outcomes /\ s \in Relays
  /\ call \in {"wait", "late", "reap", "hold", "stop", "absence", "done"}
  /\ down \in Seq(Orders)
  /\ up \in Seq(Messages) /\ relay \in Seq(Messages) /\ result \in Seq(Messages)

Has(q, m) == \E i \in 1 .. Len(q) : q[i] = m

(* A receipt is of a leader that was born, a group is reported reaped once   *)
(* its leader is gone, and a guardian that was born has an exit.             *)
Reaped ==
  /\ c.receipt = "held" => g.phase # "unborn"
  /\ out.reaped => g.phase = "gone"
  /\ g.phase = "gone" => g.exit # "none" \/ s.phase = "gone"

(* Once a stop was sent, the caller has given up waiting or never waited.    *)
Halted == out.timedOut \/ (call \in {"absence", "done"} /\ out.exit = "none")

(* Whoever says 0 or is about to, says it of the target.                     *)
Claims ==
  \/ g.code = "0" \/ g.exit = "0" \/ s.exit = "0"
  \/ Has(up, "0") \/ Has(relay, "0") \/ Has(result, "0")
  \/ c.terminal = "0" \/ out.exit = "0"

(* The target's own exit code is known from its exit on.                     *)
Late(r) ==
  /\ r.tcode = "0" => r.target \in {"exited", "closed"}
  /\ r.target = "exited" => r.tcode # "none"

Earned ==
  /\ Late(g)
  /\ ~Halted => ~Has(down, "STOP") /\ (Claims => g.tcode = "0")

(* Where the caller is and what it knows by then.                            *)
Waiting ==
  /\ call = "late" => out.timedOut
  /\ call \in {"wait", "late", "hold"} => out.exit = "none"
  /\ call \in {"reap", "stop", "absence", "done"} /\ ~Halted => child = "closed"
  /\ call = "done" /\ ~Halted => out.reaped

CInv == FieldTypes /\ Reaped /\ Earned /\ Waiting

LEMMA HasOne ==
  /\ \A x : ~Has(<<>>, x)
  /\ \A x, m : Has(<<m>>, x) <=> x = m
  BY DEF Has

LEMMA HasConcat ==
  ASSUME NEW S, NEW q \in Seq(S), NEW t \in Seq(S), NEW x, Has(q \o t, x)
  PROVE  Has(q, x) \/ Has(t, x)
<1>1. /\ Len(q) \in Nat /\ Len(t) \in Nat /\ Len(q \o t) = Len(q) + Len(t)
      /\ \A i \in 1 .. Len(q) + Len(t) :
           (q \o t)[i] = IF i <= Len(q) THEN q[i] ELSE t[i - Len(q)]
  BY ConcatProperties
<1>2. PICK i \in 1 .. Len(q) + Len(t) : (q \o t)[i] = x
  BY <1>1 DEF Has
<1>3. CASE i <= Len(q)
  BY <1>1, <1>2, <1>3 DEF Has
<1>4. CASE ~(i <= Len(q))
  <2>1. i - Len(q) \in 1 .. Len(t)
    BY <1>1, <1>4
  <2> QED
    BY <1>1, <1>2, <1>4, <2>1 DEF Has
<1> QED
  BY <1>3, <1>4

LEMMA HasTail ==
  ASSUME NEW S, NEW q \in Seq(S), q # <<>>
  PROVE  /\ Tail(q) \in Seq(S) /\ Head(q) \in S /\ Has(q, Head(q))
         /\ \A x : Has(Tail(q), x) => Has(q, x)
<1>1. /\ Head(q) \in S /\ Tail(q) \in Seq(S) /\ Len(Tail(q)) = Len(q) - 1
      /\ \A i \in 1 .. Len(Tail(q)) : Tail(q)[i] = q[i + 1]
      /\ Len(q) \in Nat /\ Len(q) >= 1 /\ Head(q) = q[1]
  BY HeadTailProperties, EmptySeq
<1>2. Has(q, Head(q))
  BY <1>1 DEF Has
<1>3. ASSUME NEW x, Has(Tail(q), x) PROVE Has(q, x)
  <2>1. PICK i \in 1 .. Len(Tail(q)) : Tail(q)[i] = x
    BY <1>3 DEF Has
  <2>2. i + 1 \in 1 .. Len(q) /\ q[i + 1] = x
    BY <1>1, <2>1
  <2> QED
    BY <2>2 DEF Has
<1> QED
  BY <1>1, <1>2, <1>3

LEMMA HasOrders ==
  ASSUME NEW q \in Seq(Orders), NEW t \in Seq(Orders), NEW end \in Seq(Orders), NEW x,
         ~Has(end, x), Has(q \o t \o end, x)
  PROVE  Has(q, x) \/ Has(t, x)
<1>1. q \o t \in Seq(Orders)
  OBVIOUS
<1>2. Has(q \o t, x)
  BY <1>1, HasConcat
<1> QED
  BY <1>2, HasConcat

(* A line is added to what a pipe held. *)
LEMMA AddLine ==
  ASSUME NEW q \in Seq(Messages), NEW m \in Messages
  PROVE  /\ q \o <<m>> \in Seq(Messages) /\ Append(q, m) = q \o <<m>>
         /\ \A x : Has(q \o <<m>>, x) => Has(q, x) \/ x = m
<1>1. <<m>> \in Seq(Messages)
  OBVIOUS
<1>2. q \o <<m>> \in Seq(Messages) /\ Append(q, m) = q \o <<m>>
  BY <1>1
<1> QED
  BY <1>1, <1>2, HasConcat, HasOne

(* What a pipe keeps of what was written to it *)
LEMMA Kept ==
  ASSUME NEW q \in Seq(Messages), NEW n
  PROVE  /\ OnLease(n, q) \in Seq(Messages) /\ OnResult(n, q) \in Seq(Messages)
         /\ Has(OnLease(n, q), "0") => Has(q, "0")
         /\ Has(OnResult(n, q), "0") => Has(q, "0")
<1>1. <<>> \in Seq(Messages) /\ EOF \in Seq(Messages)
  BY DEF EOF, Messages
<1>2. OnLease(n, q) \in {q, <<>>} /\ OnResult(n, q) \in {q, <<>>, EOF}
  BY DEF OnLease, OnResult, End
<1>3. ~Has(<<>>, "0") /\ ~Has(EOF, "0")
  BY HasOne DEF EOF
<1> QED
  BY <1>1, <1>2, <1>3

-----------------------------------------------------------------------------
(* What a step of the leader from r to n does to what it may claim.          *)
Says(r) == r.code = "0" \/ r.exit = "0"
After(r, n, zero) ==
  /\ n.tcode = r.tcode /\ n.phase \in {r.phase, "gone"}
  /\ n.phase = "gone" => n.exit # "none" \/ (r.phase = "gone" /\ n.exit = r.exit)
  /\ Late(r) => Late(n)
  /\ Says(n) => Says(r) \/ zero

LEMMA ExitsAfter ==
  ASSUME NEW r \in Leaders, NEW code \in Codes, NEW zero \in BOOLEAN,
         code = "0" => zero
  PROVE  After(r, Exits(r, code), zero)
<1>1. /\ Exits(r, code).tcode = r.tcode /\ Exits(r, code).phase = "gone"
      /\ Exits(r, code).target = r.target /\ Exits(r, code).code = "1"
      /\ Exits(r, code).exit = code
  BY DEF Exits, Leaders
<1> QED
  BY <1>1 DEF After, Late, Says, Codes

LEMMA KillAfter ==
  ASSUME NEW r \in Leaders, NEW n \in Kill(r)
  PROVE  After(r, n, FALSE)
<1> DEFINE dead == [Exits(r, "signal") EXCEPT
                      !.target = IF @ = "none" THEN "none" ELSE "closed", !.peer = FALSE]
           failed == [r EXCEPT !.cleanup = "kill", !.faults = @ + 1]
<1>1. n = dead \/ n = failed
  BY DEF Kill
<1>2. /\ dead.tcode = r.tcode /\ dead.phase = "gone" /\ dead.code = "1"
      /\ dead.exit = "signal" /\ dead.target = IF r.target = "none" THEN "none" ELSE "closed"
  BY DEF Exits, Leaders
<1>3. /\ failed.tcode = r.tcode /\ failed.phase = r.phase /\ failed.code = r.code
      /\ failed.exit = r.exit /\ failed.target = r.target
  BY DEF Leaders
<1> HIDE DEF dead, failed
<1>4. CASE n = dead
  BY <1>2, <1>4 DEF After, Late, Says
<1>5. CASE n = failed
  BY <1>3, <1>5 DEF After, Late, Says
<1> QED
  BY <1>1, <1>4, <1>5

LEMMA TermAfter ==
  ASSUME NEW r \in Leaders, NEW n \in Term(r)
  PROVE  After(r, n, FALSE)
<1> DEFINE grace == [r EXCEPT !.cleanup = "grace"]
           failed == [r EXCEPT !.cleanup = "term", !.faults = @ + 1]
<1>1. n \in Kill(r) \/ n = grace \/ n = failed
  BY DEF Term
<1>2. /\ grace.tcode = r.tcode /\ grace.phase = r.phase /\ grace.code = r.code
      /\ grace.exit = r.exit /\ grace.target = r.target
  BY DEF Leaders
<1>3. /\ failed.tcode = r.tcode /\ failed.phase = r.phase /\ failed.code = r.code
      /\ failed.exit = r.exit /\ failed.target = r.target
  BY DEF Leaders
<1> HIDE DEF grace, failed
<1>4. CASE n = grace
  BY <1>2, <1>4 DEF After, Late, Says
<1>5. CASE n = failed
  BY <1>3, <1>5 DEF After, Late, Says
<1> QED
  BY <1>1, <1>4, <1>5, KillAfter

LEMMA CleanupAfter ==
  ASSUME NEW r \in Leaders, NEW code \in {"0", "1"}, NEW sudden \in BOOLEAN,
         NEW n \in BeginCleanup(r, code, sudden)
  PROVE  After(r, n, code = "0")
<1> DEFINE q == [r EXCEPT !.code = code, !.sudden = sudden]
<1>1. CASE r.cleanup # "no"
  BY <1>1 DEF BeginCleanup, After
<1>2. CASE r.cleanup = "no"
  <2>1. q \in Leaders
    BY DEF Leaders, Codes
  <2>2. /\ q.tcode = r.tcode /\ q.phase = r.phase /\ q.code = code /\ q.exit = r.exit
        /\ q.target = r.target
    BY DEF Leaders
  <2>3. n \in Term(q)
    BY <1>2 DEF BeginCleanup
  <2>4. After(q, n, FALSE)
    BY <2>1, <2>3, TermAfter
  <2> QED
    BY <2>2, <2>4 DEF After, Late, Says
<1> QED
  BY <1>1, <1>2

(* What the leader may be after a step, and what it may say in it.           *)
Candid(n) ==
  /\ n.phase # "unborn" /\ Late(n) /\ (n.phase = "gone" => n.exit # "none")
  /\ g.tcode = "0" => n.tcode = "0"
  /\ Says(n) => Says(g) \/ n.tcode = "0" \/ Has(down, "STOP")
Utters(n, said) ==
  \/ said = <<>>
  \/ \E m \in {"READY", "LEASED"} \cup Codes : said = <<m>> /\ (m = "0" => n.tcode = "0")
Acts == Up /\ \E n, said : Candid(n) /\ Utters(n, said) /\ Leads(n, said)

LEMMA CleanupCandid ==
  ASSUME NEW r \in Leaders, Candid(r), NEW code \in {"0", "1"}, NEW sudden \in BOOLEAN,
         code = "0" => r.tcode = "0" \/ Has(down, "STOP"),
         NEW n \in BeginCleanup(r, code, sudden)
  PROVE  Candid(n)
<1>1. After(r, n, code = "0")
  BY CleanupAfter
<1> QED
  BY <1>1 DEF After, Candid

(* A leader that changes only what it neither says nor knows of its target   *)
LEMMA SelfCandid ==
  ASSUME Late(g), NEW n, n.phase \notin {"unborn", "gone"}, n.tcode = g.tcode, n.target = g.target,
         Says(n) => Says(g)
  PROVE  Candid(n)
  BY DEF Candid, Late

LEMMA AbortActs ==
  ASSUME LeaderInv, Late(g), Up, NEW sudden \in BOOLEAN, AbortOrReap(g, sudden)
  PROVE  Acts
<1>1. g \in Leaders /\ Candid(g)
  BY SelfCandid DEF LeaderInv, Sound, Up
<1>2. CASE Leads(Exits(g, "1"), <<"1">>)
  <2>1. Candid(Exits(g, "1"))
    BY <1>1, ExitsAfter DEF After, Candid, Codes
  <2>2. Utters(Exits(g, "1"), <<"1">>)
    BY DEF Utters, Codes
  <2> QED
    BY <1>2, <2>1, <2>2 DEF Acts
<1>3. CASE \E n \in BeginCleanup(g, "1", sudden) : Leads(n, <<>>)
  BY <1>1, <1>3, CleanupCandid DEF Acts, Utters
<1> QED
  BY <1>2, <1>3 DEF AbortOrReap

LEMMA StartActs ==
  ASSUME LeaderInv, Late(g), g.phase = "awaiting-ack", StartTarget
  PROVE  Acts
<1>1. g \in Leaders /\ Candid(g) /\ Up /\ g.target = "none" /\ g.tcode # "0"
  BY SelfCandid DEF LeaderInv, Sound, Up, Late
<1>2. CASE \E n \in BeginCleanup(g, "1", TRUE) : Leads(n, <<"1">>)
  <2>1. PICK n \in BeginCleanup(g, "1", TRUE) : Leads(n, <<"1">>)
    BY <1>2
  <2>2. Candid(n)
    BY <1>1, <2>1, CleanupCandid
  <2>3. Utters(n, <<"1">>)
    BY DEF Utters, Codes
  <2> QED
    BY <1>1, <2>1, <2>2, <2>3 DEF Acts
<1>3. CASE \E t \in {"unstarted", "spawning"} :
             Leads([g EXCEPT !.phase = "launching", !.target = t], <<>>)
  <2>1. PICK t \in {"unstarted", "spawning"} :
          Leads([g EXCEPT !.phase = "launching", !.target = t], <<>>)
    BY <1>3
  <2> DEFINE n == [g EXCEPT !.phase = "launching", !.target = t]
  <2>2. n.phase = "launching" /\ n.target = t /\ n.tcode = g.tcode /\ n.code = g.code /\ n.exit = g.exit
    BY <1>1 DEF Leaders
  <2>3. Candid(n)
    BY <1>1, <2>2 DEF Candid, Late, Says
  <2> QED
    BY <1>1, <2>1, <2>3 DEF Acts, Utters
<1>4. CASE \E t \in {"unstarted", "alive"} :
             LET r == [g EXCEPT !.phase = "leased", !.target = t]
             IN  \E n \in IF CanReport THEN {r} ELSE BeginCleanup(r, "1", FALSE) :
                   Leads(n, <<"LEASED">>)
  <2>1. PICK t \in {"unstarted", "alive"} :
          \E n \in IF CanReport THEN {[g EXCEPT !.phase = "leased", !.target = t]}
                   ELSE BeginCleanup([g EXCEPT !.phase = "leased", !.target = t], "1", FALSE) :
            Leads(n, <<"LEASED">>)
    BY <1>4
  <2> DEFINE r == [g EXCEPT !.phase = "leased", !.target = t]
  <2>2. r.phase = "leased" /\ r.target = t /\ r.tcode = g.tcode /\ r.code = g.code /\ r.exit = g.exit
    BY <1>1 DEF Leaders
  <2>3. r \in Leaders
    BY <1>1 DEF Leaders, Codes
  <2>4. Candid(r)
    BY <1>1, <2>2 DEF Candid, Late, Says
  <2> HIDE DEF r
  <2>5. \A n \in BeginCleanup(r, "1", FALSE) : Candid(n)
    BY <2>3, <2>4, CleanupCandid
  <2>6. \E n : Candid(n) /\ Leads(n, <<"LEASED">>)
    BY <2>1, <2>4, <2>5 DEF r
  <2>7. \A n : Utters(n, <<"LEASED">>)
    BY DEF Utters
  <2> QED
    BY <1>1, <2>6, <2>7 DEF Acts
<1> QED
  BY <1>2, <1>3, <1>4 DEF StartTarget

LEMMA TargetActsToo ==
  ASSUME LeaderInv, Late(g), TargetSpawned \/ TargetMissing \/ TargetClosed \/ TargetActs
  PROVE  Acts
<1>1. g \in Leaders /\ Candid(g) /\ Up
  BY SelfCandid DEF LeaderInv, Sound, Up, TargetSpawned, TargetMissing, TargetClosed, TargetActs
<1>2. CASE TargetSpawned
  <2> DEFINE r == [g EXCEPT !.target = "alive"]
             q == [r EXCEPT !.phase = "leased"]
  <2>1. /\ r \in Leaders /\ r.tcode = g.tcode /\ r.code = g.code /\ r.exit = g.exit
        /\ r.phase = g.phase /\ r.target = "alive"
    BY <1>1 DEF Leaders, Codes
  <2>2. /\ q \in Leaders /\ q.tcode = g.tcode /\ q.code = g.code /\ q.exit = g.exit
        /\ q.phase = "leased" /\ q.target = "alive"
    BY <1>1 DEF Leaders, Codes
  <2>3. g.tcode # "0" /\ g.phase \notin {"unborn", "gone"}
    BY <1>2 DEF TargetSpawned, Late, Up
  <2>4. Candid(r) /\ Candid(q)
    BY <2>1, <2>2, <2>3 DEF Candid, Late, Says
  <2>5. \/ Leads(r, <<>>)
        \/ \E n \in IF CanReport THEN {q} ELSE BeginCleanup(q, "1", TRUE) : Leads(n, <<"LEASED">>)
    BY <1>2 DEF TargetSpawned
  <2> HIDE DEF r, q
  <2>6. \A n \in BeginCleanup(q, "1", TRUE) : Candid(n)
    BY <2>2, <2>4, CleanupCandid
  <2>7. \A n : Utters(n, <<"LEASED">>) /\ Utters(n, <<>>)
    BY DEF Utters
  <2> QED
    BY <1>1, <2>4, <2>5, <2>6, <2>7 DEF Acts
<1>3. CASE TargetMissing
  <2> DEFINE r == [g EXCEPT !.target = "closed"]
  <2>1. /\ r \in Leaders /\ r.tcode = g.tcode /\ r.code = g.code /\ r.exit = g.exit
        /\ r.phase = g.phase /\ r.target = "closed"
    BY <1>1 DEF Leaders, Codes
  <2>2. Candid(r)
    BY <1>1, <2>1 DEF Candid, Late, Says
  <2>3. PICK n \in BeginCleanup(r, "1", Guardian) : Leads(n, <<"1">>)
    BY <1>3 DEF TargetMissing
  <2>4. Guardian \in BOOLEAN
    BY DEF Guardian
  <2>5. Candid(n)
    BY <2>1, <2>2, <2>3, <2>4, CleanupCandid
  <2>6. Utters(n, <<"1">>)
    BY DEF Utters, Codes
  <2> QED
    BY <1>1, <2>3, <2>5, <2>6 DEF Acts
<1>4. CASE TargetClosed
  <2> DEFINE r == [g EXCEPT !.target = "closed"]
  <2>1. /\ r \in Leaders /\ r.tcode = g.tcode /\ r.code = g.code /\ r.exit = g.exit
        /\ r.phase = g.phase /\ r.target = "closed"
    BY <1>1 DEF Leaders, Codes
  <2>2. Candid(r)
    BY <1>1, <2>1 DEF Candid, Late, Says
  <2>3. PICK n : /\ \/ n \in BeginCleanup(r, "1", Guardian)
                    \/ n = r
                    \/ n \in BeginCleanup(r, "1", FALSE)
                    \/ r.tcode = "0" /\ n \in BeginCleanup(r, "0", FALSE)
                 /\ Leads(n, <<g.tcode>>)
    BY <1>4 DEF TargetClosed, Inspected
  <2>4. Guardian \in BOOLEAN
    BY DEF Guardian
  <2>5. /\ Candid(n) /\ n.tcode = g.tcode
    <3> HIDE DEF r
    <3>1. n = r \/ \E code \in {"0", "1"}, sudden \in BOOLEAN :
                     n \in BeginCleanup(r, code, sudden) /\ (code = "0" => r.tcode = "0")
      BY <2>3, <2>4
    <3> QED
      BY <2>1, <2>2, <3>1, CleanupCandid, CleanupAfter DEF After
  <2>6. g.tcode \in Codes
    BY <1>1, <1>4 DEF TargetClosed, Late, Leaders
  <2>7. Utters(n, <<g.tcode>>)
    BY <2>5, <2>6 DEF Utters
  <2> QED
    BY <1>1, <2>3, <2>5, <2>7 DEF Acts
<1>5. CASE TargetActs
  <2>1. PICK n : /\ Leads(n, <<>>)
                 /\ \/ /\ g.target = "alive"
                       /\ \E code \in Codes :
                            n = [g EXCEPT !.target = "exited", !.tcode = code]
                    \/ n = [g EXCEPT !.peer = TRUE]
                    \/ n = [g EXCEPT !.peer = FALSE]
    BY <1>5 DEF TargetActs
  <2>2. CASE g.target = "alive" /\ \E code \in Codes :
                                    n = [g EXCEPT !.target = "exited", !.tcode = code]
    <3>1. n.phase = g.phase /\ n.target = "exited" /\ n.tcode \in Codes /\ n.code = g.code /\ n.exit = g.exit
      BY <1>1, <2>2 DEF Leaders
    <3>2. g.tcode # "0"
      BY <2>2 DEF Late
    <3>3. Candid(n)
      BY <1>1, <3>1, <3>2 DEF Candid, Late, Says, Codes
    <3> QED
      BY <1>1, <2>1, <3>3 DEF Acts, Utters
  <2>3. CASE n = [g EXCEPT !.peer = TRUE] \/ n = [g EXCEPT !.peer = FALSE]
    <3>1. /\ n.phase = g.phase /\ n.target = g.target /\ n.tcode = g.tcode
          /\ n.code = g.code /\ n.exit = g.exit
      BY <1>1, <2>3 DEF Leaders
    <3>2. Candid(n)
      BY <1>1, <3>1, SelfCandid DEF Up, Says
    <3> QED
      BY <1>1, <2>1, <3>2 DEF Acts, Utters
  <2> QED
    BY <2>1, <2>2, <2>3
<1> QED
  BY <1>2, <1>3, <1>4, <1>5

(* Every step of the leader: it is up, and says and claims only the truth.   *)
LEMMA LeaderActs ==
  ASSUME LeaderInv, FieldTypes, Late(g), Leader
  PROVE  Acts
<1>1. g \in Leaders /\ (Up => Candid(g))
  BY SelfCandid DEF LeaderInv, Sound, Up
<1>2. CASE CannotLead
  <2>1. Candid(Exits(g, "1"))
    BY <1>1, <1>2, ExitsAfter DEF After, Candid, Codes, CannotLead, Up
  <2> QED
    BY <1>2, <2>1 DEF CannotLead, Acts, Up, Utters
<1>3. CASE Introduce
  <2> DEFINE r == [g EXCEPT !.phase = "awaiting-ack"]
  <2>1. Up /\ Candid(g) /\ (Leads(r, <<"READY">>) \/ Leads(Exits(g, "1"), <<"READY">>))
    BY <1>1, <1>3 DEF Introduce, Up
  <2>2. /\ r.phase = "awaiting-ack" /\ r.tcode = g.tcode /\ r.target = g.target
        /\ r.code = g.code /\ r.exit = g.exit
    BY <1>1 DEF Leaders
  <2>3. Candid(r)
    BY <2>2, SelfCandid DEF Says
  <2>4. Candid(Exits(g, "1"))
    BY <1>1, <2>1, ExitsAfter DEF After, Candid, Codes
  <2>5. \A n : Utters(n, <<"READY">>)
    BY DEF Utters
  <2> QED
    BY <2>1, <2>3, <2>4, <2>5 DEF Acts
<1>4. CASE LeaderTimeout
  <2>1. Guardian \in BOOLEAN /\ Up /\ AbortOrReap(g, Guardian)
    BY <1>4 DEF LeaderTimeout, Guardian, Up
  <2> QED
    BY <2>1, AbortActs
<1>5. CASE LeaderSignalled
  <2>1. PICK n \in BeginCleanup(g, "1", Guardian) : Leads(n, <<>>)
    BY <1>5 DEF LeaderSignalled
  <2>2. Guardian \in BOOLEAN /\ Up
    BY <1>5 DEF LeaderSignalled, Guardian
  <2>3. Candid(n)
    BY <1>1, <2>1, <2>2, CleanupCandid
  <2> QED
    BY <2>1, <2>2, <2>3 DEF Acts, Utters
<1>6. CASE LivenessLost
  BY <1>6, AbortActs DEF LivenessLost, HandleLeaseLoss
<1>7. CASE ReadControl
  <2>1. Up /\ Candid(g) /\ Has(down, Head(down))
    BY <1>1, <1>7, HasTail DEF ReadControl, Up, FieldTypes
  <2>2. CASE Leads(g, <<>>)
    BY <2>1, <2>2 DEF Acts, Utters
  <2>3. CASE g.phase = "awaiting-ack" /\ StartTarget
    BY <2>3, StartActs
  <2>4. CASE Head(down) = "STOP" /\ \E n \in BeginCleanup(g, "0", FALSE) : Leads(n, <<>>)
    <3>1. PICK n \in BeginCleanup(g, "0", FALSE) : Leads(n, <<>>)
      BY <2>4
    <3>2. Candid(n)
      BY <1>1, <2>1, <2>4, <3>1, CleanupCandid
    <3> QED
      BY <2>1, <3>1, <3>2 DEF Acts, Utters
  <2>5. CASE HandleLeaseLoss
    BY <2>1, <2>5, AbortActs DEF HandleLeaseLoss
  <2> QED
    BY <1>7, <2>2, <2>3, <2>4, <2>5 DEF ReadControl
<1>8. CASE TargetSpawned \/ TargetMissing \/ TargetClosed \/ TargetActs
  BY <1>8, TargetActsToo
<1>9. CASE Inspect
  <2>1. PICK n : /\ \/ n = g
                    \/ n \in BeginCleanup(g, "1", FALSE)
                    \/ g.tcode = "0" /\ n \in BeginCleanup(g, "0", FALSE)
                 /\ Leads(n, <<>>)
    BY <1>9 DEF Inspect, Inspected
  <2>2. Up /\ Candid(g)
    BY <1>1, <1>9 DEF Inspect
  <2>3. Candid(n)
    BY <1>1, <2>1, <2>2, CleanupCandid
  <2> QED
    BY <2>1, <2>2, <2>3 DEF Acts, Utters
<1>10. CASE KillTimer \/ RetryTimer
  <2>1. PICK n : n \in Kill(g) \cup Term(g) \cup {Exits(g, g.code)} /\ Leads(n, <<>>)
    BY <1>10 DEF KillTimer, RetryTimer
  <2>2. Up /\ Candid(g)
    BY <1>1, <1>10 DEF KillTimer, RetryTimer
  <2>3. After(g, n, FALSE) \/ n = Exits(g, g.code)
    BY <1>1, <2>1, KillAfter, TermAfter
  <2>4. CASE After(g, n, FALSE)
    <3>1. Candid(n)
      BY <2>2, <2>4 DEF After, Candid
    <3> QED
      BY <2>1, <2>2, <3>1 DEF Acts, Utters
  <2>5. CASE n = Exits(g, g.code)
    <3>1. After(g, n, g.code = "0")
      BY <1>1, <2>5, ExitsAfter DEF Leaders, Codes
    <3>2. Candid(n)
      BY <2>2, <3>1 DEF After, Candid, Says
    <3> QED
      BY <2>1, <2>2, <3>2 DEF Acts, Utters
  <2> QED
    BY <2>3, <2>4, <2>5
<1> QED
  BY <1>2, <1>3, <1>4, <1>5, <1>6, <1>7, <1>8, <1>9, <1>10 DEF Leader

(* The leader's step as the others see it                                    *)
LEMMA LeaderKeeps ==
  ASSUME LeaderInv, CInv, Leader
  PROVE  CInv'
<1> USE DEF CInv
<1>1. Acts
  BY LeaderActs DEF Earned
<1>2. PICK said : Candid(g') /\ Utters(g', said) /\ Leads(g', said)
  BY <1>1 DEF Acts, Leads
<1>3. /\ UNCHANGED <<transport, parent, child, c, call, out, s, result>>
      /\ g.phase \notin {"unborn", "gone"}
  BY <1>1, <1>2 DEF Leads, Acts, Up
<1>4. /\ down' \in Seq(Orders) /\ (Has(down', "STOP") => Has(down, "STOP"))
  <2>1. down' = down \/ (down # <<>> /\ down' = Tail(down))
    BY DEF Leader, CannotLead, Introduce, LeaderTimeout, LeaderSignalled, LivenessLost,
           ReadControl, TargetSpawned, TargetMissing, TargetClosed, Inspect, KillTimer,
           RetryTimer, TargetActs
  <2> QED
    BY <2>1, HasTail DEF FieldTypes
<1> DEFINE end == IF g'.phase = "gone" THEN EOF ELSE <<>>
           kept == IF Guardian /\ \E m \in Codes : said = <<m>> THEN <<>> ELSE said
<1>5. /\ said \in Seq(Messages) /\ kept \in Seq(Messages) /\ end \in Seq(Messages)
      /\ Has(said, "0") => g'.tcode = "0"
      /\ Has(kept, "0") => g'.tcode = "0"
      /\ ~Has(end, "0")
  <2>1. <<>> \in Seq(Messages) /\ EOF \in Seq(Messages) /\ ~Has(<<>>, "0") /\ ~Has(EOF, "0")
    BY HasOne DEF EOF, Messages
  <2>2. CASE said = <<>>
    BY <2>1, <2>2
  <2>3. CASE said # <<>>
    <3>1. PICK m \in Messages : said = <<m>> /\ (m = "0" => g'.tcode = "0")
      BY <1>2, <2>3 DEF Utters, Messages
    <3>2. said \in Seq(Messages) /\ (Has(said, "0") => g'.tcode = "0")
      BY <3>1, HasOne
    <3> QED
      BY <2>1, <3>2
  <2> QED
    BY <2>2, <2>3
<1>6. /\ up' = OnLease(c, up \o kept \o end)
      /\ relay' = (relay \o said \o end) \/ relay' = <<>>
  BY <1>2 DEF Leads
<1> HIDE DEF end, kept
<1>7. /\ up \o kept \in Seq(Messages) /\ up \o kept \o end \in Seq(Messages)
      /\ relay \o said \in Seq(Messages) /\ relay \o said \o end \in Seq(Messages)
  BY <1>5 DEF FieldTypes
<1>8. /\ Has(up \o kept \o end, "0") => Has(up, "0") \/ g'.tcode = "0"
      /\ Has(relay \o said \o end, "0") => Has(relay, "0") \/ g'.tcode = "0"
  BY <1>5, <1>7, HasConcat DEF FieldTypes
<1>9. /\ up' \in Seq(Messages) /\ relay' \in Seq(Messages)
      /\ Has(up', "0") => Has(up, "0") \/ g'.tcode = "0"
      /\ Has(relay', "0") => Has(relay, "0") \/ g'.tcode = "0"
  <2>1. up' \in Seq(Messages) /\ (Has(up', "0") => Has(up, "0") \/ g'.tcode = "0")
    BY <1>6, <1>7, <1>8, Kept
  <2>2. relay' \in Seq(Messages) /\ (Has(relay', "0") => Has(relay, "0") \/ g'.tcode = "0")
    <3>1. CASE relay' = relay \o said \o end
      BY <1>7, <1>8, <3>1
    <3>2. CASE relay' = <<>>
      BY <3>2, HasOne
    <3> QED
      BY <1>6, <3>1, <3>2
  <2> QED
    BY <2>1, <2>2
<1>10. FieldTypes'
  BY <1>3, <1>4, <1>9 DEF FieldTypes
<1>11. Reaped'
  BY <1>2, <1>3 DEF Reaped, Candid
<1>12. Earned'
  <2>1. Halted' <=> Halted
    BY <1>3 DEF Halted
  <2>2. /\ Late(g)' /\ (g.tcode = "0" => g'.tcode = "0")
        /\ Says(g') => Says(g) \/ g'.tcode = "0" \/ Has(down, "STOP")
    BY <1>2 DEF Candid
  <2>3. ASSUME ~Halted PROVE ~Has(down', "STOP") /\ (Claims' => g'.tcode = "0")
    <3>1. ~Has(down, "STOP") /\ (Claims => g.tcode = "0")
      BY <2>3 DEF Earned
    <3>2. Claims' => Claims \/ g'.tcode = "0"
      BY <1>3, <1>9, <2>2, <3>1 DEF Claims, Says
    <3> QED
      BY <1>4, <2>2, <3>1, <3>2
  <2> QED
    BY <2>1, <2>2, <2>3 DEF Earned
<1>13. Waiting'
  BY <1>3 DEF Waiting, Halted
<1> QED
  BY <1>10, <1>11, <1>12, <1>13

-----------------------------------------------------------------------------
(* The relaying supervisor says 0 only after its guardian did.               *)
LEMMA FinishSays ==
  ASSUME CInv, NEW said, NEW code, Finish(said, code),
         said = <<>> \/ \E m \in Codes : said = <<m>> /\ (m = "0" => g.exit = "0"),
         code \in {"0", "1"}, code = "0" => g.exit = "0"
  PROVE  /\ s' \in Relays /\ s'.exit = code /\ s'.phase = "gone"
         /\ result' \in Seq(Messages)
         /\ Has(result', "0") => Has(result, "0") \/ g.exit = "0"
<1>1. s' \in Relays /\ s'.exit = code /\ s'.phase = "gone"
  BY DEF Finish, Relays, Codes
<1>2. said \in Seq(Messages) /\ (Has(said, "0") => g.exit = "0")
  <2>1. CASE said = <<>>
    BY <2>1, HasOne
  <2>2. CASE said # <<>>
    <3>1. PICK m \in Messages : said = <<m>> /\ (m = "0" => g.exit = "0")
      BY <2>2 DEF Messages
    <3> QED
      BY <3>1, HasOne
  <2> QED
    BY <2>1, <2>2
<1>3. EOF \in Seq(Messages) /\ ~Has(EOF, "0")
  BY HasOne DEF EOF, Messages
<1>4. result \in Seq(Messages)
  BY DEF CInv, FieldTypes
<1>5. result \o said \in Seq(Messages) /\ result \o said \o EOF \in Seq(Messages)
  BY <1>2, <1>3, <1>4
<1>6. Has(result \o said \o EOF, "0") => Has(result, "0") \/ g.exit = "0"
  BY <1>2, <1>3, <1>4, <1>5, HasConcat
<1>7. result' = OnResult(c, result \o said \o EOF)
  BY DEF Finish
<1> QED
  BY <1>1, <1>5, <1>6, <1>7, Kept

(* What a step that leaves the parent alone must show                        *)
LEMMA RelayKeeps ==
  ASSUME CInv, RelayFrame, g' = g \/ (g.phase = "unborn" /\ Late(g)' /\ g'.phase # "unborn"
                                        /\ g'.tcode = g.tcode /\ (Says(g') => Says(g))),
         s' \in Relays, relay' \in Seq(Messages), result' \in Seq(Messages),
         g'.phase = "gone" => g'.exit # "none" \/ s'.phase = "gone",
         s'.exit = "0" => Claims, Has(relay', "0") => Claims, Has(result', "0") => Claims
  PROVE  CInv'
<1> USE DEF CInv
<1>1. UNCHANGED <<transport, parent, child, c, call, out, down, up>>
  BY DEF RelayFrame
<1>2. FieldTypes'
  BY <1>1 DEF FieldTypes
<1>3. Reaped'
  BY <1>1 DEF Reaped
<1>4. Earned'
  <2>1. Claims' => Claims
    BY <1>1 DEF Claims, Says
  <2>2. g'.tcode = g.tcode /\ Late(g')
    BY DEF Earned
  <2>3. Halted' <=> Halted
    BY <1>1 DEF Halted
  <2> QED
    BY <1>1, <2>1, <2>2, <2>3 DEF Earned
<1>5. Waiting'
  BY <1>1 DEF Waiting, Halted
<1> QED
  BY <1>2, <1>3, <1>4, <1>5

LEMMA FailRelayKeeps ==
  ASSUME CInv, FailRelay
  PROVE  /\ s' \in Relays /\ result' \in Seq(Messages)
         /\ s'.phase = "gone" /\ s'.exit # "0" /\ (Has(result', "0") => Claims)
<1>1. CASE s.phase = "terminal"
  BY <1>1, FinishSays DEF FailRelay, Claims
<1>2. CASE s.phase # "terminal"
  <2>1. Finish(<<"1">>, "1") /\ \E m \in Codes : <<"1">> = <<m>> /\ (m = "0" => g.exit = "0")
    BY <1>2 DEF FailRelay, Codes
  <2> QED
    BY <2>1, FinishSays DEF Claims
<1> QED
  BY <1>1, <1>2

LEMMA SupervisorKeeps ==
  ASSUME LeaderInv, CInv, Supervisor
  PROVE  CInv'
<1>0. /\ relay \in Seq(Messages) /\ result \in Seq(Messages) /\ s \in Relays /\ g \in Leaders
      /\ Late(g)
  BY DEF CInv, FieldTypes, LeaderInv, Sound, Earned
<1> DEFINE Known == g.phase = "gone" => g.exit # "none"
<1>5. Relaying => Known
  BY DEF Relaying, CInv, Reaped
<1>1. CASE SpawnGuardian
  <2>1. /\ g.phase = "unborn" /\ RelayFrame /\ relay' = relay
    BY <1>1 DEF SpawnGuardian
  <2>2. /\ g' = [g EXCEPT !.phase = "starting"] \/ g' = [g EXCEPT !.phase = "gone"]
    BY <1>1 DEF SpawnGuardian
  <2>3. /\ g'.phase # "unborn" /\ g'.tcode = g.tcode /\ g'.target = g.target
        /\ g'.code = g.code /\ g'.exit = g.exit
    BY <1>0, <2>2 DEF Leaders
  <2>4. Late(g)' /\ (Says(g') => Says(g))
    BY <1>0, <2>3 DEF Late, Says
  <2>5. s' \in Relays /\ result' \in Seq(Messages) /\ (s'.exit = "0" => Claims)
        /\ (Has(result', "0") => Claims) /\ (g'.phase = "gone" => s'.phase = "gone")
    <3>1. CASE /\ s' = [s EXCEPT !.phase = "awaiting-ready"] /\ result' = result
               /\ g' = [g EXCEPT !.phase = "starting"]
      BY <1>0, <3>1 DEF Relays, Claims, Leaders
    <3>2. CASE FailRelay
      BY <3>2, FailRelayKeeps
    <3> QED
      BY <1>1, <3>1, <3>2 DEF SpawnGuardian
  <2> QED
    BY <1>0, <2>1, <2>3, <2>4, <2>5, RelayKeeps DEF Claims
<1>2. CASE RelayLine
  <2> DEFINE m == Head(relay)
  <2>1. /\ RelayFrame /\ g' = g /\ relay # <<>> /\ relay' = Tail(relay) /\ Known
    BY <1>2, <1>5 DEF RelayLine
  <2>2. /\ m \in Messages /\ relay' \in Seq(Messages) /\ (m = "0" => Claims)
        /\ (Has(relay', "0") => Claims)
    BY <1>0, <2>1, HasTail DEF Claims
  <2>3. CASE FailRelay
    BY <2>1, <2>2, <2>3, FailRelayKeeps, RelayKeeps
  <2>4. CASE Finish(<<>>, "1")
    BY <2>1, <2>2, <2>4, FinishSays, RelayKeeps DEF Claims
  <2>5. CASE /\ s' = [s EXCEPT !.phase = PhaseAfter(m)]
             /\ result' = OnResult(c, Append(result, m))
    <3>1. s' \in Relays /\ s'.exit = s.exit
      BY <1>0, <2>5 DEF Relays, PhaseAfter
    <3>2. Append(result, m) \in Seq(Messages) /\ (Has(Append(result, m), "0") => Claims)
      BY <1>0, <2>2, AddLine DEF Claims
    <3>3. result' \in Seq(Messages) /\ (Has(result', "0") => Claims)
      BY <2>5, <3>2, Kept
    <3> QED
      BY <2>1, <2>2, <3>1, <3>3, RelayKeeps DEF Claims
  <2> QED
    BY <1>2, <2>3, <2>4, <2>5 DEF RelayLine
<1>3. CASE GuardianClosed
  <2>1. RelayFrame /\ g' = g /\ relay' = relay /\ Known
    BY <1>3, <1>5 DEF GuardianClosed
  <2>2. CASE FailRelay
    BY <1>0, <2>1, <2>2, FailRelayKeeps, RelayKeeps DEF Claims
  <2>3. CASE Finish(IF s.phase = "terminal" THEN <<>> ELSE <<g.exit>>,
                    IF g.exit = "0" THEN "0" ELSE "1")
    <3> DEFINE said == IF s.phase = "terminal" THEN <<>> ELSE <<g.exit>>
               code == IF g.exit = "0" THEN "0" ELSE "1"
    <3>1. g.exit \in Codes
      BY <1>0, <1>3, <2>1 DEF GuardianClosed, Leaders
    <3>2. said = <<>> \/ \E m \in Codes : said = <<m>> /\ (m = "0" => g.exit = "0")
      BY <3>1
    <3>3. code \in {"0", "1"} /\ (code = "0" => g.exit = "0") /\ Finish(said, code)
      BY <2>3
    <3> HIDE DEF said, code
    <3>4. /\ s' \in Relays /\ s'.exit = code /\ result' \in Seq(Messages)
          /\ (Has(result', "0") => Has(result, "0") \/ g.exit = "0")
      BY <3>2, <3>3, FinishSays
    <3> QED
      BY <1>0, <2>1, <3>3, <3>4, RelayKeeps DEF Claims
  <2> QED
    BY <1>3, <2>2, <2>3 DEF GuardianClosed
<1>4. CASE RelayStops
  BY <1>0, <1>4, <1>5, FinishSays, RelayKeeps DEF RelayStops, Claims
<1> QED
  BY <1>1, <1>2, <1>3, <1>4 DEF Supervisor

-----------------------------------------------------------------------------
(* What the parent's next state may hold: a receipt of a leader that was     *)
(* born, and a 0 that somebody claims.                                       *)
Sane(n) ==
  /\ n \in States
  /\ n.receipt = "held" => g.phase # "unborn"
  /\ n.terminal = "0" => Claims

LEMMA SelfSane == ASSUME CInv PROVE Sane(c)
  BY DEF CInv, FieldTypes, Reaped, Sane, Claims

LEMMA CloseSane == ASSUME NEW n, Sane(n) PROVE Sane(CloseLease(n))
<1>1. /\ CloseLease(n) \in States /\ CloseLease(n).receipt \in {n.receipt, "none"}
      /\ CloseLease(n).terminal = n.terminal
  BY DEF CloseLease, Sane, States
<1> QED
  BY <1>1 DEF Sane

LEMMA FailSane == ASSUME NEW n, Sane(n) PROVE Sane(FailLease(n))
<1> DEFINE q == [n EXCEPT !.phase = "failed", !.terminal = "none", !.control = FALSE,
                          !.relayPhase = "terminal",
                          !.leaseReady = IF @ = "pending" THEN "refused" ELSE @,
                          !.receipt = IF @ = "unsettled" THEN "none" ELSE @]
<1>1. q \in States /\ q.receipt \in {n.receipt, "none"} /\ q.terminal = "none"
  BY DEF Sane, States
<1>2. Sane(q)
  BY <1>1 DEF Sane
<1> QED
  BY <1>2, CloseSane DEF FailLease

LEMMA RelinquishSane == ASSUME NEW n, Sane(n) PROVE Sane(RelinquishLease(n))
  BY CloseSane, FailSane DEF RelinquishLease

LEMMA Words ==
  /\ <<>> \in Seq(Orders) /\ <<"ACK">> \in Seq(Orders) /\ <<"STOP">> \in Seq(Orders)
  /\ EOF \in Seq(Orders)
  /\ ~Has(<<>>, "STOP") /\ ~Has(<<"ACK">>, "STOP") /\ ~Has(EOF, "STOP")
<1>1. \A m \in Orders : <<m>> \in Seq(Orders)
  OBVIOUS
<1>2. <<>> \in Seq(Orders)
  OBVIOUS
<1>3. ~Has(<<>>, "STOP") /\ ~Has(<<"ACK">>, "STOP") /\ ~Has(<<"EOF">>, "STOP")
  BY HasOne
<1>4. "ACK" \in Orders /\ "STOP" \in Orders /\ "EOF" \in Orders
  BY DEF Orders
<1> QED
  BY <1>1, <1>2, <1>3, <1>4 DEF EOF

(* A step of the parent, whoever in it makes the step                        *)
LEMMA TakesKeeps ==
  ASSUME CInv, NEW n, Sane(n), NEW said \in {<<>>, <<"ACK">>, <<"STOP">>},
         NEW u \in Seq(Messages), NEW r \in Seq(Messages),
         Has(u, "0") => Claims, Has(r, "0") => Claims,
         ParentTakes(n, said, u, r), ParentFrame, parent' = parent,
         child' \in {"running", "exited", "closed"}, child = "closed" => child' = "closed",
         call' \in {"wait", "late", "reap", "hold", "stop", "absence", "done"},
         out' \in Outcomes, Halted => Halted', Has(said, "STOP") => Halted',
         ~Halted' /\ out'.exit = "0" => Claims,
         out'.reaped => g.phase = "gone",
         Waiting'
  PROVE  CInv'
<1> USE DEF CInv
<1>1. /\ UNCHANGED <<transport, s, g, relay>> /\ parent' = parent /\ c' = n
      /\ up' = OnLease(n, u) /\ result' = OnResult(n, r)
  BY DEF ParentTakes, ParentFrame
<1>2. /\ up' \in Seq(Messages) /\ result' \in Seq(Messages)
      /\ (Has(up', "0") => Claims) /\ (Has(result', "0") => Claims)
  BY <1>1, Kept
<1>3. /\ down' \in Seq(Orders)
      /\ Has(down', "STOP") => Has(down, "STOP") \/ Has(said, "STOP")
  <2> DEFINE end == IF Released(n) /\ ~Released(c) THEN EOF ELSE <<>>
  <2>1. ~Has(end, "STOP") /\ end \in Seq(Orders)
    BY Words
  <2>2. said \in Seq(Orders)
    BY Words
  <2>3. down' = down \o said \o end
    BY DEF ParentTakes
  <2> HIDE DEF end
  <2>4. down \in Seq(Orders) /\ down \o said \in Seq(Orders) /\ down \o said \o end \in Seq(Orders)
    BY <2>1, <2>2 DEF FieldTypes
  <2>5. Has(down \o said \o end, "STOP") => Has(down, "STOP") \/ Has(said, "STOP")
    BY <2>1, <2>2, <2>4, HasOrders
  <2> QED
    BY <2>2, <2>3, <2>4, <2>5
<1>4. FieldTypes'
  BY <1>1, <1>2, <1>3 DEF FieldTypes, Sane
<1>5. Reaped'
  BY <1>1 DEF Reaped, Sane
<1>6. Earned'
  <2>1. ASSUME ~Halted' PROVE ~Has(down', "STOP") /\ (Claims' => g.tcode = "0")
    <3>1. ~Has(down, "STOP") /\ (Claims => g.tcode = "0") /\ ~Has(said, "STOP")
      BY <2>1 DEF Earned
    <3>2. Claims' => Claims
      BY <1>1, <1>2, <2>1 DEF Claims, Sane
    <3> QED
      BY <1>3, <3>1, <3>2
  <2> QED
    BY <1>1, <2>1 DEF Earned
<1> QED
  BY <1>4, <1>5, <1>6

(* ... which leaves the caller where it is                                   *)
LEMMA ControlKeeps ==
  ASSUME CInv, NEW n, Sane(n), NEW said \in {<<>>, <<"ACK">>},
         NEW u \in Seq(Messages), NEW r \in Seq(Messages),
         Has(u, "0") => Claims, Has(r, "0") => Claims,
         ParentTakes(n, said, u, r), ParentFrame, UNCHANGED <<parent, call, out>>,
         child' \in {"running", "exited", "closed"}, child = "closed" => child' = "closed"
  PROVE  CInv'
<1>1. Halted' <=> Halted
  BY DEF Halted
<1>2. Waiting'
  BY <1>1 DEF Waiting, CInv
<1>3. /\ call' \in {"wait", "late", "reap", "hold", "stop", "absence", "done"}
      /\ out' \in Outcomes /\ (out'.reaped => g.phase = "gone")
      /\ (out'.exit = "0" => Claims)
  BY DEF CInv, FieldTypes, Reaped, Claims
<1>4. ~Has(said, "STOP")
  BY Words
<1> QED
  BY <1>1, <1>2, <1>3, <1>4, TakesKeeps

(* The parent's own callbacks *)
LEMMA ObservedBorn ==
  ASSUME NEW observed \in Observations, observed
  PROVE  g.phase # "unborn"
  BY DEF Observations, Up

LEMMA ConsumedSane ==
  ASSUME CInv, NEW m \in Messages, m = "0" => Claims, NEW observed \in Observations
  PROVE  Sane(Consumed(m, observed))
<1>1. c \in States /\ Sane(c)
  BY SelfSane DEF CInv, FieldTypes
<1>2. observed => g.phase # "unborn"
  BY ObservedBorn
<1>3. Sane([c EXCEPT !.phase = "ready"])
  BY <1>1 DEF Sane, States
<1>4. observed => Sane([c EXCEPT !.phase = "ready", !.receipt = "held"])
  BY <1>1, <1>2 DEF Sane, States
<1>5. Sane([c EXCEPT !.phase = "leased",
                     !.leaseReady = IF @ = "pending" THEN "granted" ELSE @])
  BY <1>1 DEF Sane, States
<1>6. m \in Codes => Sane([c EXCEPT !.terminal = m])
  BY <1>1 DEF Sane, States
<1> QED
  BY <1>1, <1>3, <1>4, <1>5, <1>6, FailSane DEF Consumed

LEMMA ReportedSane ==
  ASSUME CInv, NEW m \in Messages, m = "0" => Claims
  PROVE  Sane(Reported(m))
<1>1. c \in States /\ Sane(c)
  BY SelfSane DEF CInv, FieldTypes
<1> DEFINE q == [c EXCEPT !.relayPhase = PhaseAfter(m), !.terminal = IF m \in Codes THEN m ELSE @]
<1>2. PhaseAfter(m) \in {"ready", "leased", "terminal"}
  BY DEF PhaseAfter
<1>3. q \in States /\ q.receipt = c.receipt /\ q.terminal = IF m \in Codes THEN m ELSE c.terminal
  BY <1>1, <1>2 DEF States
<1>4. Sane(q)
  BY <1>1, <1>3 DEF Sane
<1> QED
  BY <1>1, <1>4, FailSane DEF Reported

LEMMA ControllerKeeps ==
  ASSUME CInv, Controller
  PROVE  CInv'
<1>0. /\ up \in Seq(Messages) /\ result \in Seq(Messages) /\ c \in States /\ Sane(c)
      /\ (Has(up, "0") => Claims) /\ (Has(result, "0") => Claims)
      /\ child \in {"running", "exited", "closed"}
      /\ Sane(FailLease(c)) /\ Sane(CloseLease(c)) /\ Sane(RelinquishLease(c))
  BY SelfSane, FailSane, CloseSane, RelinquishSane DEF CInv, FieldTypes, Claims
<1>1. ASSUME NEW n, Sane(n), NEW said \in {<<>>, <<"ACK">>}, Parent(n, said), ParentFrame,
             UNCHANGED <<parent, call, out>>,
             child' \in {"running", "exited", "closed"}, child = "closed" => child' = "closed"
      PROVE  CInv'
  <2>1. ParentTakes(n, said, up, result)
    BY <1>1 DEF Parent
  <2> QED
    BY <1>0, <1>1, <2>1, ControlKeeps
<1>2. CASE RecordReceipt
  <2>1. PICK observed \in Observations :
          Parent([c EXCEPT !.receipt = IF observed /\ child = "running" THEN "held" ELSE "none"],
                 <<>>)
    BY <1>2 DEF RecordReceipt
  <2> DEFINE n == [c EXCEPT !.receipt = IF observed /\ child = "running" THEN "held" ELSE "none"]
  <2>2. /\ n \in States /\ n.terminal = c.terminal
        /\ n.receipt = IF observed /\ child = "running" THEN "held" ELSE "none"
    BY <1>0 DEF States
  <2>3. Sane(n)
    BY <1>0, <2>2, ObservedBorn DEF Sane
  <2> HIDE DEF n
  <2>4. /\ Parent(n, <<>>) /\ ParentFrame /\ UNCHANGED <<parent, call, out>> /\ child' = child
    BY <1>2, <2>1 DEF RecordReceipt, n
  <2> QED
    BY <1>0, <1>1, <2>3, <2>4
<1>3. CASE AcceptLease
  <2>1. Sane([c EXCEPT !.lease = "open"])
    BY <1>0 DEF Sane, States
  <2> QED
    BY <1>0, <1>1, <1>3, <2>1 DEF AcceptLease
<1>4. CASE AcknowledgeReady
  <2> DEFINE n == [c EXCEPT !.phase = "acknowledging"]
  <2>0. n \in States /\ n.receipt = c.receipt /\ n.terminal = c.terminal
    BY <1>0 DEF States
  <2>1. Sane(n)
    BY <1>0, <2>0 DEF Sane
  <2> QED
    BY <1>0, <1>1, <1>4, <2>1 DEF AcknowledgeReady
<1>5. CASE ReadLease
  <2>1. PICK observed \in Observations :
          ParentTakes(IF Head(up) = "EOF" THEN IF child = "running" THEN RelinquishLease(c) ELSE c
                      ELSE Consumed(Head(up), observed), <<>>, Tail(up), result)
    BY <1>5 DEF ReadLease
  <2>2. up # <<>> /\ ParentFrame /\ UNCHANGED <<parent, child, call, out>>
    BY <1>5 DEF ReadLease
  <2>3. /\ Tail(up) \in Seq(Messages) /\ Head(up) \in Messages
        /\ (Has(Tail(up), "0") => Claims) /\ (Head(up) = "0" => Claims)
    BY <1>0, <2>2, HasTail
  <2>4. Sane(Consumed(Head(up), observed))
    BY <2>3, ConsumedSane
  <2> DEFINE n == IF Head(up) = "EOF" THEN IF child = "running" THEN RelinquishLease(c) ELSE c
                  ELSE Consumed(Head(up), observed)
  <2>5. Sane(n)
    BY <1>0, <2>4
  <2>6. ParentTakes(n, <<>>, Tail(up), result)
    BY <2>1
  <2> HIDE DEF n
  <2> QED
    BY <1>0, <2>2, <2>3, <2>5, <2>6, ControlKeeps
<1>6. CASE ReadResult
  <2> DEFINE n == IF Head(result) = "EOF" THEN IF child = "running" THEN RelinquishLease(c) ELSE c
                  ELSE IF c.phase = "failed" THEN c ELSE Reported(Head(result))
  <2>1. ParentTakes(n, <<>>, up, Tail(result))
    BY <1>6 DEF ReadResult
  <2>2. result # <<>> /\ ParentFrame /\ UNCHANGED <<parent, child, call, out>>
    BY <1>6 DEF ReadResult
  <2>3. /\ Tail(result) \in Seq(Messages) /\ Head(result) \in Messages
        /\ (Has(Tail(result), "0") => Claims) /\ (Head(result) = "0" => Claims)
    BY <1>0, <2>2, HasTail
  <2>4. Sane(n)
    BY <1>0, <2>3, ReportedSane
  <2> HIDE DEF n
  <2> QED
    BY <1>0, <2>1, <2>2, <2>3, <2>4, ControlKeeps
<1>7. CASE LeaseFails
  BY <1>0, <1>1, <1>7 DEF LeaseFails
<1>8. CASE LeaseSocketClosed
  BY <1>0, <1>1, <1>8 DEF LeaseSocketClosed
<1>9. CASE ChildExits
  BY <1>0, <1>1, <1>9 DEF ChildExits
<1>10. CASE ChildCloses
  <2>1. /\ child' = "closed" /\ ParentFrame /\ UNCHANGED <<parent, call, out>>
        /\ Parent(CloseLease(c), <<>>) \/ Parent(FailLease(c), <<>>)
    BY <1>10 DEF ChildCloses
  <2> QED
    BY <1>0, <1>1, <2>1
<1>11. CASE ParentSignalled
  BY <1>0, <1>1, <1>11 DEF ParentSignalled
<1>12. CASE ParentStalls
  <2>1. /\ UNCHANGED <<transport, s, g, relay, child, c, call, out, down, up, result>>
        /\ parent' = "stalled"
    BY <1>12 DEF ParentStalls, ParentFrame
  <2> QED
    BY <2>1 DEF CInv, FieldTypes, Reaped, Earned, Claims, Halted, Waiting
<1>13. CASE ParentGone
  <2>1. /\ UNCHANGED <<transport, s, g, relay, child>> /\ parent' = "gone" /\ call' = "done"
        /\ c' = NewState("closed") /\ out' = NoAnswer /\ up' = <<>> /\ result' = <<>>
        /\ (down' = down \/ down' = down \o EOF)
    BY <1>13 DEF ParentGone, ParentFrame
  <2>2. /\ c' \in States /\ c'.receipt = "unsettled" /\ c'.terminal = "none"
    BY <2>1 DEF NewState, States
  <2>3. /\ out' \in Outcomes /\ ~out'.reaped /\ out'.exit = "none"
    BY <2>1 DEF NoAnswer, Outcomes
  <2>4. Halted'
    BY <2>1, <2>3 DEF Halted
  <2>5. down' \in Seq(Orders)
    <3>1. down \in Seq(Orders) /\ EOF \in Seq(Orders)
      BY Words DEF CInv, FieldTypes
    <3>2. down \o EOF \in Seq(Orders)
      BY <3>1
    <3> QED
      BY <2>1, <3>1, <3>2
  <2>6. FieldTypes'
    BY <2>1, <2>2, <2>3, <2>5 DEF CInv, FieldTypes
  <2> QED
    BY <2>1, <2>2, <2>3, <2>4, <2>6 DEF CInv, Reaped, Earned, Waiting
<1> QED
  BY <1>2, <1>3, <1>4, <1>5, <1>6, <1>7, <1>8, <1>9, <1>10, <1>11, <1>12, <1>13 DEF Controller

-----------------------------------------------------------------------------
(* The caller: it stops a command only when it has given up its exit code.   *)
LEMMA StopSane ==
  ASSUME CInv, RequestAuthenticatedStop
  PROVE  \E n, said : /\ Sane(n) /\ said \in {<<>>, <<"STOP">>} /\ Parent(n, said)
                      /\ (child # "running" => said = <<>>)
<1>1. Sane(CloseLease(c)) /\ Sane(FailLease(c))
  BY SelfSane, CloseSane, FailSane
<1> QED
  BY <1>1 DEF RequestAuthenticatedStop

LEMMA CallerKeeps ==
  ASSUME LeaderInv, CInv, Caller
  PROVE  CInv'
<1>0. /\ up \in Seq(Messages) /\ result \in Seq(Messages) /\ out \in Outcomes /\ g \in Leaders
      /\ (Has(up, "0") => Claims) /\ (Has(result, "0") => Claims) /\ (out.exit = "0" => Claims)
      /\ child \in {"running", "exited", "closed"} /\ (out.reaped => g.phase = "gone")
      /\ Sane(c) /\ Sane(FailLease(c)) /\ Sane(CloseLease(c)) /\ Waiting
  BY SelfSane, FailSane, CloseSane
     DEF CInv, FieldTypes, Claims, LeaderInv, Sound, Reaped
<1>1. ASSUME NEW n, Sane(n), NEW said \in {<<>>, <<"STOP">>}, Parent(n, said), CallerFrame,
             call' \in {"wait", "late", "reap", "hold", "stop", "absence", "done"},
             out' \in Outcomes, Halted => Halted', said = <<>> \/ Halted',
             ~Halted' /\ out'.exit = "0" => Claims,
             out'.reaped => g.phase = "gone",
             Waiting'
      PROVE  CInv'
  <2>1. /\ ParentTakes(n, said, up, result) /\ ParentFrame /\ parent' = parent
        /\ child' = child
    BY <1>1 DEF Parent, CallerFrame
  <2>2. Has(said, "STOP") => Halted'
    BY <1>1, Words
  <2> QED
    BY <1>0, <1>1, <2>1, <2>2, TakesKeeps
<1>2. CASE WaitEnds
  <2>1. /\ call = "wait" /\ Parent(c, <<>>) /\ CallerFrame /\ child' = child
        /\ out.exit = "none"
    BY <1>0, <1>2 DEF WaitEnds, CallerFrame, Waiting
  <2>2. CASE child = "closed" /\ call' = "reap" /\ out' = out
    <3>1. Halted => Halted'
      BY <2>1, <2>2 DEF Halted
    <3>2. Waiting'
      BY <2>1, <2>2 DEF Waiting
    <3> QED
      BY <1>0, <1>1, <2>1, <2>2, <3>1, <3>2
  <2>3. CASE call' = "late" /\ out' = [out EXCEPT !.timedOut = TRUE]
    <3>1. out' \in Outcomes /\ out'.timedOut /\ out'.exit = out.exit /\ out'.reaped = out.reaped
      BY <1>0, <2>3 DEF Outcomes
    <3>2. Halted' /\ Waiting'
      BY <2>1, <2>3, <3>1 DEF Halted, Waiting
    <3> QED
      BY <1>0, <1>1, <2>1, <2>3, <3>1, <3>2
  <2> QED
    BY <1>2, <2>2, <2>3 DEF WaitEnds
<1>3. CASE StopLate
  <2>1. /\ call = "late" /\ call' = "reap" /\ out' = out /\ CallerFrame /\ out.timedOut
        /\ RequestAuthenticatedStop \/ Parent(FailLease(c), <<>>)
    BY <1>0, <1>3 DEF StopLate, Waiting
  <2>2. Halted /\ Halted' /\ Waiting'
    BY <2>1 DEF Halted, Waiting
  <2>3. \E n, said : Sane(n) /\ said \in {<<>>, <<"STOP">>} /\ Parent(n, said)
    BY <1>0, <2>1, StopSane
  <2> QED
    BY <1>0, <1>1, <2>1, <2>2, <2>3
<1>4. CASE WaitReturns
  <2> DEFINE e == IF c.phase = "failed" THEN "1"
                  ELSE ExitCode(IF child = "running" THEN "none" ELSE ChildCode)
  <2>1. /\ call = "reap" /\ call' = "stop" /\ Parent(c, <<>>) /\ CallerFrame /\ child' = child
        /\ out' = [out EXCEPT !.exit = e]
    BY <1>4 DEF WaitReturns, CallerFrame
  <2>2. /\ e \in Codes \cup {"none"} /\ (e = "0" => Claims)
    <3>1. /\ c.terminal \in Codes \cup {"none"} /\ s.exit \in Codes \cup {"none"}
          /\ g.exit \in Codes \cup {"none"}
      BY <1>0 DEF CInv, FieldTypes, States, Relays, Leaders
    <3> QED
      BY <3>1 DEF ExitCode, ChildCode, Claims, Codes
  <2> HIDE DEF e
  <2>3. /\ out' \in Outcomes /\ out'.timedOut = out.timedOut /\ out'.exit = e
        /\ out'.reaped = out.reaped
    BY <1>0, <2>1, <2>2 DEF Outcomes
  <2>4. (Halted <=> out.timedOut) /\ (Halted' <=> out.timedOut)
    BY <2>1, <2>3 DEF Halted
  <2>5. Waiting'
    BY <1>0, <2>1, <2>4 DEF Waiting
  <2> QED
    BY <1>0, <1>1, <2>1, <2>2, <2>3, <2>4, <2>5
<1>5. CASE StopCommand
  <2>1. /\ call \in {"hold", "stop"} /\ call' = "absence" /\ CallerFrame /\ out' = out
        /\ child' = child
    BY <1>5 DEF StopCommand, CallerFrame
  <2>2. PICK n, said : /\ Sane(n) /\ said \in {<<>>, <<"STOP">>} /\ Parent(n, said)
                       /\ (child # "running" => said = <<>>)
    <3>1. CASE Parent(FailLease(c), <<>>) \/ Parent(CloseLease(c), <<>>)
      BY <1>0, <3>1
    <3>2. CASE RequestAuthenticatedStop
      BY <3>2, StopSane
    <3> QED
      BY <1>5, <3>1, <3>2 DEF StopCommand
  <2>3. (Halted => Halted') /\ (call = "hold" => Halted')
    BY <1>0, <2>1 DEF Halted, Waiting
  <2>4. ~Halted' => ~Halted /\ call = "stop" /\ child = "closed"
    BY <1>0, <2>1, <2>3 DEF Waiting
  <2>5. Waiting'
    BY <1>0, <2>1, <2>4 DEF Waiting
  <2> QED
    BY <1>0, <1>1, <2>1, <2>2, <2>3, <2>4, <2>5
<1>6. CASE StopReturns
  <2>1. PICK reaped \in (IF ~Up /\ ~Running /\ c.receipt = "held" THEN BOOLEAN ELSE {FALSE}) :
          /\ Parent(IF reaped THEN c
                    ELSE [CloseLease(c) EXCEPT !.control = FALSE, !.result = FALSE], <<>>)
          /\ out' = [timedOut |-> out.timedOut \/ ~reaped, reaped |-> reaped,
                     exit |-> IF out.exit = "none" \/ c.phase = "failed" THEN out.exit
                              ELSE ExitCode(out.exit)]
    BY <1>6 DEF StopReturns
  <2>2. call = "absence" /\ call' = "done" /\ CallerFrame /\ child' = child
    BY <1>6 DEF StopReturns, CallerFrame
  <2> DEFINE n == IF reaped THEN c
                  ELSE [CloseLease(c) EXCEPT !.control = FALSE, !.result = FALSE]
             e == IF out.exit = "none" \/ c.phase = "failed" THEN out.exit
                  ELSE ExitCode(out.exit)
  <2>3. Sane(n)
    <3>1. Sane([CloseLease(c) EXCEPT !.control = FALSE, !.result = FALSE])
      BY <1>0 DEF Sane, States
    <3> QED
      BY <1>0, <3>1
  <2>4. /\ e \in Codes \cup {"none"} /\ (e = "0" => Claims)
        /\ (out.exit = "none" => e = "none")
    BY <1>0 DEF ExitCode, Claims, Codes, Outcomes
  <2>5. reaped \in BOOLEAN /\ (reaped => g.phase = "gone")
    BY <2>1 DEF Up, CInv, Reaped
  <2>6. Parent(n, <<>>)
    BY <2>1
  <2> HIDE DEF n, e
  <2>7. /\ out' \in Outcomes /\ out'.timedOut = (out.timedOut \/ ~reaped)
        /\ out'.reaped = reaped /\ out'.exit = e
    BY <1>0, <2>1, <2>4, <2>5 DEF Outcomes, e
  <2>8. (Halted => Halted') /\ (~Halted' => reaped /\ child = "closed")
    <3>1. Halted => Halted'
      BY <2>2, <2>4, <2>7 DEF Halted
    <3>2. ~Halted' => reaped
      BY <2>7 DEF Halted
    <3> QED
      BY <1>0, <2>2, <3>1, <3>2 DEF Waiting
  <2>9. Waiting'
    BY <2>2, <2>7, <2>8 DEF Waiting
  <2> QED
    BY <1>0, <1>1, <2>2, <2>3, <2>4, <2>5, <2>6, <2>7, <2>8, <2>9
<1> QED
  BY <1>2, <1>3, <1>4, <1>5, <1>6 DEF Caller

(* Every step keeps both halves.                                             *)
LEMMA EveryStep ==
  LeaderInv /\ CInv /\ [Next]_vars => CInv'
<1> SUFFICES ASSUME LeaderInv, CInv, [Next]_vars PROVE CInv'
  OBVIOUS
<1>1. CASE UNCHANGED vars
  BY <1>1 DEF vars, CInv, FieldTypes, Reaped, Earned, Late, Claims, Halted, Waiting
<1> QED
  BY <1>1, LeaderKeeps, SupervisorKeeps, ControllerKeeps, CallerKeeps DEF Next

(* The inductive invariant of the command and its supervision                *)
THEOREM Invariant == Spec => [](LeaderInv /\ CInv)
<1>1. Init => CInv
  <2> SUFFICES ASSUME Init PROVE CInv
    OBVIOUS
  <2>1. /\ c.receipt = "unsettled" /\ c.terminal = "none" /\ c \in States
    BY DEF Init, NewState, States
  <2>2. /\ out.timedOut = FALSE /\ out.reaped = FALSE /\ out.exit = "none" /\ out \in Outcomes
    BY DEF Init, NoAnswer, Outcomes
  <2>3. /\ s.exit = "none" /\ s \in Relays
    BY DEF Init, Relays
  <2>4. /\ g.phase \in {"unborn", "starting"} /\ g.code = "1" /\ g.exit = "none"
        /\ g.target = "none" /\ g.tcode = "none"
    BY DEF Init
  <2>5. /\ ~Has(up, "0") /\ ~Has(relay, "0") /\ ~Has(result, "0") /\ ~Has(down, "STOP")
    BY HasOne DEF Init
  <2>6. FieldTypes
    BY <2>1, <2>2, <2>3 DEF Init, FieldTypes
  <2>7. call \in {"wait", "hold"}
    BY DEF Init
  <2>8. Earned
    BY <2>1, <2>2, <2>3, <2>4, <2>5 DEF Earned, Late, Claims
  <2> QED
    BY <2>1, <2>2, <2>3, <2>4, <2>6, <2>7, <2>8 DEF CInv, Reaped, Waiting
<1> QED
  BY <1>1, EveryStep, LeaderInvariant, PTL DEF Spec

(* The state keeps its types, whatever the number of signals that fail.      *)
THEOREM TypeCorrect == Spec => []TypeOK
<1>1. LeaderInv /\ CInv => TypeOK
  BY DEF LeaderInv, Sound, Leaders, CInv, FieldTypes, TypeOK, States, Outcomes, Relays,
         Orders, Messages
<1> QED
  BY <1>1, Invariant, PTL

(* SuccessIsEarned: exit code 0, in time, is the target's own, whoever of    *)
(* the three processes died, was signalled or reported for another.          *)
THEOREM SuccessSafety == Spec => []SuccessIsEarned
<1>1. LeaderInv /\ CInv => SuccessIsEarned
  BY DEF LeaderInv, Sound, CInv, Reaped, Earned, Claims, Halted, Waiting, SuccessIsEarned,
         Up, Running
<1> QED
  BY <1>1, Invariant, PTL

(* ReapedIsFinal: nothing that was under way when a group was found reaped   *)
(* starts a target in it.                                                    *)
THEOREM ReapedSafety == Spec => []ReapedIsFinal
<1>1. LeaderInv /\ CInv => ReapedIsFinal
  BY DEF LeaderInv, Sound, CInv, Reaped, ReapedIsFinal, Up, Running
<1> QED
  BY <1>1, Invariant, PTL

-----------------------------------------------------------------------------
(* The promises of the parent: that of the lease, and that of the receipt.   *)

(* A promise is settled by the time that the leader has the lease, that the  *)
(* lease has failed, or that the child has closed: no caller is left waiting *)
(* on one that nobody will settle. A lease that is granted is of a group     *)
(* whose receipt is held.                                                    *)
PromisesSettle ==
  parent # "gone" =>
    /\ c.phase = "failed" \/ child = "closed" =>
         c.leaseReady # "pending" /\ c.receipt # "unsettled"
    /\ c.leaseReady = "granted" => c.receipt = "held"

(* It is settled once, and a lease that has failed stays so.                 *)
PromisesStand ==
  [][parent' # "gone" =>
       /\ c.leaseReady # "pending" => c'.leaseReady = c.leaseReady
       /\ c.receipt # "unsettled" => c'.receipt = c.receipt
       /\ c.phase = "failed" => c'.phase = "failed"]_vars

Promised(n) ==
  /\ n \in States
  /\ n.phase \in {"acknowledging", "leased"} \/ n.leaseReady = "granted" => n.receipt = "held"
  /\ n.phase = "leased" => n.leaseReady = "granted"
  /\ n.phase = "failed" => n.leaseReady # "pending" /\ n.receipt # "unsettled"
  /\ n.phase \in {"spawning", "ready", "acknowledging"} => n.leaseReady = "pending"
Onward(q, n) ==
  /\ Promised(n)
  /\ q.leaseReady # "pending" => n.leaseReady = q.leaseReady
  /\ q.receipt # "unsettled" => n.receipt = q.receipt
  /\ q.phase = "failed" => n.phase = "failed"
  /\ q.phase = "leased" => n.phase \in {"leased", "failed"}
PInv ==
  parent # "gone" => /\ Promised(c)
                     /\ child = "closed" => c.phase \in {"leased", "failed"}

LEMMA CloseOnward == ASSUME NEW n, Promised(n) PROVE Onward(n, CloseLease(n))
<1>1. /\ CloseLease(n) \in States /\ CloseLease(n).phase = n.phase
      /\ CloseLease(n).leaseReady = n.leaseReady
      /\ n.receipt # "unsettled" => CloseLease(n).receipt = n.receipt
  BY DEF CloseLease, Promised, States
<1> QED
  BY <1>1 DEF Promised, Onward

LEMMA FailOnward ==
  ASSUME NEW n, Promised(n)
  PROVE  Onward(n, FailLease(n)) /\ FailLease(n).phase = "failed"
<1> DEFINE q == [n EXCEPT !.phase = "failed", !.terminal = "none", !.control = FALSE,
                          !.relayPhase = "terminal",
                          !.leaseReady = IF @ = "pending" THEN "refused" ELSE @,
                          !.receipt = IF @ = "unsettled" THEN "none" ELSE @]
<1>1. /\ q \in States /\ q.phase = "failed"
      /\ q.leaseReady = (IF n.leaseReady = "pending" THEN "refused" ELSE n.leaseReady)
      /\ q.receipt = (IF n.receipt = "unsettled" THEN "none" ELSE n.receipt)
  BY DEF Promised, States
<1> HIDE DEF q
<1>2. Promised(q)
  BY <1>1 DEF Promised, States
<1>3. Onward(q, CloseLease(q)) /\ FailLease(n) = CloseLease(q)
  BY <1>2, CloseOnward DEF FailLease, q
<1> QED
  BY <1>1, <1>3 DEF Onward, Promised, States

LEMMA SelfOnward == ASSUME NEW n, Promised(n) PROVE Onward(n, n)
  BY DEF Onward

LEMMA RelinquishOnward == ASSUME NEW n, Promised(n) PROVE Onward(n, RelinquishLease(n))
  BY CloseOnward, FailOnward DEF RelinquishLease

LEMMA ConsumedOnward ==
  ASSUME Promised(c), NEW m, NEW observed PROVE Onward(c, Consumed(m, observed))
<1> DEFINE ready == [c EXCEPT !.phase = "ready"]
           held == [c EXCEPT !.phase = "ready", !.receipt = "held"]
           leased == [c EXCEPT !.phase = "leased",
                               !.leaseReady = IF @ = "pending" THEN "granted" ELSE @]
           ended == [c EXCEPT !.terminal = m]
<1>1. c.phase = "spawning" => Onward(c, ready)
  BY DEF Promised, States, Onward
<1>2. c.phase = "spawning" /\ c.receipt = "unsettled" => Onward(c, held)
  BY DEF Promised, States, Onward
<1>3. c.phase = "acknowledging" => Onward(c, leased)
  BY DEF Promised, States, Onward
<1>4. m \in Codes => Onward(c, ended)
  BY DEF Promised, States, Onward
<1> QED
  BY <1>1, <1>2, <1>3, <1>4, FailOnward DEF Consumed

LEMMA ReportedOnward ==
  ASSUME Promised(c), NEW m PROVE Onward(c, Reported(m))
<1> DEFINE q == [c EXCEPT !.relayPhase = PhaseAfter(m), !.terminal = IF m \in Codes THEN m ELSE @]
<1>1. PhaseAfter(m) \in {"ready", "leased", "terminal"}
  BY DEF PhaseAfter
<1>2. /\ q \in States /\ q.phase = c.phase /\ q.leaseReady = c.leaseReady
      /\ q.receipt = c.receipt
  BY <1>1 DEF Promised, States
<1>3. Onward(c, q)
  BY <1>2 DEF Promised, Onward
<1> QED
  BY <1>3, FailOnward DEF Reported

(* The parent's callbacks and its caller's steps.                            *)
LEMMA ParentPromises ==
  ASSUME PInv, Controller \/ Caller
  PROVE  PInv' /\ (parent' # "gone" => Onward(c, c'))
<1>1. ASSUME parent = "alive", Onward(c, c'), parent' = parent,
             child' = child \/ child' = "exited" \/ c'.phase \in {"leased", "failed"}
      PROVE  PInv' /\ (parent' # "gone" => Onward(c, c'))
  BY <1>1 DEF PInv, Onward
<1>2. parent = "alive" => /\ Promised(c) /\ Onward(c, c) /\ Onward(c, CloseLease(c))
                          /\ Onward(c, FailLease(c)) /\ FailLease(c).phase = "failed"
                          /\ Onward(c, RelinquishLease(c))
  BY SelfOnward, CloseOnward, FailOnward, RelinquishOnward DEF PInv
<1>3. CASE RecordReceipt
  <2>1. PICK receipt \in {"held", "none"} :
          parent = "alive" /\ c' = [c EXCEPT !.receipt = receipt]
    BY <1>3 DEF RecordReceipt, Parent, ParentTakes
  <2>2. Onward(c, c')
    BY <1>2, <1>3, <2>1 DEF RecordReceipt, Promised, States, Onward
  <2> QED
    BY <1>1, <1>3, <2>1, <2>2 DEF RecordReceipt
<1>4. CASE AcceptLease
  <2>1. parent = "alive" /\ c' = [c EXCEPT !.lease = "open"]
    BY <1>4 DEF AcceptLease, Parent, ParentTakes
  <2>2. Onward(c, c')
    BY <1>2, <2>1 DEF Promised, States, Onward
  <2> QED
    BY <1>1, <1>4, <2>1, <2>2 DEF AcceptLease
<1>5. CASE AcknowledgeReady
  <2>1. parent = "alive" /\ \/ c' = [c EXCEPT !.phase = "acknowledging"] /\ c.receipt = "held"
                            \/ c' = FailLease(c)
    BY <1>5 DEF AcknowledgeReady, Parent, ParentTakes, OwnsManagedGroup
  <2>2. c.phase = "ready" => Promised([c EXCEPT !.phase = "acknowledging"]) \/ c.receipt # "held"
    BY <1>2, <2>1 DEF Promised, States
  <2>3. Onward(c, c')
    BY <1>2, <1>5, <2>1, <2>2 DEF AcknowledgeReady, Promised, States, Onward
  <2> QED
    BY <1>1, <1>5, <2>1, <2>3 DEF AcknowledgeReady
<1>6. CASE ReadLease
  <2>1. PICK observed \in Observations : parent = "alive" /\
          c' = IF Head(up) = "EOF" THEN IF child = "running" THEN RelinquishLease(c) ELSE c
               ELSE Consumed(Head(up), observed)
    BY <1>6 DEF ReadLease, ParentTakes
  <2>2. Onward(c, Consumed(Head(up), observed))
    BY <1>2, <2>1, ConsumedOnward
  <2> QED
    BY <1>1, <1>2, <1>6, <2>1, <2>2 DEF ReadLease
<1>7. CASE ReadResult
  <2>1. parent = "alive" /\
          c' = IF Head(result) = "EOF" THEN IF child = "running" THEN RelinquishLease(c) ELSE c
               ELSE IF c.phase = "failed" THEN c ELSE Reported(Head(result))
    BY <1>7 DEF ReadResult, ParentTakes
  <2>2. Onward(c, Reported(Head(result)))
    BY <1>2, <2>1, ReportedOnward
  <2> QED
    BY <1>1, <1>2, <1>7, <2>1, <2>2 DEF ReadResult
<1>8. CASE LeaseFails \/ LeaseSocketClosed
  <2>1. parent = "alive" /\ c' = FailLease(c) /\ UNCHANGED <<parent, child>>
    BY <1>8 DEF LeaseFails, LeaseSocketClosed, Parent, ParentTakes
  <2> QED
    BY <1>1, <1>2, <2>1
<1>9. CASE ChildExits
  <2>1. parent = "alive" /\ c' = c /\ parent' = parent /\ child' = "exited"
    BY <1>9 DEF ChildExits, Parent, ParentTakes
  <2> QED
    BY <1>1, <1>2, <2>1
<1>10. CASE ChildCloses
  <2>1. /\ parent = "alive" /\ parent' = parent
        /\ c' = FailLease(c) \/ (c.phase = "leased" /\ c' = CloseLease(c))
    BY <1>10 DEF ChildCloses, Parent, ParentTakes
  <2> QED
    BY <1>1, <1>2, <2>1 DEF Onward
<1>11. CASE ParentSignalled
  <2>1. parent = "alive" /\ c' = CloseLease(c) /\ UNCHANGED <<parent, child>>
    BY <1>11 DEF ParentSignalled, Parent, ParentTakes
  <2> QED
    BY <1>1, <1>2, <2>1
<1>12. CASE ParentStalls
  <2>1. parent = "alive" /\ UNCHANGED <<child, c>>
    BY <1>12 DEF ParentStalls
  <2> QED
    BY <1>2, <2>1 DEF PInv
<1>13. CASE ParentGone
  BY <1>13 DEF ParentGone, PInv
<1>14. CASE Caller
  <2>1. parent = "alive" /\ UNCHANGED <<parent, child>>
    BY <1>14 DEF Caller, WaitEnds, StopLate, WaitReturns, StopCommand, StopReturns,
                 CallerFrame, Parent, ParentTakes, RequestAuthenticatedStop
  <2>2. c' \in {c, CloseLease(c), FailLease(c),
                [CloseLease(c) EXCEPT !.control = FALSE, !.result = FALSE]}
    <3>1. RequestAuthenticatedStop => c' \in {CloseLease(c), FailLease(c)}
      BY DEF RequestAuthenticatedStop, Parent, ParentTakes
    <3> QED
      BY <1>14, <3>1 DEF Caller, WaitEnds, StopLate, WaitReturns, StopCommand, StopReturns,
                         Parent, ParentTakes
  <2>3. Onward(c, [CloseLease(c) EXCEPT !.control = FALSE, !.result = FALSE])
    <3> DEFINE k == CloseLease(c)
               q == [k EXCEPT !.control = FALSE, !.result = FALSE]
    <3>1. Onward(c, k) /\ k \in States
      BY <1>2, <2>1 DEF Onward, Promised
    <3> HIDE DEF k
    <3>2. q \in States /\ q.phase = k.phase /\ q.receipt = k.receipt /\ q.leaseReady = k.leaseReady
      BY <3>1 DEF States
    <3> HIDE DEF q
    <3>3. Onward(c, q)
      BY <3>1, <3>2 DEF Onward, Promised
    <3> QED
      BY <3>3 DEF q, k
  <2> QED
    BY <1>1, <1>2, <2>1, <2>2, <2>3
<1> QED
  BY <1>3, <1>4, <1>5, <1>6, <1>7, <1>8, <1>9, <1>10, <1>11, <1>12, <1>13, <1>14 DEF Controller

(* The leader and the relaying supervisor do not touch the parent's memory.  *)
LEMMA OthersPromise ==
  ASSUME Leader \/ Supervisor PROVE UNCHANGED <<parent, child, c>>
<1>1. \A n, said : Leads(n, said) => UNCHANGED <<parent, child, c>>
  BY DEF Leads
<1>2. (\A sudden : AbortOrReap(g, sudden) => UNCHANGED <<parent, child, c>>)
      /\ (StartTarget => UNCHANGED <<parent, child, c>>)
  BY <1>1 DEF AbortOrReap, StartTarget
<1>3. Leader => UNCHANGED <<parent, child, c>>
  BY <1>1, <1>2 DEF Leader, CannotLead, Introduce, LeaderTimeout, LeaderSignalled, LivenessLost,
     HandleLeaseLoss, ReadControl, TargetSpawned, TargetMissing, TargetClosed, Inspect,
     KillTimer, RetryTimer, TargetActs
<1>4. Supervisor => UNCHANGED <<parent, child, c>>
  BY DEF Supervisor, SpawnGuardian, RelayLine, GuardianClosed, RelayStops, RelayFrame
<1> QED
  BY <1>3, <1>4

(* PromisesSettle and PromisesStand: the part of CallsReturn that is not     *)
(* fairness, for no await of a caller outlives what it waits for.            *)
THEOREM PromiseSafety == Spec => []PromisesSettle /\ PromisesStand
<1> DEFINE Step == parent' # "gone" =>
             /\ c.leaseReady # "pending" => c'.leaseReady = c.leaseReady
             /\ c.receipt # "unsettled" => c'.receipt = c.receipt
             /\ c.phase = "failed" => c'.phase = "failed"
<1>1. Init => PInv
  <2> SUFFICES ASSUME Init PROVE PInv
    OBVIOUS
  <2>1. /\ c \in States /\ c.phase = "spawning" /\ c.receipt = "unsettled"
        /\ c.leaseReady = "pending" /\ child = "running"
    BY DEF Init, NewState, States
  <2> QED
    BY <2>1 DEF PInv, Promised
<1>2. PInv /\ [Next]_vars => PInv' /\ [Step]_vars
  <2> SUFFICES ASSUME PInv, [Next]_vars PROVE PInv' /\ [Step]_vars
    OBVIOUS
  <2>1. CASE UNCHANGED vars
    BY <2>1 DEF vars, PInv
  <2>2. CASE Leader \/ Supervisor
    BY <2>2, OthersPromise DEF PInv
  <2>3. CASE Controller \/ Caller
    BY <2>3, ParentPromises DEF Onward
  <2> QED
    BY <2>1, <2>2, <2>3 DEF Next
<1>3. PInv => PromisesSettle
  BY DEF PInv, Promised, PromisesSettle
<1> QED
  BY <1>1, <1>2, <1>3, PTL DEF Spec, PromisesStand

-----------------------------------------------------------------------------
(* The end of the lease                                                      *)

(* Word of a lost lease is never lost: from the moment that the parent has   *)
(* closed the lease or is gone, the end of file is on its way to the leader, *)
(* born or not, or it is already cleaning up; no READY, ACK or STOP that was *)
(* under way takes its place.                                                *)
LossIsTold ==
  (Released(c) \/ parent = "gone") /\ g.phase # "gone" =>
    Has(down, "EOF") \/ g.cleanup # "no"

TInv == LossIsTold /\ (parent = "gone" => Released(c))

LEMMA HasMore ==
  ASSUME NEW S, NEW q \in Seq(S), NEW t \in Seq(S), NEW x, Has(q, x) \/ Has(t, x)
  PROVE  Has(q \o t, x)
<1>1. /\ Len(q) \in Nat /\ Len(t) \in Nat /\ Len(q \o t) = Len(q) + Len(t)
      /\ \A i \in 1 .. Len(q) + Len(t) :
           (q \o t)[i] = IF i <= Len(q) THEN q[i] ELSE t[i - Len(q)]
  BY ConcatProperties
<1>2. CASE Has(q, x)
  BY <1>1, <1>2 DEF Has
<1>3. CASE Has(t, x)
  <2>1. PICK i \in 1 .. Len(t) : t[i] = x
    BY <1>3 DEF Has
  <2>2. /\ i + Len(q) \in 1 .. Len(q) + Len(t) /\ ~(i + Len(q) <= Len(q))
        /\ (i + Len(q)) - Len(q) = i
    BY <1>1, <2>1
  <2>3. (q \o t)[i + Len(q)] = x
    BY <1>1, <2>1, <2>2
  <2> QED
    BY <1>1, <2>2, <2>3 DEF Has
<1> QED
  BY <1>2, <1>3

LEMMA HasRest ==
  ASSUME NEW S, NEW q \in Seq(S), q # <<>>, NEW x, Has(q, x), Head(q) # x
  PROVE  Has(Tail(q), x)
<1>1. /\ Len(Tail(q)) = Len(q) - 1 /\ Len(q) \in Nat /\ Head(q) = q[1]
      /\ \A i \in 1 .. Len(Tail(q)) : Tail(q)[i] = q[i + 1]
  BY HeadTailProperties, EmptySeq
<1>2. PICK i \in 1 .. Len(q) : q[i] = x
  BY DEF Has
<1>3. i - 1 \in 1 .. Len(Tail(q)) /\ (i - 1) + 1 = i
  BY <1>1, <1>2
<1>4. Tail(q)[i - 1] = x
  BY <1>1, <1>2, <1>3
<1> QED
  BY <1>3, <1>4 DEF Has

(* The leader takes the end of file for what it is.                          *)
LEMMA LossHandled ==
  ASSUME LeaderInv, g.cleanup = "no", HandleLeaseLoss
  PROVE  g'.phase = "gone" \/ g'.cleanup # "no"
<1>0. Sound(g) /\ g \in Leaders
  BY DEF LeaderInv, Sound
<1>1. CASE Leads(Exits(g, "1"), <<"1">>)
  BY <1>0, <1>1 DEF Leads, Exits, Leaders
<1>2. ASSUME NEW n \in BeginCleanup(g, "1", TRUE), Leads(n, <<>>)
      PROVE  g'.phase = "gone" \/ g'.cleanup # "no"
  <2> DEFINE r == [g EXCEPT !.code = "1", !.sudden = TRUE]
  <2>1. n \in Term(r) /\ g' = n
    BY <1>2 DEF BeginCleanup, Leads
  <2>2. r \in Leaders /\ r.phase = g.phase /\ r.target = g.target /\ r.peer = g.peer
    BY <1>0 DEF Leaders, Codes
  <2>3. Sound(r)
    BY <1>0, <2>2 DEF Sound
  <2> HIDE DEF r
  <2> QED
    BY <2>1, <2>3, TermSound
<1> QED
  BY <1>1, <1>2 DEF HandleLeaseLoss, AbortOrReap

(* What the parent adds to the lease                                         *)
LEMMA ParentTells ==
  ASSUME TInv, FieldTypes, NEW n, NEW said \in {<<>>, <<"ACK">>, <<"STOP">>}, NEW u, NEW r,
         ParentTakes(n, said, u, r), g' = g, parent' = parent
  PROVE  TInv'
<1> DEFINE end == IF Released(n) /\ ~Released(c) THEN EOF ELSE <<>>
<1>1. c' = n /\ down' = down \o said \o end /\ parent = "alive"
  BY DEF ParentTakes
<1>2. down \in Seq(Orders) /\ said \in Seq(Orders) /\ end \in Seq(Orders)
  BY Words DEF FieldTypes
<1>3. down \o said \in Seq(Orders)
  BY <1>2
<1>4. Has(EOF, "EOF")
  BY HasOne DEF EOF
<1>5. Has(down, "EOF") => Has(down \o said, "EOF")
  BY <1>2, HasMore
<1>6. Has(down \o said, "EOF") \/ Has(end, "EOF") => Has((down \o said) \o end, "EOF")
  BY <1>2, <1>3, HasMore
<1>7. Released(n) => Released(c) \/ Has(end, "EOF")
  BY <1>4
<1>8. Released(c') => Released(n)
  BY <1>1 DEF Released
<1> HIDE DEF end
<1>9. Released(n) /\ g.phase # "gone" => Has(down', "EOF") \/ g.cleanup # "no"
  BY <1>1, <1>5, <1>6, <1>7 DEF TInv, LossIsTold
<1> QED
  BY <1>1, <1>8, <1>9 DEF TInv, LossIsTold, Released

LEMMA CallerTells ==
  ASSUME TInv, FieldTypes, Controller \/ Caller
  PROVE  TInv'
<1>1. ASSUME NEW n, NEW said \in {<<>>, <<"ACK">>, <<"STOP">>}, Parent(n, said),
             g' = g, parent' = parent
      PROVE  TInv'
  BY <1>1, ParentTells DEF Parent
<1>2. CASE ReadLease
  <2>1. PICK n : ParentTakes(n, <<>>, Tail(up), result)
    BY <1>2 DEF ReadLease
  <2>2. g' = g /\ parent' = parent
    BY <1>2 DEF ReadLease, ParentFrame
  <2> QED
    BY <2>1, <2>2, ParentTells
<1>3. CASE ReadResult
  <2>1. PICK n : ParentTakes(n, <<>>, up, Tail(result))
    BY <1>3 DEF ReadResult
  <2>2. g' = g /\ parent' = parent
    BY <1>3 DEF ReadResult, ParentFrame
  <2> QED
    BY <2>1, <2>2, ParentTells
<1>4. CASE ParentStalls
  <2>1. parent' # "gone" /\ UNCHANGED <<c, g, down>> /\ parent = "alive"
    BY <1>4 DEF ParentStalls, ParentFrame
  <2> QED
    BY <2>1 DEF TInv, LossIsTold, Released
<1>5. CASE ParentGone
  <2>1. /\ c' = NewState("closed") /\ g' = g
        /\ down' = IF Released(c) THEN down ELSE down \o EOF
    BY <1>5 DEF ParentGone, ParentFrame
  <2>2. Released(c')
    BY <2>1 DEF Released, NewState
  <2>3. down \in Seq(Orders) /\ EOF \in Seq(Orders) /\ Has(EOF, "EOF")
    BY Words, HasOne DEF FieldTypes, EOF
  <2>4. Has(down \o EOF, "EOF")
    BY <2>3, HasMore
  <2> QED
    BY <2>1, <2>2, <2>4 DEF TInv, LossIsTold
<1>6. CASE RecordReceipt \/ AcceptLease \/ AcknowledgeReady \/ LeaseFails \/ LeaseSocketClosed
           \/ ChildExits \/ ChildCloses \/ ParentSignalled
  <2>1. g' = g /\ parent' = parent
    BY <1>6 DEF RecordReceipt, AcceptLease, AcknowledgeReady, LeaseFails, LeaseSocketClosed,
                ChildExits, ChildCloses, ParentSignalled, ParentFrame
  <2>2. PICK n, said : said \in {<<>>, <<"ACK">>} /\ Parent(n, said)
    BY <1>6 DEF RecordReceipt, AcceptLease, AcknowledgeReady, LeaseFails, LeaseSocketClosed,
                ChildExits, ChildCloses, ParentSignalled
  <2> QED
    BY <1>1, <2>1, <2>2
<1>7. CASE Caller
  <2>1. g' = g /\ parent' = parent
    BY <1>7 DEF Caller, WaitEnds, StopLate, WaitReturns, StopCommand, StopReturns, CallerFrame,
                ParentFrame
  <2>2. RequestAuthenticatedStop => \E n, said : said \in {<<>>, <<"STOP">>} /\ Parent(n, said)
    BY DEF RequestAuthenticatedStop
  <2>3. PICK n, said : said \in {<<>>, <<"STOP">>} /\ Parent(n, said)
    BY <1>7, <2>2 DEF Caller, WaitEnds, StopLate, WaitReturns, StopCommand, StopReturns
  <2> QED
    BY <1>1, <2>1, <2>3
<1> QED
  BY <1>2, <1>3, <1>4, <1>5, <1>6, <1>7 DEF Controller

LEMMA LeaderTells ==
  ASSUME TInv, LeaderInv, CInv, Leader \/ Supervisor
  PROVE  TInv'
<1>0. UNCHANGED <<parent, c>> /\ g \in Leaders /\ Good(g, g')
  BY OthersPromise, StepSound DEF LeaderInv, Sound, Next
<1>1. CASE Leader
  <2>1. g'.phase # "unborn" /\ Up
    BY <1>1, LeaderActs DEF CInv, Earned, Acts, Candid, Leads
  <2>2. g.cleanup # "no" /\ g'.phase # "gone" => g'.cleanup # "no"
    BY <1>0, <2>1 DEF Good, Stands
  <2>3. CASE ReadControl
    <3>1. /\ down # <<>> /\ down' = Tail(down) /\ down \in Seq(Orders)
          /\ g.cleanup = "no" /\ Head(down) = "EOF" => HandleLeaseLoss
      BY <2>3 DEF ReadControl, CInv, FieldTypes
    <3>2. Has(down, "EOF") /\ Head(down) # "EOF" => Has(down', "EOF")
      BY <3>1, HasRest
    <3>3. Head(down) = "EOF" => g'.phase = "gone" \/ g'.cleanup # "no"
      BY <2>2, <3>1, LossHandled
    <3> QED
      BY <1>0, <2>1, <2>2, <3>2, <3>3 DEF TInv, LossIsTold, Released, Up
  <2>4. CASE down' = down
    BY <1>0, <2>1, <2>2, <2>4 DEF TInv, LossIsTold, Released, Up
  <2> QED
    BY <1>1, <2>3, <2>4
       DEF Leader, CannotLead, Introduce, LeaderTimeout, LeaderSignalled, LivenessLost,
           TargetSpawned, TargetMissing, TargetClosed, Inspect, KillTimer, RetryTimer, TargetActs
<1>2. CASE Supervisor
  <2>1. down' = down
    BY <1>2 DEF Supervisor, SpawnGuardian, RelayLine, GuardianClosed, RelayStops, RelayFrame
  <2>2. \/ g' = g
        \/ g.phase = "unborn" /\ \E phase : g' = [g EXCEPT !.phase = phase]
    BY <1>2 DEF Supervisor, SpawnGuardian, RelayLine, GuardianClosed, RelayStops
  <2>3. g'.phase # "gone" => g.phase # "gone" /\ g'.cleanup = g.cleanup
    BY <1>0, <2>2 DEF Leaders
  <2> QED
    BY <1>0, <2>1, <2>3 DEF TInv, LossIsTold, Released
<1> QED
  BY <1>1, <1>2

(* LossIsTold: the part of LeaseBoundsGroup that is not fairness.            *)
THEOREM LossSafety == Spec => []LossIsTold
<1>1. Init => TInv
  BY DEF Init, NewState, TInv, LossIsTold, Released
<1>2. TInv /\ LeaderInv /\ CInv /\ [Next]_vars => TInv'
  <2> SUFFICES ASSUME TInv, LeaderInv, CInv, [Next]_vars PROVE TInv'
    OBVIOUS
  <2>1. CASE UNCHANGED vars
    BY <2>1 DEF vars, TInv, LossIsTold, Released
  <2>2. CASE Leader \/ Supervisor
    BY <2>2, LeaderTells
  <2>3. CASE Controller \/ Caller
    BY <2>3, CallerTells DEF CInv
  <2> QED
    BY <2>1, <2>2, <2>3 DEF Next
<1>3. TInv => LossIsTold
  BY DEF TInv
<1> QED
  BY <1>1, <1>2, <1>3, Invariant, PTL DEF Spec
=============================================================================
