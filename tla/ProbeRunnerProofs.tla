------------------------- MODULE ProbeRunnerProofs -------------------------
(* Proofs about the probe runner, for any number of processes, probes and    *)
(* calls: what a verdict and a green exit rest on, that a run leaves neither *)
(* its lock nor a child behind and draws nearer to its end with every step,  *)
(* and that two suites only run at once if a lock that was not judged has    *)
(* been renamed.                                                             *)
EXTENDS ProbeRunner, TLAPS

Baselines == [Ids -> Judged \cup {"unrecorded"}] \cup {NoFile}
Codes     == {"none", "0", "1", "2", "3", "4", "130"}
Processes == [
  pc : Gone \cup Locking \cup Awaiting \cup {"loop", "report"},
  live : BOOLEAN, only : SUBSET Ids, update : BOOLEAN, complete : BOOLEAN,
  tries : 0..MaxTries, probe : 0..Probes, calls : 0..MaxCalls,
  declared : Declared, degraded : BOOLEAN, rests : SUBSET Ends,
  helpCache : {"none", "clean", "unclean"}, results : [Ids -> Status \cup {"none"}],
  holds : BOOLEAN, alive : SUBSET Captured, tracked : SUBSET Captured, exit : Codes]

InSuite(n) == n.pc \in {"loop", "probe", "stream"} \/ (n.pc \in Calling /\ n.probe # 0)

(* What is true of the memory of one process: it holds the lock for as long  *)
(* as its suite runs, all that lives is tracked, a call that gave no answer  *)
(* has degraded its probe and is in no cache, and whoever reports has a      *)
(* result for each probe that was selected.                                  *)
Sound(n) ==
  /\ n \in Processes
  /\ InSuite(n) => n.holds
  /\ n.holds => InSuite(n) \/ n.pc = "report"
  /\ n.pc \in {"probe", "stream"} => n.probe \in Ids
  /\ n.pc \in Gone => n.alive = {} /\ n.probe = 0
  /\ n.pc # "exited" => n.exit = "none"
  /\ n.pc \notin Gone => n.alive \subseteq n.tracked
  /\ n.helpCache # "unclean"
  /\ ~n.degraded => \A e \in n.rests : Answers(e)
  /\ ~InSuite(n) /\ n.pc # "report" => \A i \in Ids : n.results[i] = "none"
  /\ \A i \in Ids : n.results[i] = "skip" => LiveProbe(i) /\ ~n.live
  /\ n.pc = "report" => \A i \in n.only : n.results[i] # "none"

(* A lock that names a process is read back, held or left by a kill.         *)
Known(q) == Names(q) => proc[q].pc \in {"readBack", "dead"} \/ proc[q].holds

IInv ==
  /\ lock \in Locks /\ baseline \in Baselines
  /\ proc \in [Procs -> Processes]
  /\ judged \in [Procs -> Locks] /\ robbed \in BOOLEAN
  /\ \A q \in Procs : Sound(proc[q]) /\ Known(q)

(* What is held is the file, and the owner of a lock that was judged stale   *)
(* is dead, until a lock that was not judged is renamed.                     *)
Held   == \A q \in Procs : proc[q].holds => Names(q)
Stale(file) == file # NoFile /\ file.written => proc[file.by].pc = "dead"
Owned  == robbed \/ (Held /\ \A q \in Procs : Stale(judged[q]))

(* What a green exit of n rests on.                                          *)
Measured(n) ==
  /\ \A i \in n.only : n.results[i] \in {"pass", "partial"} \/ (LiveProbe(i) /\ ~n.live)
  /\ \/ baseline = NoFile \/ n.update
     \/ \A i \in Ids : n.results[i] \in {"none", "skip", baseline[i]}

(* What every step of process q, which turns its memory into m, respects.    *)
OwnLock(q, m) ==
  /\ lock' \in Locks
  /\ lock' # NoFile /\ lock'.written /\ lock'.by = q => m.pc \in {"readBack", "dead"} \/ m.holds
  /\ m.holds => \/ lock' = lock /\ (proc[q].holds \/ Names(q))
                \/ proc[q].holds /\ Others(q)
  /\ m.pc = "reclaim" => At(q, "judge") /\ ~HolderLives /\ lock' = lock
OthersLock(q) ==
  \A r \in Procs \ {q} :
    LET named == lock # NoFile /\ lock.by = r /\ lock.written
        stays == lock' # NoFile /\ lock'.by = r /\ lock'.written
    IN (stays => named) /\ (named /\ ~At(q, "reclaim") => stays)
Honest(q, m) ==
  /\ \A i \in Ids : proc[q].results[i] = "none" /\ m.results[i] \in Verdicts => ~proc[q].degraded
  /\ m.exit = "0" /\ proc[q].exit = "none" => Measured(proc[q])
Respects(q, m) ==
  /\ Becomes(q, m) /\ Sound(m) /\ baseline' \in Baselines
  /\ OwnLock(q, m) /\ OthersLock(q) /\ Honest(q, m)

-----------------------------------------------------------------------------
(* The memory of a process that has not started has its type.                *)
LEMMA BlankType == Blank \in Processes
<1> DEFINE none == [i \in Ids |-> "none"]
<1>1. none \in [Ids -> Status \cup {"none"}]
  OBVIOUS
<1>2. 0 \in 0..MaxTries /\ 0 \in 0..Probes /\ 0 \in 0..MaxCalls
  BY ProbeAssumption DEF MaxTries
<1> HIDE DEF none
<1>3. {} \in SUBSET Ids /\ {} \in SUBSET Ends /\ {} \in SUBSET Captured
  OBVIOUS
<1>4. [pc |-> "off", live |-> FALSE, only |-> {}, update |-> FALSE, complete |-> FALSE,
       tries |-> 0, probe |-> 0, calls |-> 0, declared |-> "nothing", degraded |-> FALSE,
       rests |-> {}, helpCache |-> "none", results |-> none, holds |-> FALSE,
       alive |-> {}, tracked |-> {}, exit |-> "none"] \in Processes
  BY <1>1, <1>2, <1>3 DEF Processes, Gone, Declared, Codes
<1> QED
  BY <1>4 DEF Blank, none

(* A process that has not started, or was killed, is sound.                  *)
LEMMA BlankSound ==
  ASSUME NEW m \in {Blank, [Blank EXCEPT !.pc = "dead"]}
  PROVE  /\ Sound(m) /\ ~m.holds /\ m.exit = "none"
         /\ \A i \in Ids : m.results[i] = "none"
<1>1. m \in Processes
  BY BlankType DEF Processes, Gone
<1>2. /\ m.pc \in {"off", "dead"} /\ ~m.holds /\ m.helpCache = "none" /\ m.rests = {}
      /\ m.alive = {} /\ m.probe = 0 /\ m.exit = "none" /\ \A i \in Ids : m.results[i] = "none"
  BY DEF Blank
<1> QED
  BY <1>1, <1>2 DEF Sound, InSuite, Gone, Calling

(* A process that exits has killed all it tracked, which is all that lives.  *)
LEMMA ExitSound ==
  ASSUME NEW n, Sound(n), n.pc \notin Gone, NEW code \in Codes \ {"none"}
  PROVE  LET m == Exits(n, code) IN
         /\ Sound(m) /\ m.pc = "exited" /\ ~m.holds /\ m.exit = code
         /\ \A i \in Ids : m.results[i] = "none"
<1> DEFINE m == Exits(n, code)
<1>0. n.alive \ n.tracked = {}
  BY DEF Sound
<1>1. m \in Processes
  BY <1>0, BlankType DEF Exits, Processes, Gone
<1>2. /\ m.pc = "exited" /\ ~m.holds /\ m.helpCache = "none" /\ m.rests = {}
      /\ m.alive = {} /\ m.probe = 0 /\ m.exit = code /\ \A i \in Ids : m.results[i] = "none"
  BY <1>0 DEF Exits, Blank
<1> QED
  BY <1>1, <1>2 DEF Sound, InSuite, Gone, Calling

(* A step that leaves the files alone, and whose process names the lock only *)
(* if it goes on to hold it.                                                 *)
LEMMA QuietRespects ==
  ASSUME IInv, NEW q \in Procs, NEW m, Becomes(q, m), Sound(m), UNCHANGED <<lock, baseline>>,
         Names(q) => m.pc \in {"readBack", "dead"} \/ m.holds,
         m.holds => proc[q].holds \/ Names(q),
         m.pc = "reclaim" => At(q, "judge") /\ ~HolderLives,
         Honest(q, m)
  PROVE  Respects(q, m)
<1>1. OwnLock(q, m)
  BY DEF OwnLock, IInv, Names
<1>2. OthersLock(q)
  BY DEF OthersLock
<1> QED
  BY <1>1, <1>2 DEF Respects, IInv

(* A step within the same phase of the run: nothing is decided.              *)
LEMMA GoesOnRespects ==
  ASSUME IInv, NEW q \in Procs, NEW m, Becomes(q, m), Sound(m), UNCHANGED <<lock, baseline>>,
         m.holds = proc[q].holds, proc[q].pc \notin {"readBack", "dead"}, m.pc # "reclaim",
         m.exit = "none",
         \A i \in Ids : m.results[i] \in {"none", "skip", "error", "inconclusive", proc[q].results[i]}
  PROVE  Respects(q, m)
<1>1. Names(q) => m.holds
  BY DEF IInv, Known
<1>2. Honest(q, m)
  BY ProbeAssumption DEF Honest
<1> QED
  BY <1>1, <1>2, QuietRespects

(* Every way out but SIGKILL, from a memory k that follows the process's own. *)
LEMMA BailRespects ==
  ASSUME IInv, NEW q \in Procs, NEW k, Sound(k), k.pc \notin Gone,
         NEW code \in Codes \ {"none"}, Becomes(q, Exits(k, code)),
         IF proc[q].holds THEN Release(q) ELSE UNCHANGED lock, baseline' \in Baselines,
         Names(q) => proc[q].holds, code = "0" => Measured(proc[q])
  PROVE  Respects(q, Exits(k, code))
<1> DEFINE m == Exits(k, code)
<1>1. /\ Sound(m) /\ m.pc = "exited" /\ ~m.holds /\ m.exit = code
      /\ \A i \in Ids : m.results[i] = "none"
  BY ExitSound
<1> HIDE DEF m
<1>2. OwnLock(q, m)
  BY <1>1 DEF OwnLock, IInv, Names, Release, Others, Locks
<1>3. OthersLock(q)
  BY DEF OthersLock, Release, Others
<1>4. Honest(q, m)
  BY <1>1, ProbeAssumption DEF Honest
<1>5. Respects(q, m)
  BY <1>1, <1>2, <1>3, <1>4 DEF Respects, m
<1> QED
  BY <1>5 DEF m

-----------------------------------------------------------------------------
(* A call begins: the child is tracked from the start.                       *)
LEMMA SpawnRespects ==
  ASSUME IInv, NEW q \in Procs, NEW k, Sound(k), k.holds = proc[q].holds,
         k.results = proc[q].results, proc[q].pc \in {"off", "probe"}, k.pc = proc[q].pc,
         NEW declared \in Declared, Spawn(q, k, declared)
  PROVE  \E m : Respects(q, m)
<1> DEFINE m == [k EXCEPT !.pc = "call", !.declared = declared,
                          !.alive = @ \cup {"current"}, !.tracked = @ \cup {"current"}]
<1>1. m \in Processes
  BY DEF Sound, Processes, Captured, Gone, Awaiting, Calling
<1>2. /\ m.pc = "call" /\ m.holds = k.holds /\ m.probe = k.probe /\ m.exit = k.exit
      /\ m.results = k.results /\ m.degraded = k.degraded /\ m.rests = k.rests
      /\ m.helpCache = k.helpCache /\ m.alive = k.alive \cup {"current"}
      /\ m.tracked = k.tracked \cup {"current"} /\ m.live = k.live
  BY DEF Sound, Processes
<1> HIDE DEF m
<1>3. Sound(m)
  BY <1>1, <1>2 DEF Sound, InSuite, Gone, Calling, Ids
<1>4. Becomes(q, m) /\ UNCHANGED <<lock, baseline>>
  BY DEF Spawn, m
<1>5. \A i \in Ids : m.results[i] = proc[q].results[i]
  BY <1>2
<1>6. m.exit = "none"
  BY <1>2 DEF Sound
<1>7. m.holds = proc[q].holds /\ proc[q].pc \notin {"readBack", "dead"} /\ m.pc # "reclaim"
  BY <1>2
<1> QED
  BY <1>3, <1>4, <1>5, <1>6, <1>7, GoesOnRespects

(* A call is settled: what outlived its kill is tracked, and an end that is  *)
(* no answer has degraded the probe.                                         *)
LEMMA SettleRespects ==
  ASSUME IInv, NEW q \in Procs, proc[q].pc \in Calling,
         NEW outcome \in Outcomes, NEW clean \in BOOLEAN,
         NEW retained \in SUBSET {"retained"}, NEW orphan \in SUBSET retained,
         Settle(q, outcome, clean, retained, orphan)
  PROVE  \E m : Respects(q, m)
<1> DEFINE end == [declared |-> proc[q].declared, outcome |-> outcome, clean |-> clean]
           n   == [proc[q] EXCEPT !.alive = (@ \ {"current"}) \cup orphan,
                                  !.tracked = (@ \ {"current"}) \cup retained]
           m   == [n EXCEPT
             !.pc = "probe", !.rests = @ \cup {end}, !.declared = "nothing",
             !.degraded = @ \/ Degrades(n.declared, outcome, clean, orphan # {}),
             !.helpCache = Caches(n, outcome, clean)]
<1>1. Sound(proc[q]) /\ Known(q) /\ proc[q] \in Processes
  BY DEF IInv, Sound
<1>2. n \in Processes
  BY <1>1 DEF Processes, Captured
<1>3. /\ n.pc = proc[q].pc /\ n.holds = proc[q].holds /\ n.probe = proc[q].probe
      /\ n.results = proc[q].results /\ n.degraded = proc[q].degraded
      /\ n.rests = proc[q].rests /\ n.helpCache = proc[q].helpCache
      /\ n.live = proc[q].live /\ n.exit = proc[q].exit /\ n.declared = proc[q].declared
      /\ n.alive \subseteq n.tracked
  BY <1>1 DEF Processes, Sound, Calling, Gone
<1>4. Sound(n)
  BY <1>1, <1>2, <1>3 DEF Sound, InSuite, Gone, Calling
<1>5. UNCHANGED <<lock, baseline>>
  BY DEF Settle
<1>6. \/ n.probe = 0 /\ Becomes(q, [n EXCEPT !.pc = "create"])
      \/ n.probe = 0 /\ Becomes(q, Exits(n, "2"))
      \/ n.probe # 0 /\ Becomes(q, m)
  BY DEF Settle
<1> HIDE DEF n
<1>7. CASE n.probe = 0 /\ Becomes(q, [n EXCEPT !.pc = "create"])
  <2> DEFINE k == [n EXCEPT !.pc = "create"]
  <2>1. k \in Processes
    BY <1>2 DEF Processes, Locking
  <2>2. /\ k.pc = "create" /\ k.holds = n.holds /\ k.probe = n.probe /\ k.results = n.results
        /\ k.degraded = n.degraded /\ k.rests = n.rests /\ k.helpCache = n.helpCache
        /\ k.live = n.live /\ k.exit = n.exit /\ k.alive = n.alive /\ k.tracked = n.tracked
    BY <1>2 DEF Processes
  <2> HIDE DEF k
  <2>3. Sound(k)
    BY <1>3, <1>4, <1>7, <2>1, <2>2 DEF Sound, InSuite, Gone, Calling
  <2>4. k.exit = "none" /\ k.holds = proc[q].holds /\ Becomes(q, k)
    BY <1>3, <1>4, <1>7, <2>2 DEF Sound, k, Calling
  <2>5. \A i \in Ids : k.results[i] = proc[q].results[i]
    BY <1>3, <2>2
  <2> QED
    BY <1>5, <2>2, <2>3, <2>4, <2>5, GoesOnRespects DEF Calling
<1>8. CASE n.probe = 0 /\ Becomes(q, Exits(n, "2"))
  <2>1. ~proc[q].holds /\ n.pc \notin Gone
    BY <1>1, <1>3, <1>8 DEF Sound, InSuite, Gone, Calling
  <2>2. Names(q) => proc[q].holds
    BY <1>1 DEF Known, Calling
  <2> QED
    BY <1>4, <1>5, <1>8, <2>1, <2>2, BailRespects DEF IInv, Codes
<1>9. CASE n.probe # 0 /\ Becomes(q, m)
  <2> DEFINE deg == n.degraded \/ Degrades(n.declared, outcome, clean, orphan # {})
             help == Caches(n, outcome, clean)
             rests == n.rests \cup {end}
  <2>1. deg \in BOOLEAN
    BY <1>2 DEF Processes, Degrades
  <2>2. help \in {"none", "clean"}
    BY <1>2, <1>4 DEF Processes, Caches, Sound
  <2>3. end \in Ends
    BY <1>1 DEF Ends, Processes
  <2>4. rests \in SUBSET Ends
    BY <1>2, <2>3 DEF Processes
  <2>5. ~deg => \A e \in rests : Answers(e)
    <3>1. ~deg => Answers(end)
      BY <1>3 DEF Degrades, Answers, Outcomes
    <3> QED
      BY <1>4, <3>1 DEF Sound
  <2> DEFINE k == [n EXCEPT !.pc = "probe", !.rests = rests, !.declared = "nothing",
                            !.degraded = deg, !.helpCache = help]
  <2>6. m = k
    OBVIOUS
  <2> HIDE DEF m, deg, help, rests
  <2>7. k \in Processes
    BY <1>2, <2>1, <2>2, <2>4 DEF Processes, Awaiting, Declared
  <2>8. /\ k.pc = "probe" /\ k.holds = n.holds /\ k.probe = n.probe /\ k.results = n.results
        /\ k.degraded = deg /\ k.rests = rests /\ k.helpCache = help
        /\ k.live = n.live /\ k.exit = n.exit /\ k.alive = n.alive /\ k.tracked = n.tracked
    BY <1>2 DEF Processes
  <2>9. Becomes(q, k)
    BY <1>9, <2>6
  <2> HIDE DEF k
  <2>10. k.probe \in Ids
    BY <1>2, <1>9, <2>8, ProbeAssumption DEF Processes, Ids
  <2>11. Sound(k)
    BY <1>3, <1>4, <1>9, <2>2, <2>5, <2>7, <2>8, <2>10 DEF Sound, InSuite, Gone, Calling
  <2>12. k.exit = "none" /\ k.holds = proc[q].holds
    BY <1>3, <1>4, <2>8 DEF Sound, Calling
  <2>13. \A i \in Ids : k.results[i] = proc[q].results[i]
    BY <1>3, <2>8
  <2> QED
    BY <1>5, <2>8, <2>9, <2>11, <2>12, <2>13, GoesOnRespects DEF Calling
<1> QED
  BY <1>6, <1>7, <1>8, <1>9

(* Another place in the code, and nothing else.                              *)
LEMMA GoesSound ==
  ASSUME NEW n, Sound(n), n.pc \notin Gone,
         NEW to \in Locking \cup Awaiting,
         InSuite([n EXCEPT !.pc = to]) <=> InSuite(n), n.pc # "report",
         to \in {"probe", "stream"} => n.probe \in Ids
  PROVE  LET m == [n EXCEPT !.pc = to] IN
         /\ Sound(m) /\ m.pc = to /\ m.holds = n.holds /\ m.results = n.results
         /\ m.exit = "none"
<1> DEFINE m == [n EXCEPT !.pc = to]
<1>1. m \in Processes
  BY DEF Sound, Processes
<1>2. /\ m.pc = to /\ m.holds = n.holds /\ m.probe = n.probe /\ m.results = n.results
      /\ m.degraded = n.degraded /\ m.rests = n.rests /\ m.helpCache = n.helpCache
      /\ m.live = n.live /\ m.exit = n.exit /\ m.alive = n.alive /\ m.tracked = n.tracked
  BY DEF Sound, Processes
<1>3. InSuite(m) <=> InSuite(n)
  OBVIOUS
<1> HIDE DEF m
<1>4. Sound(m) /\ m.exit = "none"
  BY <1>1, <1>2, <1>3 DEF Sound, Gone, Locking, Awaiting, Calling
<1> QED
  BY <1>2, <1>4 DEF m

(* A try of the lock is over; the third one is the last.                     *)
LEMMA RetryRespects ==
  ASSUME IInv, NEW q \in Procs, proc[q].pc \in {"readBack", "reclaim"}, Retry(q),
         baseline' = baseline, lock' = lock \/ lock' = NoFile,
         ~Names(q), lock' = NoFile => At(q, "reclaim") \/ lock' = lock
  PROVE  \E m : Respects(q, m)
<1> DEFINE n == proc[q]
           more == n.tries + 1
           m == [n EXCEPT !.pc = "create", !.tries = more]
<1>1. Sound(n) /\ n \in Processes /\ ~n.holds
  BY DEF IInv, Sound, InSuite, Calling
<1>2. CASE more < MaxTries /\ Becomes(q, m)
  <2>1. more \in 0..MaxTries
    BY <1>1, <1>2 DEF Processes, MaxTries
  <2> HIDE DEF more
  <2>2. m \in Processes
    BY <1>1, <2>1 DEF Processes, Locking
  <2>3. /\ m.pc = "create" /\ m.holds = n.holds /\ m.probe = n.probe /\ m.results = n.results
        /\ m.degraded = n.degraded /\ m.rests = n.rests /\ m.helpCache = n.helpCache
        /\ m.live = n.live /\ m.exit = n.exit /\ m.alive = n.alive /\ m.tracked = n.tracked
    BY <1>1 DEF Processes
  <2>4. Becomes(q, m)
    BY <1>2
  <2> HIDE DEF m
  <2>5. Sound(m)
    BY <1>1, <2>2, <2>3 DEF Sound, InSuite, Gone, Calling
  <2>6. OwnLock(q, m)
    BY <1>1, <2>3 DEF OwnLock, Names, IInv, Locks
  <2>7. OthersLock(q)
    BY DEF OthersLock
  <2>8. Honest(q, m)
    <3>1. m.exit = "none"
      BY <2>3, <2>5 DEF Sound
    <3> QED
      BY <2>3, <3>1, ProbeAssumption DEF Honest
  <2> QED
    BY <2>4, <2>5, <2>6, <2>7, <2>8 DEF Respects, IInv
<1>3. CASE Becomes(q, Exits(n, "2"))
  <2> DEFINE k == Exits(n, "2")
  <2>1. /\ Sound(k) /\ k.pc = "exited" /\ ~k.holds /\ k.exit = "2"
        /\ \A i \in Ids : k.results[i] = "none"
    BY <1>1, ExitSound DEF Codes, Gone
  <2>2. Becomes(q, k)
    BY <1>3
  <2> HIDE DEF k
  <2>3. OwnLock(q, k)
    BY <2>1 DEF OwnLock, Names, IInv, Locks
  <2>4. OthersLock(q)
    BY DEF OthersLock
  <2>5. Honest(q, k)
    BY <2>1, ProbeAssumption DEF Honest
  <2> QED
    BY <2>1, <2>2, <2>3, <2>4, <2>5 DEF Respects, IInv
<1> QED
  BY <1>2, <1>3 DEF Retry

(* The steps that take the lock.                                             *)
LEMMA LockRespects ==
  ASSUME IInv, NEW q \in Procs,
         Create(q) \/ Fill(q) \/ FillFails(q) \/ Judge(q) \/ Reclaim(q)
  PROVE  \E m : Respects(q, m)
<1> DEFINE n == proc[q]
           At2(to) == [n EXCEPT !.pc = to]
<1>1. Sound(n) /\ n \in Processes /\ Known(q)
  BY DEF IInv, Sound
<1>2. n.pc \in Locking => ~n.holds /\ n.pc \notin Gone /\ ~InSuite(n) /\ n.pc # "report"
  BY <1>1 DEF Sound, InSuite, Locking, Calling, Gone
<1>3. ASSUME n.pc \in Locking, NEW to \in Locking
      PROVE  LET m == At2(to) IN
             /\ Sound(m) /\ m.pc = to /\ ~m.holds /\ m.results = n.results /\ m.exit = "none"
  <2>1. [n EXCEPT !.pc = to].pc = to
    BY <1>1 DEF Processes
  <2>2. InSuite(At2(to)) <=> InSuite(n)
    BY <1>2, <1>3, <2>1 DEF InSuite, Locking, Calling
  <2>3. to \notin {"probe", "stream"}
    BY DEF Locking
  <2> QED
    BY <1>1, <1>2, <1>3, <2>2, <2>3, GoesSound
<1>4. CASE Create(q)
  <2>0. n.pc \in Locking /\ ~Names(q) /\ baseline' = baseline
    BY <1>1, <1>2, <1>4 DEF Create, At, Known, Locking
  <2>1. CASE lock = NoFile /\ lock' = [by |-> q, written |-> FALSE] /\ Goes(q, "fill")
    <3> DEFINE m == At2("fill")
    <3>1. Sound(m) /\ m.pc = "fill" /\ ~m.holds /\ m.results = n.results /\ m.exit = "none"
      BY <1>3, <2>0 DEF Locking
    <3>2. Becomes(q, m)
      BY <2>1 DEF Goes
    <3> HIDE DEF m
    <3>3. OwnLock(q, m)
      BY <2>1, <3>1 DEF OwnLock, Locks
    <3>4. OthersLock(q)
      BY <2>1 DEF OthersLock
    <3>5. Honest(q, m)
      BY <3>1, ProbeAssumption DEF Honest
    <3> QED
      BY <2>0, <3>1, <3>2, <3>3, <3>4, <3>5 DEF Respects, IInv
  <2>2. CASE Goes(q, "judge") /\ UNCHANGED lock
    <3> DEFINE m == At2("judge")
    <3>1. Sound(m) /\ m.pc = "judge" /\ ~m.holds /\ m.results = n.results /\ m.exit = "none"
      BY <1>3, <2>0 DEF Locking
    <3>2. Becomes(q, m)
      BY <2>2 DEF Goes
    <3> HIDE DEF m
    <3>3. Honest(q, m)
      BY <3>1, ProbeAssumption DEF Honest
    <3> QED
      BY <2>0, <2>2, <3>1, <3>2, <3>3, QuietRespects
  <2> QED
    BY <1>4, <2>1, <2>2 DEF Create
<1>5. CASE Fill(q)
  <2> DEFINE m == At2("readBack")
  <2>0. n.pc \in Locking
    BY <1>5 DEF Fill, At, Locking
  <2>1. Sound(m) /\ m.pc = "readBack" /\ ~m.holds /\ m.results = n.results /\ m.exit = "none"
    BY <1>3, <2>0 DEF Locking
  <2>2. Becomes(q, m)
    BY <1>5 DEF Fill, Goes
  <2> HIDE DEF m
  <2>3. /\ baseline' = baseline
        /\ \/ lock' = lock
           \/ lock \in [by : Procs, written : BOOLEAN] /\ lock.by = q
              /\ lock' = [lock EXCEPT !.written = TRUE]
    BY <1>5 DEF Fill, IInv, Locks
  <2>4. lock' \in Locks
    BY <2>3 DEF IInv, Locks
  <2>5. OwnLock(q, m)
    BY <2>1, <2>4 DEF OwnLock
  <2>6. OthersLock(q)
    BY <2>3, ProbeAssumption DEF OthersLock
  <2>7. Honest(q, m)
    BY <2>1, ProbeAssumption DEF Honest
  <2> QED
    BY <2>1, <2>2, <2>3, <2>5, <2>6, <2>7 DEF Respects, IInv
<1>6. CASE FillFails(q)
  <2>1. n.pc = "fill" /\ Bail(q, "2")
    BY <1>6 DEF FillFails, At
  <2>2. Names(q) => n.holds
    BY <1>1, <2>1 DEF Known
  <2> QED
    BY <1>1, <2>1, <2>2, BailRespects DEF Bail, Gone, Codes, IInv
<1>7. CASE Judge(q)
  <2>0. n.pc = "judge" /\ n.pc \in Locking /\ ~Names(q)
    BY <1>1, <1>2, <1>7 DEF Judge, At, Known, Locking
  <2>1. CASE Bail(q, "4")
    BY <1>1, <2>0, <2>1, BailRespects DEF Bail, Gone, Codes, IInv
  <2>2. CASE ~HolderLives /\ Goes(q, "reclaim") /\ UNCHANGED <<lock, baseline>>
    <3> DEFINE m == At2("reclaim")
    <3>1. Sound(m) /\ m.pc = "reclaim" /\ ~m.holds /\ m.results = n.results /\ m.exit = "none"
      BY <1>3, <2>0 DEF Locking
    <3>2. Becomes(q, m)
      BY <2>2 DEF Goes
    <3> HIDE DEF m
    <3>3. Honest(q, m)
      BY <3>1, ProbeAssumption DEF Honest
    <3> QED
      BY <2>0, <2>2, <3>1, <3>2, <3>3, QuietRespects DEF At
  <2> QED
    BY <1>7, <2>1, <2>2 DEF Judge
<1>8. CASE Reclaim(q)
  <2>1. n.pc = "reclaim" /\ ~n.holds
    BY <1>2, <1>8 DEF Reclaim, At, Locking
  <2>2. ~Names(q)
    BY <1>1, <2>1 DEF Known
  <2> QED
    BY <1>8, <2>1, <2>2, RetryRespects DEF Reclaim, At
<1> QED
  BY <1>4, <1>5, <1>6, <1>7, <1>8

(* Who reads its own name back holds the lock, and its suite begins.         *)
LEMMA ReadBackRespects ==
  ASSUME IInv, NEW q \in Procs, ReadBack(q)
  PROVE  \E m : Respects(q, m)
<1> DEFINE n == proc[q]
<1>1. Sound(n) /\ n \in Processes /\ n.pc = "readBack"
  BY DEF IInv, Sound, ReadBack, At
<1>2. ASSUME Names(q), NEW live \in BOOLEAN, NEW only \in SUBSET Ids,
             Becomes(q, [n EXCEPT !.pc = "loop", !.holds = TRUE, !.tries = 0,
                                  !.live = live, !.only = only])
      PROVE  \E m : Respects(q, m)
  <2> DEFINE m == [n EXCEPT !.pc = "loop", !.holds = TRUE, !.tries = 0,
                            !.live = live, !.only = only]
  <2>0. 0 \in 0..MaxTries /\ live \in BOOLEAN /\ only \in SUBSET Ids
    BY <1>2 DEF MaxTries
  <2>1. m \in Processes
    BY <1>1, <2>0 DEF Processes
  <2>2. /\ m.pc = "loop" /\ m.holds /\ m.results = n.results
        /\ m.degraded = n.degraded /\ m.rests = n.rests /\ m.helpCache = n.helpCache
        /\ m.exit = n.exit /\ m.alive = n.alive /\ m.tracked = n.tracked
    BY <1>1 DEF Processes
  <2>3. Becomes(q, m)
    BY <1>2
  <2> HIDE DEF m
  <2>4. \A i \in Ids : m.results[i] = "none"
    BY <1>1, <2>2 DEF Sound, InSuite, Calling
  <2>5. Sound(m)
    BY <1>1, <2>1, <2>2, <2>4 DEF Sound, InSuite, Gone
  <2>6. Honest(q, m)
    BY <2>2, <2>4, <2>5, ProbeAssumption DEF Honest, Sound
  <2> QED
    BY <1>2, <2>2, <2>3, <2>5, <2>6, QuietRespects DEF ReadBack
<1>3. CASE ~Names(q) /\ Retry(q)
  BY <1>1, <1>3, RetryRespects DEF ReadBack
<1> QED
  BY <1>2, <1>3 DEF ReadBack

-----------------------------------------------------------------------------
(* A probe is chosen: the first one that is left, which may be skipped.      *)
LEMMA NextProbeRespects ==
  ASSUME IInv, NEW q \in Procs, NextProbe(q)
  PROVE  \E m : Respects(q, m)
<1> DEFINE n == proc[q]
<1>1. Sound(n) /\ n \in Processes /\ n.pc = "loop" /\ UNCHANGED <<lock, baseline>>
  BY DEF IInv, Sound, NextProbe, At
<1>2. PICK i \in Left(q) :
        IF LiveProbe(i) /\ ~n.live
        THEN Becomes(q, [n EXCEPT !.results[i] = "skip"])
        ELSE Becomes(q, [n EXCEPT !.pc = "probe", !.probe = i, !.calls = 0,
                                  !.degraded = FALSE, !.rests = {}])
  BY DEF NextProbe
<1>3. i \in Ids
  BY <1>1, <1>2 DEF Left, Processes
<1>4. CASE LiveProbe(i) /\ ~n.live
  <2> DEFINE results == [n.results EXCEPT ![i] = "skip"]
             m == [n EXCEPT !.results = results]
  <2>1. results \in [Ids -> Status \cup {"none"}]
    BY <1>1 DEF Processes, Status
  <2>2. \A j \in Ids : results[j] = IF j = i THEN "skip" ELSE n.results[j]
    BY <1>1 DEF Processes
  <2>3. Becomes(q, m)
    BY <1>2, <1>4
  <2> HIDE DEF results
  <2>4. m \in Processes
    BY <1>1, <2>1 DEF Processes
  <2>5. /\ m.pc = n.pc /\ m.holds = n.holds /\ m.probe = n.probe /\ m.results = results
        /\ m.degraded = n.degraded /\ m.rests = n.rests /\ m.helpCache = n.helpCache
        /\ m.live = n.live /\ m.exit = n.exit /\ m.alive = n.alive /\ m.tracked = n.tracked
    BY <1>1 DEF Processes
  <2> HIDE DEF m
  <2>6. Sound(m) /\ m.exit = "none"
    BY <1>1, <1>4, <2>2, <2>4, <2>5 DEF Sound, InSuite
  <2> QED
    BY <1>1, <2>2, <2>3, <2>5, <2>6, GoesOnRespects
<1>5. CASE ~(LiveProbe(i) /\ ~n.live)
  <2> DEFINE m == [n EXCEPT !.pc = "probe", !.probe = i, !.calls = 0,
                            !.degraded = FALSE, !.rests = {}]
  <2>1. Becomes(q, m)
    BY <1>2, <1>5
  <2>2. i \in 0..Probes /\ 0 \in 0..MaxCalls
    BY <1>3, ProbeAssumption DEF Ids
  <2>3. m \in Processes
    BY <1>1, <2>2 DEF Processes, Awaiting
  <2>4. /\ m.pc = "probe" /\ m.holds = n.holds /\ m.probe = i /\ m.results = n.results
        /\ m.rests = {} /\ m.helpCache = n.helpCache
        /\ m.live = n.live /\ m.exit = n.exit /\ m.alive = n.alive /\ m.tracked = n.tracked
    BY <1>1 DEF Processes
  <2> HIDE DEF m
  <2>5. Sound(m) /\ m.exit = "none"
    BY <1>1, <1>3, <2>3, <2>4 DEF Sound, InSuite, Gone
  <2> QED
    BY <1>1, <2>1, <2>4, <2>5, GoesOnRespects
<1> QED
  BY <1>2, <1>4, <1>5

(* Within a probe: its calls, what degrades it, and what it streams.         *)
LEMMA ProbeRespects ==
  ASSUME IInv, NEW q \in Procs,
         Call(q) \/ CachedHelp(q) \/ FramingBreak(q) \/ Stream(q)
  PROVE  \E m : Respects(q, m)
<1> DEFINE n == proc[q]
           more == n.calls + 1
<1>1. Sound(n) /\ n \in Processes /\ n.pc = "probe"
  BY DEF IInv, Sound, Call, CachedHelp, FramingBreak, Stream, At
<1>2. n.calls < MaxCalls => more \in 0..MaxCalls
  BY <1>1, ProbeAssumption DEF Processes
<1>3. ASSUME NEW m, m \in Processes, Becomes(q, m), UNCHANGED <<lock, baseline>>,
             m.pc \in {"probe", "stream"}, m.holds = n.holds, m.probe = n.probe,
             m.results = n.results, m.helpCache = n.helpCache, m.live = n.live,
             m.exit = n.exit, m.alive = n.alive, m.tracked = n.tracked,
             ~m.degraded => \A e \in m.rests : Answers(e)
      PROVE  Respects(q, m)
  <2>1. Sound(m) /\ m.exit = "none"
    BY <1>1, <1>3 DEF Sound, InSuite, Gone
  <2> QED
    BY <1>1, <1>3, <2>1, GoesOnRespects
<1>4. CASE Call(q)
  <2> DEFINE k == [n EXCEPT !.calls = more]
  <2>1. PICK declared \in Declared : Spawn(q, k, declared)
    BY <1>4 DEF Call
  <2>2. more \in 0..MaxCalls
    BY <1>2, <1>4 DEF Call
  <2> HIDE DEF more
  <2>3. k \in Processes
    BY <1>1, <2>2 DEF Processes
  <2>4. /\ k.pc = n.pc /\ k.holds = n.holds /\ k.probe = n.probe /\ k.results = n.results
        /\ k.degraded = n.degraded /\ k.rests = n.rests /\ k.helpCache = n.helpCache
        /\ k.live = n.live /\ k.exit = n.exit /\ k.alive = n.alive /\ k.tracked = n.tracked
    BY <1>1 DEF Processes
  <2> HIDE DEF k
  <2>5. Sound(k)
    BY <1>1, <2>3, <2>4 DEF Sound, InSuite, Gone
  <2> QED
    BY <1>1, <2>1, <2>4, <2>5, SpawnRespects
<1>5. CASE CachedHelp(q)
  <2> DEFINE end == [declared |-> "help", outcome |-> "completed",
                     clean |-> n.helpCache = "clean"]
             rests == n.rests \cup {end}
             m == [n EXCEPT !.calls = more, !.rests = rests]
  <2>1. end \in Ends
    BY DEF Ends, Declared, Outcomes
  <2>2. rests \in SUBSET Ends
    BY <1>1, <2>1 DEF Processes
  <2>3. Answers(end)
    BY <1>1, <1>5 DEF CachedHelp, Answers, Sound, Processes
  <2>4. ~n.degraded => \A e \in rests : Answers(e)
    BY <1>1, <2>3 DEF Sound
  <2>5. more \in 0..MaxCalls /\ UNCHANGED <<lock, baseline>> /\ Becomes(q, m)
    BY <1>2, <1>5 DEF CachedHelp
  <2> HIDE DEF more, rests
  <2>6. m \in Processes
    BY <1>1, <2>2, <2>5 DEF Processes
  <2>7. /\ m.pc = n.pc /\ m.holds = n.holds /\ m.probe = n.probe /\ m.results = n.results
        /\ m.degraded = n.degraded /\ m.rests = rests /\ m.helpCache = n.helpCache
        /\ m.live = n.live /\ m.exit = n.exit /\ m.alive = n.alive /\ m.tracked = n.tracked
    BY <1>1 DEF Processes
  <2> HIDE DEF m
  <2> QED
    BY <1>1, <1>3, <2>4, <2>5, <2>6, <2>7
<1>6. CASE FramingBreak(q)
  <2> DEFINE m == [n EXCEPT !.degraded = TRUE]
  <2>1. m \in Processes
    BY <1>1 DEF Processes
  <2>2. /\ m.pc = n.pc /\ m.holds = n.holds /\ m.probe = n.probe /\ m.results = n.results
        /\ m.degraded /\ m.helpCache = n.helpCache
        /\ m.live = n.live /\ m.exit = n.exit /\ m.alive = n.alive /\ m.tracked = n.tracked
    BY <1>1 DEF Processes
  <2>3. Becomes(q, m) /\ UNCHANGED <<lock, baseline>>
    BY <1>6 DEF FramingBreak
  <2> HIDE DEF m
  <2> QED
    BY <1>1, <1>3, <2>1, <2>2, <2>3
<1>7. CASE Stream(q)
  <2> DEFINE m == [n EXCEPT !.pc = "stream", !.calls = more]
  <2>1. more \in 0..MaxCalls /\ UNCHANGED <<lock, baseline>> /\ Becomes(q, m)
    BY <1>2, <1>7 DEF Stream
  <2> HIDE DEF more
  <2>2. m \in Processes
    BY <1>1, <2>1 DEF Processes, Awaiting
  <2>3. /\ m.pc = "stream" /\ m.holds = n.holds /\ m.probe = n.probe /\ m.results = n.results
        /\ m.degraded = n.degraded /\ m.rests = n.rests /\ m.helpCache = n.helpCache
        /\ m.live = n.live /\ m.exit = n.exit /\ m.alive = n.alive /\ m.tracked = n.tracked
    BY <1>1 DEF Processes
  <2>4. ~m.degraded => \A e \in m.rests : Answers(e)
    BY <1>1, <2>3 DEF Sound
  <2> HIDE DEF m
  <2> QED
    BY <1>1, <1>3, <2>1, <2>2, <2>3, <2>4
<1> QED
  BY <1>4, <1>5, <1>6, <1>7

(* A probe is over. What it concludes is a verdict only if nothing degraded  *)
(* it.                                                                       *)
LEMMA RecordsRespects ==
  ASSUME IInv, NEW q \in Procs, Returns(q) \/ Throws(q)
  PROVE  \E m : Respects(q, m)
<1> DEFINE n == proc[q]
<1>1. /\ Sound(n) /\ n \in Processes /\ n.pc = "probe" /\ n.probe \in Ids
      /\ UNCHANGED <<lock, baseline>>
  BY DEF IInv, Sound, Returns, Throws, Records, At
<1>2. PICK status \in Judged \cup {"inconclusive"} :
        /\ Records(q, status)
        /\ status \in Verdicts => ~n.degraded
  BY ProbeAssumption DEF Returns, Throws, Judged
<1> DEFINE results == [n.results EXCEPT ![n.probe] = status]
           m == [n EXCEPT !.pc = "loop", !.results = results,
                          !.calls = 0, !.degraded = FALSE, !.rests = {}]
<1>3. results \in [Ids -> Status \cup {"none"}]
  BY <1>1 DEF Processes, Status
<1>4. \A i \in Ids : results[i] = IF i = n.probe THEN status ELSE n.results[i]
  BY <1>1 DEF Processes
<1>5. Becomes(q, m)
  BY <1>2 DEF Records
<1> HIDE DEF results
<1>6. 0 \in 0..MaxCalls
  BY ProbeAssumption
<1>7. m \in Processes
  BY <1>1, <1>3, <1>6 DEF Processes
<1>8. /\ m.pc = "loop" /\ m.holds = n.holds /\ m.results = results
      /\ m.rests = {} /\ m.helpCache = n.helpCache
      /\ m.live = n.live /\ m.exit = n.exit /\ m.alive = n.alive /\ m.tracked = n.tracked
  BY <1>1 DEF Processes
<1> HIDE DEF m
<1>9. status # "skip" /\ status # "none"
  BY ProbeAssumption DEF Judged
<1>10. Sound(m) /\ m.exit = "none"
  BY <1>1, <1>4, <1>7, <1>8, <1>9 DEF Sound, InSuite, Gone
<1>11. Honest(q, m)
  BY <1>2, <1>4, <1>8, <1>10, ProbeAssumption DEF Honest
<1>12. Names(q) => m.holds
  BY <1>1, <1>8 DEF IInv, Known
<1> QED
  BY <1>1, <1>5, <1>8, <1>10, <1>11, <1>12, QuietRespects

(* The suite is over and its lock released.                                  *)
LEMMA EndSuiteRespects ==
  ASSUME IInv, NEW q \in Procs, EndSuite(q)
  PROVE  \E m : Respects(q, m)
<1> DEFINE n == proc[q]
<1>1. /\ Sound(n) /\ n \in Processes /\ n.pc = "loop" /\ n.holds
      /\ Left(q) = {} /\ Release(q) /\ baseline' = baseline
  BY DEF IInv, Sound, EndSuite, At, InSuite
<1>2. PICK update \in BOOLEAN, filtered \in BOOLEAN :
        Becomes(q, [n EXCEPT
          !.pc = "report", !.holds = Others(q), !.probe = 0, !.helpCache = "none",
          !.update = update, !.complete = ~filtered /\ n.live /\ n.only = Ids])
  BY DEF EndSuite
<1> DEFINE others == Others(q)
           complete == ~filtered /\ n.live /\ n.only = Ids
           m == [n EXCEPT !.pc = "report", !.holds = others, !.probe = 0,
                          !.helpCache = "none", !.update = update, !.complete = complete]
<1>3. others \in BOOLEAN /\ complete \in BOOLEAN /\ 0 \in 0..Probes
  BY <1>1, ProbeAssumption DEF Processes, Others, IInv, Locks
<1>4. Becomes(q, m)
  BY <1>2
<1> HIDE DEF others, complete
<1>5. m \in Processes
  BY <1>1, <1>3 DEF Processes
<1>6. /\ m.pc = "report" /\ m.holds = others /\ m.results = n.results /\ m.only = n.only
      /\ m.degraded = n.degraded /\ m.rests = n.rests /\ m.helpCache = "none"
      /\ m.live = n.live /\ m.exit = n.exit /\ m.alive = n.alive /\ m.tracked = n.tracked
  BY <1>1 DEF Processes
<1> HIDE DEF m
<1>7. \A i \in m.only : m.results[i] # "none"
  BY <1>1, <1>6 DEF Left
<1>8. Sound(m) /\ m.exit = "none"
  BY <1>1, <1>5, <1>6, <1>7 DEF Sound, InSuite, Gone, Calling
<1>9. OwnLock(q, m)
  BY <1>1, <1>6 DEF OwnLock, Release, Others, others, IInv, Locks
<1>10. OthersLock(q)
  BY <1>1 DEF OthersLock, Release, Others
<1>11. Honest(q, m)
  BY <1>6, <1>8, ProbeAssumption DEF Honest
<1> QED
  BY <1>1, <1>4, <1>8, <1>9, <1>10, <1>11 DEF Respects, IInv

(* What an exit code of 0 says of the results.                               *)
LEMMA GreenMeasured ==
  ASSUME IInv, NEW q \in Procs, At(q, "report"), NEW drift \in BOOLEAN,
         ExitCode(q, drift) = "0",
         drift \/ baseline = NoFile \/ proc[q].update
           \/ \A i \in JudgedIn(q) : baseline[i] = proc[q].results[i]
  PROVE  Measured(proc[q])
<1> DEFINE n == proc[q]
<1>1. Sound(n) /\ n \in Processes /\ n.pc = "report"
  BY DEF IInv, Sound, At
<1>2. ~drift /\ \A i \in Ids : n.results[i] \notin {"fail", "error", "inconclusive"}
  BY DEF ExitCode, Found
<1>3. \A i \in Ids : n.results[i] \in {"pass", "partial", "skip", "none"}
  BY <1>1, <1>2, ProbeAssumption DEF Processes, Status, Judged
<1>4. \A i \in n.only : n.results[i] \in {"pass", "partial"} \/ (LiveProbe(i) /\ ~n.live)
  BY <1>1, <1>3 DEF Sound, Processes
<1>5. ASSUME NEW i \in Ids, n.results[i] \notin {"none", "skip"}
      PROVE  i \in JudgedIn(q)
  BY <1>1, <1>2, <1>5 DEF Processes, Status, JudgedIn
<1> QED
  BY <1>2, <1>4, <1>5 DEF Measured

(* The report, and what becomes of the baseline.                             *)
LEMMA ReportRespects ==
  ASSUME IInv, NEW q \in Procs, NoReport(q) \/ UpdateBaseline(q) \/ CheckBaseline(q)
  PROVE  \E m : Respects(q, m)
<1> DEFINE n == proc[q]
<1>1. /\ Sound(n) /\ n \in Processes /\ n.pc = "report" /\ Known(q) /\ baseline \in Baselines
      /\ At(q, "report") /\ n.pc \notin Gone
  BY DEF IInv, Sound, NoReport, UpdateBaseline, CheckBaseline, At, Gone
<1>2. Names(q) => n.holds
  BY <1>1 DEF Known
<1>3. \A drift \in BOOLEAN : ExitCode(q, drift) \in Codes \ {"none"}
  BY DEF ExitCode, Codes
<1>4. CASE NoReport(q)
  BY <1>1, <1>2, <1>4, BailRespects DEF NoReport, Bail, Codes
<1>5. CASE UpdateBaseline(q)
  <2> DEFINE recorded == [i \in Ids |-> IF i \in JudgedIn(q) THEN n.results[i]
                                                            ELSE "unrecorded"]
  <2>1. recorded \in [Ids -> Judged \cup {"unrecorded"}]
    BY DEF JudgedIn
  <2>2. baseline' \in Baselines
    BY <1>1, <1>5, <2>1 DEF UpdateBaseline, Baselines
  <2>3. n.update
    BY <1>5 DEF UpdateBaseline
  <2>4. ExitCode(q, FALSE) = "0" => Measured(n)
    BY <1>1, <2>3, GreenMeasured
  <2> QED
    BY <1>1, <1>2, <1>3, <1>5, <2>2, <2>4, BailRespects DEF UpdateBaseline
<1>6. CASE CheckBaseline(q)
  <2>1. CASE baseline = NoFile /\ Bail(q, ExitCode(q, FALSE))
    <3>1. ExitCode(q, FALSE) = "0" => Measured(n)
      BY <1>1, <2>1, GreenMeasured
    <3> QED
      BY <1>1, <1>2, <1>3, <2>1, <3>1, BailRespects DEF Bail
  <2>2. ASSUME NEW moved \in BOOLEAN, Bail(q, ExitCode(q, moved \/ Drifts(q)))
        PROVE  \E m : Respects(q, m)
    <3> DEFINE drift == moved \/ Drifts(q)
    <3>1. drift \in BOOLEAN /\ (drift \/ \A i \in JudgedIn(q) : baseline[i] = n.results[i])
      BY DEF Drifts
    <3>2. Bail(q, ExitCode(q, drift))
      BY <2>2
    <3> HIDE DEF drift
    <3>3. ExitCode(q, drift) = "0" => Measured(n)
      BY <1>1, <3>1, GreenMeasured
    <3> QED
      BY <1>1, <1>2, <1>3, <3>1, <3>2, <3>3, BailRespects DEF Bail
  <2> QED
    BY <1>6, <2>1, <2>2 DEF CheckBaseline
<1> QED
  BY <1>4, <1>5, <1>6

-----------------------------------------------------------------------------
(* Every step of a process respects what is its own and what is others'.     *)
LEMMA StepRespects ==
  ASSUME IInv, NEW q \in Procs, Start(q) \/ Step(q) \/ Signal(q) \/ Crash(q)
  PROVE  \E m : Respects(q, m)
<1> DEFINE n == proc[q]
<1>1. Sound(n) /\ n \in Processes /\ Known(q) /\ baseline \in Baselines
  BY DEF IInv, Sound
<1>2. CASE Start(q)
  <2>1. Spawn(q, Blank, "nothing") /\ n.pc = "off" /\ "nothing" \in Declared
    BY <1>2 DEF Start, At, Declared
  <2>2. Sound(Blank)
    BY BlankSound
  <2>4. \A i \in Ids : n.results[i] = "none"
    BY <1>1, <2>1 DEF Sound, InSuite, Calling
  <2>5. n.results = [i \in Ids |-> "none"]
    BY <1>1, <2>4 DEF Processes
  <2>6. Blank.pc = "off" /\ Blank.holds = n.holds /\ Blank.results = n.results
    BY <1>1, <2>1, <2>5 DEF Blank, Sound, InSuite, Calling, Processes
  <2> QED
    BY <2>1, <2>2, <2>6, SpawnRespects
<1>3. CASE CallFails(q)
  <2>1. n.pc \in Calling /\ Settle(q, "failed", TRUE, {}, {})
    BY <1>3 DEF CallFails, At, Calling
  <2>2. "failed" \in Outcomes /\ TRUE \in BOOLEAN /\ {} \in SUBSET {"retained"}
        /\ {} \in SUBSET {}
    BY DEF Outcomes
  <2> QED
    BY <2>1, <2>2, SettleRespects
<1>4. CASE Closes(q)
  BY <1>4, SettleRespects DEF Closes, At, Calling, Outcomes
<1>5. CASE Watchdog(q)
  BY <1>5, SettleRespects DEF Watchdog, Calling, Outcomes
<1>6. CASE TimesOut(q)
  <2>1. PICK to \in {"killed", "held"} : Goes(q, to)
    BY <1>6 DEF TimesOut
  <2> DEFINE m == [n EXCEPT !.pc = to]
  <2>2. n.pc = "call" /\ UNCHANGED <<lock, baseline>>
    BY <1>6 DEF TimesOut, At
  <2>3. InSuite(m) <=> InSuite(n)
    BY <1>1, <2>2 DEF InSuite, Calling, Processes
  <2>4. /\ Sound(m) /\ m.pc = to /\ m.holds = n.holds /\ m.results = n.results
        /\ m.exit = "none"
    BY <1>1, <2>2, <2>3, GoesSound DEF Gone, Awaiting, Calling
  <2>5. Becomes(q, m)
    BY <2>1 DEF Goes
  <2> HIDE DEF m
  <2>6. \A i \in Ids : m.results[i] = n.results[i]
    BY <2>4
  <2> QED
    BY <2>2, <2>4, <2>5, <2>6, GoesOnRespects
<1>7. CASE StreamEnds(q)
  <2>1. n.pc = "stream" /\ n.holds
    BY <1>1, <1>7 DEF StreamEnds, At, Sound, InSuite
  <2>2. CASE Goes(q, "probe") /\ UNCHANGED <<lock, baseline>>
    <3> DEFINE m == [n EXCEPT !.pc = "probe"]
    <3>1. InSuite(m) <=> InSuite(n)
      BY <1>1, <2>1 DEF InSuite, Calling, Processes
    <3>2. n.probe \in Ids
      BY <1>1, <2>1 DEF Sound
    <3>3. /\ Sound(m) /\ m.pc = "probe" /\ m.holds = n.holds /\ m.results = n.results
          /\ m.exit = "none"
      BY <1>1, <2>1, <3>1, <3>2, GoesSound DEF Gone, Awaiting
    <3>4. Becomes(q, m)
      BY <2>2 DEF Goes
    <3> HIDE DEF m
    <3>5. \A i \in Ids : m.results[i] = n.results[i]
      BY <3>3
    <3> QED
      BY <2>1, <2>2, <3>3, <3>4, <3>5, GoesOnRespects
  <2>3. CASE Bail(q, "2")
    BY <1>1, <2>1, <2>3, BailRespects DEF Bail, Gone, Codes
  <2> QED
    BY <1>7, <2>2, <2>3 DEF StreamEnds
<1>8. CASE Refuse(q)
  <2>1. n.pc = "loop" /\ n.holds /\ Bail(q, "2")
    BY <1>1, <1>8 DEF Refuse, At, Sound, InSuite
  <2> QED
    BY <1>1, <2>1, BailRespects DEF Bail, Gone, Codes
<1>9. CASE Signal(q)
  <2>1. n.pc \in Awaiting /\ Bail(q, "130")
    BY <1>9 DEF Signal
  <2>2. Names(q) => n.holds
    BY <1>1, <2>1 DEF Known, Awaiting, Calling
  <2> QED
    BY <1>1, <2>1, <2>2, BailRespects DEF Bail, Gone, Awaiting, Calling, Codes
<1>10. CASE Crash(q)
  <2> DEFINE m == [Blank EXCEPT !.pc = "dead"]
  <2>1. /\ Sound(m) /\ m.pc = "dead" /\ ~m.holds /\ m.exit = "none"
        /\ \A i \in Ids : m.results[i] = "none"
    BY BlankSound DEF Blank
  <2>2. Becomes(q, m) /\ UNCHANGED <<lock, baseline>>
    BY <1>10 DEF Crash
  <2> HIDE DEF m
  <2>3. Honest(q, m)
    BY <2>1, ProbeAssumption DEF Honest
  <2> QED
    BY <2>1, <2>2, <2>3, QuietRespects
<1> QED
  BY <1>2, <1>3, <1>4, <1>5, <1>6, <1>7, <1>8, <1>9, <1>10, LockRespects, ReadBackRespects,
     NextProbeRespects, ProbeRespects, RecordsRespects, EndSuiteRespects, ReportRespects
     DEF Step

(* The initial state satisfies the invariants.                               *)
LEMMA InitIInv == Init => IInv /\ Owned
<1> SUFFICES ASSUME Init PROVE IInv /\ Owned
  OBVIOUS
<1>1. Sound(Blank)
  BY BlankSound
<1>2. Blank.pc = "off" /\ ~Blank.holds
  BY DEF Blank
<1> HIDE DEF Blank
<1>3. \A q \in Procs : proc[q] = Blank
  BY DEF Init
<1> QED
  BY <1>1, <1>2, <1>3, BlankType
  DEF Init, IInv, Owned, Held, Stale, Known, Names, At, Locks, Baselines

(* Every step preserves the invariant.                                       *)
LEMMA NextIInv == IInv /\ [Next]_vars => IInv'
<1> SUFFICES ASSUME IInv, [Next]_vars PROVE IInv'
  OBVIOUS
<1>1. CASE Next
  <2>1. PICK q \in Procs : Start(q) \/ Step(q) \/ Signal(q) \/ Crash(q)
    BY <1>1 DEF Next
  <2>2. PICK m : Respects(q, m)
    BY <2>1, StepRespects
  <2>3. /\ proc' = [proc EXCEPT ![q] = m] /\ Sound(m) /\ m \in Processes
        /\ lock' \in Locks /\ baseline' \in Baselines
    BY <2>2 DEF Respects, Becomes, Sound, OwnLock
  <2>4. /\ proc' \in [Procs -> Processes] /\ proc'[q] = m
        /\ \A r \in Procs \ {q} : proc'[r] = proc[r]
    BY <2>3 DEF IInv
  <2>5. \A r \in Procs : Sound(proc'[r])
    BY <2>3, <2>4 DEF IInv
  <2>6. ASSUME NEW r \in Procs PROVE Known(r)'
    <3>1. CASE r = q
      BY <2>2, <2>4, <3>1 DEF Respects, OwnLock, Known, Names
    <3>2. CASE r # q
      BY <2>2, <2>4, <3>2 DEF Respects, OthersLock, Known, Names, IInv
    <3> QED
      BY <3>1, <3>2
  <2>7. \A r \in Procs : Sound(proc[r])'
    BY <2>5 DEF Sound, InSuite, Processes, Answers
  <2>8. judged' \in [Procs -> Locks] /\ robbed' \in BOOLEAN
    BY <1>1 DEF Next, Recorded, IInv, Locks
  <2> QED
    BY <2>3, <2>4, <2>6, <2>7, <2>8 DEF IInv
<1>2. CASE UNCHANGED vars
  BY <1>2 DEF vars, IInv, Sound, Known, Names, InSuite
<1> QED
  BY <1>1, <1>2

(* A process that was killed takes no step. *)
LEMMA DeadRest ==
  ASSUME IInv, NEW q \in Procs, Start(q) \/ Step(q) \/ Signal(q) \/ Crash(q)
  PROVE  proc[q].pc # "dead"
BY DEF Start, Step, Signal, Crash, At, Running, Gone, Awaiting, Calling, CallFails, Closes,
       TimesOut, Watchdog, Create, Fill, FillFails, ReadBack, Judge, Reclaim, Refuse,
       NextProbe, Call, CachedHelp, FramingBreak, Stream, StreamEnds, Returns, Throws,
       EndSuite, NoReport, UpdateBaseline, CheckBaseline

(* Every step but the rename of a lock that was not judged leaves the file   *)
(* to its holder.                                                            *)
LEMMA NextOwned ==
  ASSUME IInv, Owned, [Next]_vars
  PROVE  Owned'
<1>1. ASSUME Next, ~robbed' PROVE Owned'
  <2>1. PICK q \in Procs : /\ Start(q) \/ Step(q) \/ Signal(q) \/ Crash(q)
                           /\ Recorded(q)
    BY <1>1 DEF Next
  <2>2. PICK m : Respects(q, m)
    BY <2>1, StepRespects
  <2>3. /\ Held /\ \A r \in Procs : Stale(judged[r])
        /\ At(q, "reclaim") /\ lock' # lock => lock = judged[q]
    BY <1>1, <2>1 DEF Recorded, Owned, IInv
  <2>4. proc'[q] = m /\ \A r \in Procs \ {q} : proc'[r] = proc[r]
    BY <2>2 DEF Respects, Becomes, IInv
  <2>5. ASSUME NEW r \in Procs, proc'[r].holds PROVE Names(r)'
    <3>1. CASE r = q
      <4>1. m.holds => \/ lock' = lock /\ (proc[q].holds \/ Names(q))
                       \/ proc[q].holds /\ Others(q)
        BY <2>2 DEF Respects, OwnLock
      <4>2. proc[q].holds => Names(q) /\ ~Others(q)
        BY <2>3 DEF Held, Names, Others
      <4> QED
        BY <2>4, <2>5, <3>1, <4>1, <4>2 DEF Names
    <3>2. CASE r # q
      <4>1. proc[r].holds /\ Names(r)
        BY <2>3, <2>4, <2>5, <3>2 DEF Held
      <4>2. proc[r].pc # "dead"
        BY <4>1 DEF IInv, Sound, InSuite, Calling
      <4>3. ~(At(q, "reclaim") /\ lock' # lock)
        BY <2>3, <4>1, <4>2 DEF Stale, Names
      <4> QED
        BY <2>2, <3>2, <4>1, <4>3 DEF Respects, OthersLock, Names
    <3> QED
      BY <3>1, <3>2
  <2>6. proc[q].pc # "dead"
    BY <2>1, DeadRest
  <2>7. ASSUME NEW file \in Locks, Stale(file) PROVE Stale(file)'
    BY <2>4, <2>6, <2>7 DEF Stale, Locks
  <2>8. Stale(lock) \/ m.pc # "reclaim"
    <3> SUFFICES ASSUME m.pc = "reclaim", lock # NoFile, lock.written
                 PROVE  proc[lock.by].pc = "dead"
      BY DEF Stale
    <3>1. ~HolderLives /\ lock.by \in Procs
      BY <2>2 DEF Respects, OwnLock, IInv, Locks
    <3>2. proc[lock.by].pc \in Gone /\ Known(lock.by) /\ Sound(proc[lock.by])
      BY <3>1 DEF HolderLives, Running, IInv
    <3> QED
      BY <3>1, <3>2 DEF Known, Names, Sound, InSuite, Calling, Gone
  <2>9. ASSUME NEW r \in Procs PROVE Stale(judged[r])'
    <3>1. judged'[r] \in {lock, NoFile} \/ judged'[r] = judged[r]
      BY <2>1 DEF Recorded, IInv
    <3>2. judged'[r] = NoFile \/ judged'[r] = judged[r] \/ (judged'[r] = lock /\ m.pc = "reclaim")
      BY <2>1, <2>4 DEF Recorded, IInv
    <3>3. lock \in Locks /\ judged[r] \in Locks /\ NoFile \in Locks /\ Stale(NoFile)
      BY DEF IInv, Locks, Stale
    <3>4. PICK file \in Locks : judged'[r] = file /\ Stale(file)
      BY <2>3, <2>8, <3>2, <3>3
    <3> QED
      BY <2>7, <3>4 DEF Stale
  <2> QED
    BY <2>5, <2>9 DEF Owned, Held
<1>2. CASE UNCHANGED vars
  BY <1>2 DEF vars, Owned, Held, Stale, Names
<1> QED
  BY <1>1, <1>2 DEF Owned

(* The inductive invariant holds in every state, whatever the timing.        *)
THEOREM Invariant == Spec => []IInv
<1>1. Init => IInv
  BY InitIInv
<1> QED
  BY <1>1, NextIInv, PTL DEF Spec

(* The lock, the processes and the baseline keep their types.                *)
THEOREM TypeCorrect == Spec => []TypeOK
<1>1. IInv => TypeOK
  BY DEF IInv, TypeOK, Baselines, Processes, Codes
<1> QED
  BY <1>1, Invariant, PTL

(* However a run ends, it leaves neither its lock nor a captured call.       *)
THEOREM ExitSafety == Spec => []CleanExit
<1>1. IInv => CleanExit
  BY DEF IInv, CleanExit, Sound, Known, InSuite, At, Gone, Calling
<1> QED
  BY <1>1, Invariant, PTL

(* As long as no lock has been renamed that was not judged, no two suites    *)
(* run at once and who runs one owns the lock.                               *)
THEOREM SuiteSafety == Spec => []OneUnlessRobbed
<1>1. Init => IInv /\ Owned
  BY InitIInv
<1>2. IInv /\ Owned /\ [Next]_vars => (IInv /\ Owned)'
  BY NextIInv, NextOwned
<1>3. Owned => OneUnlessRobbed
  BY DEF Owned, Held, OneUnlessRobbed, OneSuite, Names
<1> QED
  BY <1>1, <1>2, <1>3, PTL DEF Spec

(* No verdict rests on a call that gave no answer.                           *)
THEOREM VerdictSafety == Spec => NoVerdictFromSilence
<1> DEFINE Act == \A q \in Procs, i \in Ids :
              proc[q].results[i] = "none" /\ proc'[q].results[i] \in Verdicts
                => \A e \in proc[q].rests : Answers(e)
<1>1. ASSUME IInv, Next PROVE Act
  <2>1. PICK q \in Procs : Start(q) \/ Step(q) \/ Signal(q) \/ Crash(q)
    BY <1>1 DEF Next
  <2>2. PICK m : Respects(q, m)
    BY <1>1, <2>1, StepRespects
  <2>3. proc'[q] = m /\ \A r \in Procs \ {q} : proc'[r] = proc[r]
    BY <1>1, <2>2 DEF Respects, Becomes, IInv
  <2> QED
    BY <1>1, <2>2, <2>3, ProbeAssumption DEF Respects, Honest, IInv, Sound
<1>2. IInv /\ [Next]_vars => [Act]_vars
  BY <1>1
<1> QED
  BY <1>2, Invariant, PTL DEF Spec, NoVerdictFromSilence

(* A green exit is a measurement of all that was selected.                   *)
THEOREM GreenSafety == Spec => GreenIsMeasured
<1> DEFINE Act == \A q \in Procs :
              proc'[q].exit = "0" /\ proc[q].exit = "none" =>
                /\ \A i \in proc[q].only : \/ proc[q].results[i] \in {"pass", "partial"}
                                          \/ /\ LiveProbe(i) /\ ~proc[q].live
                /\ \/ baseline = NoFile \/ proc[q].update
                   \/ \A i \in Ids : proc[q].results[i] \in {"none", "skip", baseline[i]}
<1>1. ASSUME IInv, Next PROVE Act
  <2>1. PICK q \in Procs : Start(q) \/ Step(q) \/ Signal(q) \/ Crash(q)
    BY <1>1 DEF Next
  <2>2. PICK m : Respects(q, m)
    BY <1>1, <2>1, StepRespects
  <2>3. proc'[q] = m /\ \A r \in Procs \ {q} : proc'[r] = proc[r]
    BY <1>1, <2>2 DEF Respects, Becomes, IInv
  <2> QED
    BY <2>2, <2>3 DEF Respects, Honest, Measured
<1>2. IInv /\ [Next]_vars => [Act]_vars
  BY <1>1
<1> QED
  BY <1>2, Invariant, PTL DEF Spec, GreenIsMeasured

-----------------------------------------------------------------------------
(* That a run comes to its end                                               *)

(* What is left to a process: the stage of its run, the probes that have no  *)
(* result yet, and in the end what it may still do with its tries and calls. *)
Stage(n) ==
  IF n.pc \in {"exited", "dead"} THEN 0
  ELSE IF n.pc = "report" THEN 1
  ELSE IF InSuite(n) THEN 2
  ELSE IF n.pc \in Locking THEN 3
  ELSE IF n.pc \in Calling THEN 4   \* the version is asked for
  ELSE 5
Undone(n) == {i \in n.only : n.results[i] = "none"}
Allowance(n) ==
  LET tries == 5 * (MaxTries - n.tries)
      calls == 5 * (MaxCalls - n.calls) + IF n.degraded THEN 0 ELSE 1
  IN  CASE n.pc = "loop"                         -> 5 * MaxCalls + 2
        [] n.pc = "probe"                        -> calls
        [] n.pc = "call"                         -> calls + 4
        [] n.pc \in {"killed", "held", "stream"} -> calls + 3
        [] n.pc = "create"                       -> tries + 4
        [] n.pc \in {"fill", "judge"}            -> tries + 3
        [] n.pc \in {"readBack", "reclaim"}      -> tries + 2
        [] OTHER                                 -> 0

(* From n to m a run has less left, in an order that cannot fall for ever.   *)
Nearer(m, n) ==
  \/ Stage(m) < Stage(n)
  \/ /\ Stage(m) = Stage(n)
     /\ \/ Undone(m) \subseteq Undone(n) /\ Undone(m) # Undone(n)
        \/ /\ Undone(m) = Undone(n)
           /\ Allowance(m) \in Nat /\ Allowance(m) < Allowance(n)

(* Whatever a process does, its own calls, the rivals for the lock, signals  *)
(* and drawn-out kills included, takes it nearer to the end of its run.      *)
RunsShrink ==
  [][\A q \in Procs : proc'[q] # proc[q] => Nearer(proc'[q], proc[q])]_vars

(* The probe that runs has no result yet.                                    *)
Busy(n)    == n.pc \in {"probe", "stream"} \/ (n.pc \in Calling /\ n.probe # 0)
Current(n) == Busy(n) => n.probe \in Undone(n)

LEMMA AllowanceType == \A n \in Processes : Allowance(n) \in Nat
<1> SUFFICES ASSUME NEW n \in Processes PROVE Allowance(n) \in Nat
  OBVIOUS
<1>1. n.tries \in 0..3 /\ n.calls \in 0..MaxCalls /\ MaxCalls \in Nat
  BY ProbeAssumption DEF Processes, MaxTries
<1> DEFINE tries == 5 * (MaxTries - n.tries)
           calls == 5 * (MaxCalls - n.calls) + IF n.degraded THEN 0 ELSE 1
<1>2. tries \in Nat /\ calls \in Nat /\ 5 * MaxCalls + 2 \in Nat
  BY <1>1 DEF MaxTries
<1> HIDE DEF tries, calls
<1> QED
  BY <1>2 DEF Allowance, tries, calls

(* The stage of a run that has neither ended nor is about to.                *)
LEMMA Stages ==
  ASSUME NEW n
  PROVE  /\ n.pc \in {"exited", "dead"} => Stage(n) = 0
         /\ n.pc = "report" => Stage(n) = 1
         /\ InSuite(n) => Stage(n) = 2
         /\ n.pc \in Locking => Stage(n) = 3
         /\ n.pc \in Calling /\ n.probe = 0 => Stage(n) = 4
         /\ n.pc = "off" => Stage(n) = 5
         /\ n.pc \notin {"exited", "dead"} => Stage(n) > 0
<1> DEFINE ended == n.pc \in {"exited", "dead"}
<1>1. InSuite(n) => ~ended /\ n.pc # "report" /\ n.pc \notin Locking
  BY DEF InSuite, Locking, Calling
<1>2. n.pc \in Locking => ~ended /\ n.pc # "report" /\ ~InSuite(n)
  BY <1>1 DEF Locking
<1>3. n.pc \in Calling /\ n.probe = 0 => ~ended /\ n.pc # "report" /\ ~InSuite(n) /\ n.pc \notin Locking
  BY DEF InSuite, Locking, Calling
<1>4. n.pc = "off" => n.pc \notin Calling /\ n.pc \notin Locking /\ ~InSuite(n)
  BY DEF InSuite, Locking, Calling
<1> HIDE DEF ended
<1>5. (ended => Stage(n) = 0) /\ (n.pc = "report" => Stage(n) = 1)
  BY DEF Stage, ended
<1>6. (InSuite(n) => Stage(n) = 2) /\ (n.pc \in Locking => Stage(n) = 3)
  BY <1>1, <1>2 DEF Stage, ended
<1>7. (n.pc \in Calling /\ n.probe = 0 => Stage(n) = 4) /\ (n.pc = "off" => Stage(n) = 5)
  BY <1>3, <1>4 DEF Stage, ended
<1>8. ~ended => Stage(n) > 0
  BY DEF Stage, ended
<1> QED
  BY <1>5, <1>6, <1>7, <1>8 DEF ended

(* Every way out.                                                            *)
LEMMA OutShrinks ==
  ASSUME NEW n, NEW m, m.pc \in {"exited", "dead"}, n.pc \notin {"exited", "dead"}
  PROVE  Current(m) /\ Nearer(m, n)
<1>1. Stage(m) = 0 /\ Stage(n) > 0
  BY Stages
<1> QED
  BY <1>1 DEF Current, Busy, Calling, Nearer

LEMMA ExitShrinks ==
  ASSUME NEW n, NEW k, NEW code, n.pc \notin {"exited", "dead"}
  PROVE  Current(Exits(k, code)) /\ Nearer(Exits(k, code), n)
<1>1. Exits(k, code).pc = "exited"
  BY DEF Exits, Blank
<1> QED
  BY <1>1, OutShrinks

(* A step within a stage that leaves the results alone.                      *)
LEMMA WithinShrinks ==
  ASSUME NEW n, NEW m \in Processes, Current(n), Busy(m) => Busy(n) /\ m.probe = n.probe,
         m.only = n.only, m.results = n.results, Stage(m) = Stage(n),
         Allowance(m) < Allowance(n)
  PROVE  Current(m) /\ Nearer(m, n)
<1>1. Undone(m) = Undone(n)
  BY DEF Undone
<1>2. Current(m)
  BY <1>1 DEF Current
<1> QED
  BY <1>1, <1>2, AllowanceType DEF Nearer

(* The steps of a call.                                                      *)
LEMMA SettleShrinks ==
  ASSUME IInv, IInv', NEW q \in Procs, Current(proc[q]), proc[q].pc \in Calling,
         NEW outcome, NEW clean, NEW retained, NEW orphan,
         Settle(q, outcome, clean, retained, orphan)
  PROVE  Current(proc'[q]) /\ Nearer(proc'[q], proc[q])
<1> DEFINE n == proc[q]
           m == proc'[q]
           k == [n EXCEPT !.alive = (@ \ {"current"}) \cup orphan,
                          !.tracked = (@ \ {"current"}) \cup retained]
           end == [declared |-> n.declared, outcome |-> outcome, clean |-> clean]
           deg == k.degraded \/ Degrades(k.declared, outcome, clean, orphan # {})
           help == Caches(k, outcome, clean)
<1>1. n \in Processes /\ m \in Processes
  BY DEF IInv
<1>2. /\ k.pc = n.pc /\ k.probe = n.probe /\ k.results = n.results /\ k.only = n.only
      /\ k.calls = n.calls /\ k.tries = n.tries /\ k.degraded = n.degraded
  BY <1>1 DEF Processes
<1>3. \/ n.probe = 0 /\ m = [k EXCEPT !.pc = "create"]
      \/ n.probe = 0 /\ m = Exits(k, "2")
      \/ n.probe # 0 /\ m = [k EXCEPT !.pc = "probe", !.rests = @ \cup {end},
                                      !.declared = "nothing", !.degraded = deg,
                                      !.helpCache = help]
  BY <1>2 DEF Settle, Becomes, IInv
<1>4. n.pc \notin {"exited", "dead"}
  BY DEF Calling
<1>5. CASE n.probe = 0 /\ m = [k EXCEPT !.pc = "create"]
  <2>1. m.pc = "create"
    BY <1>1, <1>5 DEF Processes
  <2>2. Stage(m) = 3 /\ Stage(n) = 4
    BY <1>5, <2>1, Stages DEF Locking
  <2> QED
    BY <2>1, <2>2 DEF Current, Busy, Calling, Nearer
<1>6. CASE n.probe = 0 /\ m = Exits(k, "2")
  BY <1>4, <1>6, ExitShrinks
<1>7. CASE n.probe # 0 /\ m = [k EXCEPT !.pc = "probe", !.rests = @ \cup {end},
                                        !.declared = "nothing", !.degraded = deg,
                                        !.helpCache = help]
  <2> HIDE DEF k, help, end
  <2>0. k = [k EXCEPT !.pc = k.pc]
    BY <1>1 DEF Processes, k
  <2>1. /\ m.pc = "probe" /\ m.probe = n.probe /\ m.results = n.results /\ m.only = n.only
        /\ m.calls = n.calls /\ m.degraded = deg
    BY <1>1, <1>2, <1>7, <2>0 DEF Processes, k
  <2>2. n.degraded => m.degraded
    BY <1>2, <2>1
  <2>3. Stage(m) = 2 /\ Stage(n) = 2
    BY <1>7, <2>1, Stages DEF InSuite
  <2>4. Allowance(m) < Allowance(n)
    <3>1. n.calls \in 0..MaxCalls /\ MaxCalls \in Nat
      BY <1>1, ProbeAssumption DEF Processes
    <3> HIDE DEF deg, m
    <3> QED
      BY <2>1, <2>2, <3>1 DEF Allowance, Calling
  <2> QED
    BY <1>1, <1>7, <2>1, <2>3, <2>4, WithinShrinks DEF Busy
<1> QED
  BY <1>3, <1>5, <1>6, <1>7

(* A change of stage.                                                        *)
LEMMA StageShrinks ==
  ASSUME NEW n, NEW m, Stage(m) < Stage(n), ~Busy(m)
  PROVE  Current(m) /\ Nearer(m, n)
BY DEF Current, Nearer

LEMMA BailShrinks ==
  ASSUME IInv, NEW q \in Procs, proc[q].pc \notin {"exited", "dead"}, NEW code, Bail(q, code)
  PROVE  Current(proc'[q]) /\ Nearer(proc'[q], proc[q])
<1>1. proc'[q] = Exits(proc[q], code)
  BY DEF IInv, Bail, Becomes
<1> QED
  BY <1>1, ExitShrinks

(* A step that only moves on in the code.                                    *)
LEMMA Moved ==
  ASSUME IInv, IInv', NEW q \in Procs, NEW to, Goes(q, to)
  PROVE  /\ proc[q] \in Processes /\ proc'[q] \in Processes
         /\ proc'[q].pc = to /\ proc'[q].probe = proc[q].probe
         /\ proc'[q].results = proc[q].results /\ proc'[q].only = proc[q].only
         /\ proc'[q].tries = proc[q].tries /\ proc'[q].calls = proc[q].calls
         /\ proc'[q].degraded = proc[q].degraded
<1>1. proc[q] \in Processes /\ proc'[q] \in Processes
  BY DEF IInv
<1>2. proc'[q] = [proc[q] EXCEPT !.pc = to]
  BY DEF IInv, Goes, Becomes
<1> QED
  BY <1>1, <1>2 DEF Processes

LEMMA TimesOutShrinks ==
  ASSUME IInv, IInv', NEW q \in Procs, Current(proc[q]), TimesOut(q)
  PROVE  Current(proc'[q]) /\ Nearer(proc'[q], proc[q])
<1> DEFINE n == proc[q]
           m == proc'[q]
<1>1. PICK pc \in {"killed", "held"} : Goes(q, pc)
  BY DEF TimesOut
<1>2. n.pc = "call"
  BY DEF TimesOut, At
<1>3. /\ n \in Processes /\ m \in Processes /\ m.pc = pc /\ m.probe = n.probe
      /\ m.results = n.results /\ m.only = n.only
      /\ m.tries = n.tries /\ m.calls = n.calls /\ m.degraded = n.degraded
  BY <1>1, Moved
<1> HIDE DEF n, m
<1>4. n.calls \in 0..MaxCalls /\ MaxCalls \in Nat
  BY <1>3, ProbeAssumption DEF Processes
<1>5. Stage(m) = Stage(n)
  BY <1>2, <1>3 DEF Stage, InSuite, Locking, Calling
<1>6. Allowance(m) < Allowance(n)
  BY <1>2, <1>3, <1>4 DEF Allowance
<1>7. Busy(m) => Busy(n)
  BY <1>2, <1>3 DEF Busy, Calling
<1>8. Current(n)
  BY DEF n
<1>9. Current(m) /\ Nearer(m, n)
  BY <1>3, <1>5, <1>6, <1>7, <1>8, WithinShrinks
<1> QED
  BY <1>9 DEF n, m

(* A process that takes another turn has one less; the last one exits.       *)
LEMMA RetryShrinks ==
  ASSUME IInv, IInv', NEW q \in Procs, proc[q].pc \in {"readBack", "reclaim"}, Retry(q)
  PROVE  Current(proc'[q]) /\ Nearer(proc'[q], proc[q])
<1> DEFINE n == proc[q]
           m == proc'[q]
<1>1. n \in Processes /\ m \in Processes
  BY DEF IInv
<1>2. m = IF n.tries + 1 < MaxTries THEN [n EXCEPT !.pc = "create", !.tries = @ + 1]
          ELSE Exits(n, "2")
  BY DEF IInv, Retry, Becomes
<1>3. CASE m = Exits(n, "2")
  BY <1>3, ExitShrinks
<1>4. CASE m = [n EXCEPT !.pc = "create", !.tries = @ + 1]
  <2>1. /\ m.pc = "create" /\ m.tries = n.tries + 1
        /\ m.only = n.only /\ m.results = n.results
    BY <1>1, <1>4 DEF Processes
  <2> HIDE DEF n, m
  <2>2. Stage(m) = 3 /\ Stage(n) = 3 /\ ~Busy(m)
    <3>1. n.pc \in {"readBack", "reclaim"}
      BY DEF n
    <3> QED
      BY <2>1, <3>1, Stages DEF Locking, Busy, Calling
  <2>3. n.tries \in 0..3 /\ m.tries \in 0..3
    BY <1>1 DEF Processes, MaxTries
  <2>4. Allowance(m) < Allowance(n)
    <3>1. n.pc \in {"readBack", "reclaim"}
      BY DEF n
    <3> QED
      BY <2>1, <2>3, <3>1 DEF Allowance, MaxTries
  <2>5. Undone(m) = Undone(n)
    BY <2>1 DEF Undone
  <2>6. Current(m) /\ Nearer(m, n)
    BY <1>1, <2>2, <2>4, <2>5, AllowanceType DEF Current, Nearer
  <2> QED
    BY <2>6 DEF n, m
<1> QED
  BY <1>2, <1>3, <1>4

(* The protocol of the lock file.                                            *)
LEMMA LockShrinks ==
  ASSUME IInv, IInv', NEW q \in Procs,
         Create(q) \/ Fill(q) \/ FillFails(q) \/ ReadBack(q) \/ Judge(q) \/ Reclaim(q)
  PROVE  Current(proc'[q]) /\ Nearer(proc'[q], proc[q])
<1> DEFINE n == proc[q]
           m == proc'[q]
<1>1. n \in Processes /\ m \in Processes
  BY DEF IInv
<1>2. ASSUME NEW to, Goes(q, to),
             \/ n.pc = "create" /\ to \in {"fill", "judge"}
             \/ n.pc = "fill" /\ to = "readBack"
             \/ n.pc = "judge" /\ to = "reclaim"
      PROVE  Current(m) /\ Nearer(m, n)
  <2>1. m.pc = to /\ m.results = n.results /\ m.only = n.only /\ m.tries = n.tries
    BY <1>2, Moved
  <2>2. n.tries \in 0..3
    BY <1>1 DEF Processes, MaxTries
  <2> HIDE DEF n, m
  <2>3. Stage(m) = 3 /\ Stage(n) = 3 /\ ~Busy(m)
    BY <1>2, <2>1, Stages DEF Locking, Busy, Calling
  <2>4. Allowance(m) < Allowance(n)
    BY <1>2, <2>1, <2>2 DEF Allowance, MaxTries
  <2>5. Undone(m) = Undone(n)
    BY <2>1 DEF Undone
  <2> QED
    BY <1>1, <2>3, <2>4, <2>5, AllowanceType DEF Current, Nearer
<1>3. CASE Create(q)
  BY <1>2, <1>3 DEF Create, At
<1>4. CASE Fill(q)
  BY <1>2, <1>4 DEF Fill, At
<1>5. CASE FillFails(q)
  BY <1>5, BailShrinks DEF FillFails, At
<1>6. CASE ReadBack(q)
  <2>1. CASE Retry(q)
    BY <1>6, <2>1, RetryShrinks DEF ReadBack, At
  <2>2. ASSUME NEW live \in BOOLEAN, NEW only \in SUBSET Ids,
               Becomes(q, [n EXCEPT !.pc = "loop", !.holds = TRUE, !.tries = 0,
                                    !.live = live, !.only = only])
        PROVE  Current(m) /\ Nearer(m, n)
    <3>1. m.pc = "loop" /\ n.pc = "readBack"
      BY <1>1, <1>6, <2>2 DEF IInv, Becomes, Processes, ReadBack, At
    <3> HIDE DEF n, m
    <3>2. Stage(m) = 2 /\ Stage(n) = 3 /\ ~Busy(m)
      BY <3>1, Stages DEF InSuite, Locking, Busy, Calling
    <3> QED
      BY <3>2, StageShrinks
  <2> QED
    BY <1>6, <2>1, <2>2 DEF ReadBack
<1>7. CASE Judge(q)
  <2>1. CASE Bail(q, "4")
    BY <1>7, <2>1, BailShrinks DEF Judge, At
  <2>2. CASE Goes(q, "reclaim")
    BY <1>2, <1>7, <2>2 DEF Judge, At
  <2> QED
    BY <1>7, <2>1, <2>2 DEF Judge
<1>8. CASE Reclaim(q)
  BY <1>8, RetryShrinks DEF Reclaim, At
<1> QED
  BY <1>3, <1>4, <1>5, <1>6, <1>7, <1>8

(* The next probe of the suite, or one that is skipped.                      *)
LEMMA NextProbeShrinks ==
  ASSUME IInv, IInv', NEW q \in Procs, NextProbe(q)
  PROVE  Current(proc'[q]) /\ Nearer(proc'[q], proc[q])
<1> DEFINE n == proc[q]
           m == proc'[q]
<1>1. n \in Processes /\ m \in Processes /\ n.pc = "loop"
  BY DEF IInv, NextProbe, At
<1>2. PICK i \in Undone(n) :
        m = IF LiveProbe(i) /\ ~n.live
            THEN [n EXCEPT !.results[i] = "skip"]
            ELSE [n EXCEPT !.pc = "probe", !.probe = i, !.calls = 0, !.degraded = FALSE, !.rests = {}]
  BY DEF IInv, NextProbe, Becomes, Left, Undone
<1>3. CASE m = [n EXCEPT !.results[i] = "skip"]
  <2>1. /\ m.pc = "loop" /\ m.only = n.only
        /\ m.results = [n.results EXCEPT ![i] = "skip"]
    BY <1>1, <1>3 DEF Processes
  <2>2. n.results \in [Ids -> Status \cup {"none"}] /\ n.only \subseteq Ids
    BY <1>1 DEF Processes
  <2> HIDE DEF n, m
  <2>3. Undone(m) \subseteq Undone(n) /\ i \notin Undone(m)
    BY <2>1, <2>2 DEF Undone
  <2>4. Stage(m) = Stage(n) /\ ~Busy(m)
    BY <1>1, <2>1, Stages DEF InSuite, Busy, Calling
  <2>5. Current(m) /\ Nearer(m, n)
    BY <2>3, <2>4 DEF Current, Nearer
  <2> QED
    BY <2>5 DEF n, m
<1>4. CASE m = [n EXCEPT !.pc = "probe", !.probe = i, !.calls = 0, !.degraded = FALSE, !.rests = {}]
  <2>1. /\ m.pc = "probe" /\ m.only = n.only /\ m.results = n.results /\ m.probe = i
        /\ m.calls = 0 /\ ~m.degraded
    BY <1>1, <1>4 DEF Processes
  <2> HIDE DEF n, m
  <2>2. Undone(m) = Undone(n)
    BY <2>1 DEF Undone
  <2>3. Stage(m) = Stage(n)
    BY <1>1, <2>1, Stages DEF InSuite
  <2>4. Allowance(m) < Allowance(n)
    BY <1>1, <2>1, ProbeAssumption DEF Allowance
  <2>5. Current(m) /\ Nearer(m, n)
    BY <1>1, <2>1, <2>2, <2>3, <2>4, AllowanceType DEF Current, Nearer
  <2> QED
    BY <2>5 DEF n, m
<1> QED
  BY <1>2, <1>3, <1>4

(* What a probe does before it returns.                                      *)
LEMMA ProbeShrinks ==
  ASSUME IInv, IInv', NEW q \in Procs, Current(proc[q]),
         Call(q) \/ CachedHelp(q) \/ FramingBreak(q) \/ Stream(q) \/ StreamEnds(q)
  PROVE  Current(proc'[q]) /\ Nearer(proc'[q], proc[q])
<1> DEFINE n == proc[q]
           m == proc'[q]
<1>1. n \in Processes /\ m \in Processes
  BY DEF IInv
<1>2. n.calls \in 0..MaxCalls /\ MaxCalls \in Nat
  BY <1>1, ProbeAssumption DEF Processes
<1>3. n.pc = "probe" => n.probe # 0
  BY DEF IInv, Sound, Ids
<1>4. ASSUME m.probe = n.probe, m.results = n.results, m.only = n.only, Allowance(m) < Allowance(n),
             \/ n.pc = "probe" /\ m.pc \in {"call", "probe", "stream"}
             \/ n.pc = "stream" /\ m.pc = "probe"
      PROVE  Current(m) /\ Nearer(m, n)
  <2> HIDE DEF n, m
  <2>1. Stage(m) = 2 /\ Stage(n) = 2
    BY <1>3, <1>4, Stages DEF InSuite, Calling
  <2>2. Busy(n)
    BY <1>4 DEF Busy
  <2>3. Current(n)
    BY DEF n
  <2> QED
    BY <1>1, <1>4, <2>1, <2>2, <2>3, WithinShrinks
<1>5. CASE Call(q)
  <2>1. PICK declared \in Declared : Spawn(q, [n EXCEPT !.calls = @ + 1], declared)
    BY <1>5 DEF Call
  <2>2. n.pc = "probe" /\ n.calls < MaxCalls
    BY <1>5 DEF Call, At
  <2> DEFINE k == [n EXCEPT !.calls = @ + 1]
  <2>3. k.probe = n.probe /\ k.results = n.results /\ k.only = n.only /\ k.degraded = n.degraded
        /\ k.calls = n.calls + 1
    BY <1>1 DEF Processes
  <2>4. m = [k EXCEPT !.pc = "call", !.declared = declared,
                      !.alive = @ \cup {"current"}, !.tracked = @ \cup {"current"}]
    BY <2>1 DEF IInv, Spawn, Becomes
  <2>5. /\ m.pc = "call" /\ m.probe = n.probe /\ m.results = n.results /\ m.only = n.only
        /\ m.degraded = n.degraded /\ m.calls = n.calls + 1
    BY <1>1, <2>3, <2>4 DEF Processes
  <2>6. Allowance(m) < Allowance(n)
    <3> HIDE DEF n, m
    <3> QED
      BY <1>2, <2>2, <2>5 DEF Allowance
  <2> QED
    BY <1>4, <2>2, <2>5, <2>6
<1>6. CASE CachedHelp(q)
  <2>1. n.pc = "probe" /\ n.calls < MaxCalls
    BY <1>6 DEF CachedHelp, At
  <2>2. PICK rests : m = [n EXCEPT !.calls = @ + 1, !.rests = rests]
    BY <1>6 DEF IInv, CachedHelp, Becomes
  <2>3. /\ m.pc = "probe" /\ m.probe = n.probe /\ m.results = n.results /\ m.only = n.only
        /\ m.degraded = n.degraded /\ m.calls = n.calls + 1
    BY <1>1, <2>1, <2>2 DEF Processes
  <2>4. Allowance(m) < Allowance(n)
    <3> HIDE DEF n, m
    <3> QED
      BY <1>2, <2>1, <2>3 DEF Allowance
  <2> QED
    BY <1>4, <2>1, <2>3, <2>4
<1>7. CASE FramingBreak(q)
  <2>1. n.pc = "probe" /\ ~n.degraded
    BY <1>7 DEF FramingBreak, At
  <2>2. m = [n EXCEPT !.degraded = TRUE]
    BY <1>7 DEF IInv, FramingBreak, Becomes
  <2>3. /\ m.pc = "probe" /\ m.probe = n.probe /\ m.results = n.results /\ m.only = n.only
        /\ m.degraded /\ m.calls = n.calls
    BY <1>1, <2>1, <2>2 DEF Processes
  <2>4. Allowance(m) < Allowance(n)
    <3> HIDE DEF n, m
    <3> QED
      BY <1>2, <2>1, <2>3 DEF Allowance
  <2> QED
    BY <1>4, <2>1, <2>3, <2>4
<1>8. CASE Stream(q)
  <2>1. n.pc = "probe" /\ n.calls < MaxCalls
    BY <1>8 DEF Stream, At
  <2>2. m = [n EXCEPT !.pc = "stream", !.calls = @ + 1]
    BY <1>8 DEF IInv, Stream, Becomes
  <2>3. /\ m.pc = "stream" /\ m.probe = n.probe /\ m.results = n.results /\ m.only = n.only
        /\ m.degraded = n.degraded /\ m.calls = n.calls + 1
    BY <1>1, <2>2 DEF Processes
  <2>4. Allowance(m) < Allowance(n)
    <3> HIDE DEF n, m
    <3> QED
      BY <1>2, <2>1, <2>3 DEF Allowance
  <2> QED
    BY <1>4, <2>1, <2>3, <2>4
<1>9. CASE StreamEnds(q)
  <2>1. n.pc = "stream"
    BY <1>9 DEF StreamEnds, At
  <2>2. CASE Bail(q, "2")
    BY <2>1, <2>2, BailShrinks
  <2>3. CASE Goes(q, "probe")
    <3>1. /\ m.pc = "probe" /\ m.probe = n.probe /\ m.results = n.results /\ m.only = n.only
          /\ m.degraded = n.degraded /\ m.calls = n.calls
      BY <2>3, Moved
    <3>2. Allowance(m) < Allowance(n)
      <4> HIDE DEF n, m
      <4> QED
        BY <1>2, <2>1, <3>1 DEF Allowance
    <3> QED
      BY <1>4, <2>1, <3>1, <3>2
  <2> QED
    BY <1>9, <2>2, <2>3 DEF StreamEnds
<1> QED
  BY <1>5, <1>6, <1>7, <1>8, <1>9

(* A probe that returns or throws has its result, and is not run again.      *)
LEMMA RecordsShrinks ==
  ASSUME IInv, IInv', NEW q \in Procs, Current(proc[q]), Returns(q) \/ Throws(q)
  PROVE  Current(proc'[q]) /\ Nearer(proc'[q], proc[q])
<1> DEFINE n == proc[q]
           m == proc'[q]
<1>1. n \in Processes /\ m \in Processes /\ n.pc = "probe"
  BY DEF IInv, Returns, Throws, At
<1>2. PICK status : status # "none" /\ Records(q, status)
  BY ProbeAssumption DEF Returns, Throws
<1>3. m = [n EXCEPT !.pc = "loop", !.results[n.probe] = status,
                    !.calls = 0, !.degraded = FALSE, !.rests = {}]
  BY <1>2 DEF IInv, Records, Becomes
<1>4. m.pc = "loop" /\ m.only = n.only /\ m.results = [n.results EXCEPT ![n.probe] = status]
  BY <1>1, <1>3 DEF Processes
<1>5. n.results \in [Ids -> Status \cup {"none"}] /\ n.only \subseteq Ids
  BY <1>1 DEF Processes
<1>6. Current(n)
  OBVIOUS
<1> HIDE DEF n, m
<1>7. n.probe \in Undone(n)
  BY <1>1, <1>6 DEF Current, Busy
<1>8. Undone(m) \subseteq Undone(n) /\ n.probe \notin Undone(m)
  BY <1>2, <1>4, <1>5, <1>7 DEF Undone
<1>9. Stage(m) = Stage(n) /\ ~Busy(m)
  BY <1>1, <1>4, Stages DEF InSuite, Busy, Calling
<1>10. Current(m) /\ Nearer(m, n)
  BY <1>7, <1>8, <1>9 DEF Current, Nearer
<1> QED
  BY <1>10 DEF n, m

(* Every step of a process.                                                  *)
LEMMA StepShrinks ==
  ASSUME IInv, IInv', NEW q \in Procs, Current(proc[q]), Start(q) \/ Step(q) \/ Signal(q) \/ Crash(q)
  PROVE  Current(proc'[q]) /\ Nearer(proc'[q], proc[q])
<1> DEFINE n == proc[q]
           m == proc'[q]
<1>1. n \in Processes /\ m \in Processes
  BY DEF IInv
<1>2. CASE Start(q)
  <2>1. n.pc = "off"
    BY <1>2 DEF Start, At
  <2>2. m = [Blank EXCEPT !.pc = "call", !.declared = "nothing",
                          !.alive = @ \cup {"current"}, !.tracked = @ \cup {"current"}]
    BY <1>2 DEF IInv, Start, Spawn, Becomes
  <2>3. m.pc = "call" /\ m.probe = 0
    BY <2>2 DEF Blank
  <2> HIDE DEF n, m
  <2>4. Stage(m) = 4 /\ Stage(n) = 5 /\ ~Busy(m)
    BY <2>1, <2>3, Stages DEF Calling, Busy
  <2>5. Current(m) /\ Nearer(m, n)
    BY <2>4, StageShrinks
  <2> QED
    BY <2>5 DEF n, m
<1>3. CASE CallFails(q) \/ Closes(q) \/ Watchdog(q)
  BY <1>3, SettleShrinks DEF CallFails, Closes, Watchdog, At, Calling
<1>4. CASE TimesOut(q)
  BY <1>4, TimesOutShrinks
<1>5. CASE Create(q) \/ Fill(q) \/ FillFails(q) \/ ReadBack(q) \/ Judge(q) \/ Reclaim(q)
  BY <1>5, LockShrinks
<1>6. CASE NextProbe(q)
  BY <1>6, NextProbeShrinks
<1>7. CASE Call(q) \/ CachedHelp(q) \/ FramingBreak(q) \/ Stream(q) \/ StreamEnds(q)
  BY <1>7, ProbeShrinks
<1>8. CASE Returns(q) \/ Throws(q)
  BY <1>8, RecordsShrinks
<1>9. CASE EndSuite(q)
  <2>1. m.pc = "report" /\ n.pc = "loop"
    BY <1>1, <1>9 DEF IInv, EndSuite, Becomes, At, Processes
  <2> HIDE DEF n, m
  <2>2. Stage(m) = 1 /\ Stage(n) = 2 /\ ~Busy(m)
    BY <2>1, Stages DEF InSuite, Busy, Calling
  <2>3. Current(m) /\ Nearer(m, n)
    BY <2>2, StageShrinks
  <2> QED
    BY <2>3 DEF n, m
<1>10. CASE Refuse(q) \/ NoReport(q) \/ CheckBaseline(q) \/ Signal(q)
  BY <1>10, BailShrinks DEF Refuse, NoReport, CheckBaseline, Signal, At, Awaiting, Calling
<1>11. CASE UpdateBaseline(q)
  <2>1. n.pc = "report" /\ m = Exits(n, ExitCode(q, FALSE))
    BY <1>11 DEF IInv, UpdateBaseline, Becomes, At
  <2> QED
    BY <2>1, ExitShrinks
<1>12. CASE Crash(q)
  <2>1. m = [Blank EXCEPT !.pc = "dead"]
    BY <1>12 DEF IInv, Crash, Becomes
  <2>2. m.pc \in {"exited", "dead"}
    BY <2>1 DEF Blank
  <2>3. n.pc \notin {"exited", "dead"}
    BY <1>12 DEF Crash, Running, Gone
  <2> QED
    BY <2>2, <2>3, OutShrinks
<1> QED
  BY <1>2, <1>3, <1>4, <1>5, <1>6, <1>7, <1>8, <1>9, <1>10, <1>11, <1>12 DEF Step

(* Every run draws nearer to its end with each step that it takes, and no    *)
(* other process can set it back: the part of SuiteEnds that is not fairness. *)
THEOREM ShrinkSafety == Spec => RunsShrink
<1> DEFINE Live    == \A q \in Procs : Current(proc[q])
           Shrinks == \A q \in Procs : proc'[q] # proc[q] => Nearer(proc'[q], proc[q])
<1>1. Init => Live
  BY DEF Init, Blank, Current, Busy, Calling
<1>2. IInv /\ IInv' /\ Live /\ [Next]_vars => Live' /\ [Shrinks]_vars
  <2> SUFFICES ASSUME IInv, IInv', Live, [Next]_vars PROVE Live' /\ [Shrinks]_vars
    OBVIOUS
  <2>1. CASE UNCHANGED vars
    BY <2>1 DEF vars
  <2>2. CASE Next
    <3>1. PICK q \in Procs : Start(q) \/ Step(q) \/ Signal(q) \/ Crash(q)
      BY <2>2 DEF Next
    <3>2. Current(proc'[q]) /\ Nearer(proc'[q], proc[q])
      BY <3>1, StepShrinks
    <3>3. \A r \in Procs \ {q} : proc'[r] = proc[r]
      <4>1. PICK m : Becomes(q, m)
        BY <3>1, StepRespects DEF Respects
      <4> QED
        BY <4>1 DEF IInv, Becomes
    <3> QED
      BY <3>2, <3>3
  <2> QED
    BY <2>1, <2>2
<1>3. Spec => []IInv
  BY Invariant
<1> QED
  BY <1>1, <1>2, <1>3, PTL DEF Spec, RunsShrink
=============================================================================
