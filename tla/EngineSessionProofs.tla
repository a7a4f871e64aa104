------------------------ MODULE EngineSessionProofs ------------------------
(***************************************************************************)
(* What a session of the engine promises whatever the bounds on its turns, *)
(* its lines and its pipe.  The invariant the proofs rest on adds to the   *)
(* types and to the registry's ownership that the engine owes no turn it   *)
(* was not sent, that nobody joins the group of an engine that never ran,  *)
(* and what 'close' leaves behind: no engine, nobody who holds its pipes,  *)
(* no unread line, no timer.  A session ends once, and nothing starts      *)
(* again.  A member of the group that let go of the pipes may outlive      *)
(* 'close', unregistered and without a signal.                             *)
(***************************************************************************)
EXTENDS EngineSession, SequenceTheorems, FiniteSetTheorems, FunctionTheorems, TLAPS

ClosedAtRest ==
  closed => /\ child \in {"unborn", "gone"} /\ "piped" \notin kin /\ pipe = <<>>
            /\ ~watching /\ ~initTimer
            /\ closing \notin {"waiting", "stray"}

(* What stop() may change keeps its type, whatever it finds. *)
StopTypes ==
  /\ watching \in BOOLEAN /\ initTimer \in BOOLEAN
  /\ registered \in BOOLEAN /\ signal \in {"none", "sent"}

IInv ==
  TypeOK /\ owed <= sent /\ (kin # {} => Receipt) /\ NothingUnowned /\ ClosedAtRest

(* stop() leaves no timer and no group that nobody owns. *)
LEMMA StopKeeps ==
  ASSUME TypeOK, NothingUnowned, Stop
  PROVE  /\ StopTypes'
         /\ ~watching' /\ ~initTimer'
         /\ GroupRuns => registered' \/ signal' = "sent"
<1>1. CASE Receipt /\ ~closed
  BY <1>1 DEF TypeOK, NothingUnowned, Stop, StopTypes, Kill
<1>2. CASE ~(Receipt /\ ~closed)
  BY <1>2 DEF TypeOK, NothingUnowned, Stop, StopTypes
<1> QED
  BY <1>1, <1>2

(* A line taken from the pipe leaves lines. *)
LEMMA TailOfLines ==
  ASSUME TypeOK, pipe # <<>>
  PROVE  /\ Head(pipe) \in Lines
         /\ Tail(pipe) \in Seq(Lines)
         /\ Len(Tail(pipe)) <= MaxPipe
<1>1. pipe \in Seq(Lines) /\ Len(pipe) <= MaxPipe
  BY DEF TypeOK
<1>2. Len(Tail(pipe)) = Len(pipe) - 1
  BY <1>1, HeadTailProperties
<1> QED
  BY <1>1, <1>2, HeadTailProperties, BoundsAssumption

(* A line read from stdout *)
LEMMA ReadLineKeeps ==
  ASSUME IInv, ReadLine
  PROVE  IInv'
<1> USE DEF IInv
<1>1. /\ ~closed /\ pipe # <<>> /\ quiet' = FALSE /\ pipe' = Tail(pipe)
      /\ UNCHANGED <<child, kin, owed, spoke, said, closing>>
  BY DEF ReadLine
<1>2. /\ sent' = sent /\ draining' = draining /\ finished' = finished /\ closed' = closed
      /\ StopTypes' /\ initSeen' \in BOOLEAN /\ gateFailed' \in BOOLEAN
      /\ expecting' \in BOOLEAN /\ pending' \in 0 .. sent
      /\ emits' \subseteq Events
      /\ GroupRuns => registered' \/ signal' = "sent"
  <2>1. CASE \E e \in {{}, {"event"}, {"dropped"}} : Passes(e)
    BY <2>1 DEF Passes, TypeOK, NothingUnowned, StopTypes, fields, Events
  <2>2. CASE HandleReceipt("init") \/ HandleReceipt("badInit")
    <3>1. CASE FailGate /\ HandleReceipt("badInit")
      <4>1. Stop
        BY <3>1 DEF FailGate
      <4> QED
        BY <3>1, <4>1, StopKeeps DEF FailGate, HandleReceipt, TypeOK, Events
    <3>2. CASE HandleReceipt("init")
      BY <3>2 DEF HandleReceipt, Delivered, TypeOK, NothingUnowned, StopTypes, Events
    <3> QED
      BY <2>2, <3>1, <3>2 DEF HandleReceipt
  <2>3. CASE HandleResult /\ ~gateFailed
    <3>1. /\ pending' \in 0 .. sent
          /\ UNCHANGED <<signal, sent, draining, initSeen, gateFailed, finished, closed,
                         registered>>
      BY <2>3 DEF HandleResult, TypeOK
    <3>2. expecting' \in BOOLEAN /\ watching' \in BOOLEAN /\ initTimer' \in BOOLEAN
      BY <2>3 DEF HandleResult, TypeOK
    <3>3. emits' \subseteq Events
      BY <2>3 DEF HandleResult, Delivered, Events
    <3> QED
      BY <3>1, <3>2, <3>3 DEF TypeOK, NothingUnowned, StopTypes
  <2>4. CASE ReadFails
    <3>1. Stop
      BY <2>4 DEF ReadFails
    <3> QED
      BY <2>4, <3>1, StopKeeps DEF ReadFails, TypeOK, fields, Events
  <2> QED
    BY <2>1, <2>2, <2>3, <2>4 DEF ReadLine, HandleResult, Delivered
<1>3. /\ pipe' \in Seq(Lines) /\ Len(pipe') <= MaxPipe
  BY <1>1, TailOfLines
<1>4. TypeOK'
  BY <1>1, <1>2, <1>3 DEF TypeOK, StopTypes
<1> QED
  BY <1>1, <1>2, <1>4 DEF NothingUnowned, GroupRuns, Receipt, ClosedAtRest

(* Timers fire only in a session that is open. *)
LEMMA TimersKeep ==
  ASSUME IInv, Stall \/ InitTimeout \/ CloseTimeout \/ StopCalled
  PROVE  IInv'
<1> USE DEF IInv
<1>1. /\ ~closed /\ closed' = closed /\ child' = child /\ kin' = kin /\ Stop
      /\ owed' = owed /\ sent' = sent
  BY DEF Stall, InitTimeout, CloseTimeout, StopCalled, FailGate, ClosedAtRest, fields, engine
<1>2. TypeOK'
  BY <1>1, StopKeeps
     DEF Stall, InitTimeout, CloseTimeout, StopCalled, FailGate, StopTypes, TypeOK, fields,
         engine, Events
<1> QED
  BY <1>1, <1>2, StopKeeps DEF NothingUnowned, GroupRuns, Receipt, ClosedAtRest

(* The supervisor's other calls *)
LEMMA CallsKeep ==
  ASSUME IInv, Start \/ Send \/ Finish \/ Close \/ Resume \/ Pause \/ KillAll
  PROVE  IInv'
<1> USE DEF IInv, TypeOK, NothingUnowned, GroupRuns, Receipt, ClosedAtRest, engine, fields,
            timers, Events
<1>1. CASE Start
  <2>1. PICK outcome \in {"running", "refused", "unborn"} :
          child' = outcome /\ registered' = (outcome = "running")
    BY <1>1 DEF Start
  <2>2. /\ kin = {} /\ kin' = kin
        /\ registered' \in BOOLEAN /\ (child' = "running" => registered')
    BY <1>1, <2>1 DEF Start
  <2>3. child' \in Children /\ emits' = {} /\ ~closed
    BY <1>1, <2>1 DEF Start, Children
  <2> QED
    BY <1>1, <2>2, <2>3 DEF Start
<1>2. CASE Send
  <2>1. /\ sent' \in 0 .. MaxSent /\ pending' \in 0 .. sent' /\ owed' \in 0 .. MaxSent
        /\ owed' <= sent'
    BY <1>2, BoundsAssumption DEF Send
  <2>2. /\ expecting' \in BOOLEAN /\ quiet' \in BOOLEAN /\ watching' \in BOOLEAN
        /\ initTimer' \in BOOLEAN /\ emits' = {} /\ ~closed
    BY <1>2, Zenon DEF Send, Armed
  <2> QED
    BY <1>2, <2>1, <2>2 DEF Send
<1>3. CASE Finishing /\ (Finish \/ Close)
  <2>1. /\ finished' \in BOOLEAN /\ expecting' \in BOOLEAN /\ quiet' \in BOOLEAN
        /\ watching' \in BOOLEAN /\ (closed => watching' = watching)
    BY <1>3, Zenon DEF Finishing, Armed, Finish, Close
  <2> QED
    BY <1>3, <2>1 DEF Finish, Close
<1>4. CASE Close /\ UNCHANGED <<finished, expecting, quiet, watching>>
  BY <1>4 DEF Close
<1>5. CASE Resume
  <2>1. watching' \in BOOLEAN /\ (closed => ~watching')
    BY <1>5, Zenon DEF Resume, Armed
  <2>2. TypeOK'
    BY <1>5, <2>1 DEF Resume
  <2> QED
    BY <1>5, <2>1, <2>2 DEF Resume
<1>6. CASE Pause
  <2>1. watching' \in BOOLEAN /\ (closed => ~watching')
    BY <1>6, Zenon DEF Pause
  <2>2. /\ draining' \in BOOLEAN /\ emits' = {}
        /\ UNCHANGED <<child, kin, owed, spoke, said, pipe, signal, sent, pending, expecting,
                       initSeen, gateFailed, finished, closed, quiet, initTimer, closing,
                       registered>>
    BY <1>6 DEF Pause
  <2> QED
    <3>1. TypeOK'
      BY <2>1, <2>2
    <3> QED
      BY <2>1, <2>2, <3>1
<1>7. CASE KillAll
  <2>1. TypeOK'
    BY <1>7 DEF KillAll, Kill
  <2>2. signal' = "sent" /\ UNCHANGED <<child, kin, owed, sent, pipe, closed, watching, initTimer,
                                        closing>>
    BY <1>7 DEF KillAll, Kill
  <2> QED
    BY <2>1, <2>2
<1> QED
  BY <1>1, <1>2, <1>3, <1>4, <1>5, <1>6, <1>7 DEF Finish, Close

(* A line the engine writes *)
LEMMA WritesKeeps ==
  ASSUME IInv, NEW line \in Lines, Writes(line),
         owed' \in 0 .. MaxSent, owed' <= owed, spoke' \in BOOLEAN, said' \in 0 .. MaxSaid
  PROVE  IInv'
<1>1. pipe' \in Seq(Lines) /\ Len(pipe') <= MaxPipe
  BY BoundsAssumption, AppendProperties DEF IInv, TypeOK, Writes
<1>2. TypeOK'
  BY <1>1 DEF IInv, TypeOK, Writes, fields, timers
<1>3. owed' <= sent'
  BY <1>2 DEF IInv, TypeOK, Writes, fields
<1> QED
  BY <1>2, <1>3 DEF IInv, NothingUnowned, GroupRuns, Receipt, ClosedAtRest, Writes, fields,
                    timers

(* The engine's own steps, and those of its group *)
LEMMA EngineKeeps ==
  ASSUME IInv,
         EngineStarts \/ EngineAnswers \/ EngineSays \/ EngineExits \/ EngineSpawns \/ KinEnds
  PROVE  IInv'
<1>1. CASE EngineStarts
  BY <1>1, WritesKeeps DEF EngineStarts, Lines, IInv, TypeOK
<1>2. CASE EngineAnswers
  BY <1>2, WritesKeeps, BoundsAssumption DEF EngineAnswers, Lines, IInv, TypeOK
<1>3. CASE EngineSays
  BY <1>3, WritesKeeps, BoundsAssumption DEF EngineSays, Lines, IInv, TypeOK
<1>4. CASE EngineExits
  BY <1>4 DEF EngineExits, IInv, TypeOK, NothingUnowned, GroupRuns, Receipt, ClosedAtRest, fields,
              timers, Children
<1>5. CASE EngineSpawns \/ KinEnds
  <2>1. /\ kin' \subseteq Kin /\ (kin' # {} => Receipt)
        /\ GroupRuns' => GroupRuns
        /\ "piped" \in kin' => "piped" \in kin \/ child = "running"
        /\ UNCHANGED <<child, owed, spoke, said, pipe, signal, fields, timers, registered>>
        /\ emits' = {}
    BY <1>5 DEF EngineSpawns, KinEnds, IInv, TypeOK, GroupRuns, Receipt, fields, Kin
  <2> QED
    BY <2>1 DEF IInv, TypeOK, NothingUnowned, Receipt, ClosedAtRest, fields, timers
<1> QED
  BY <1>1, <1>2, <1>3, <1>4, <1>5

(* Every step keeps the invariant. *)
LEMMA Inductive == IInv /\ [Next]_vars => IInv'
<1> SUFFICES ASSUME IInv, [Next]_vars PROVE IInv'
  OBVIOUS
<1>1. CASE ReadLine
  BY <1>1, ReadLineKeeps
<1>2. CASE Stall \/ InitTimeout \/ CloseTimeout \/ StopCalled
  BY <1>2, TimersKeep
<1>3. CASE Start \/ Send \/ Finish \/ Close \/ Resume \/ Pause \/ KillAll
  BY <1>3, CallsKeep
<1>4. CASE \/ EngineStarts \/ EngineAnswers \/ EngineSays \/ EngineExits
           \/ EngineSpawns \/ KinEnds
  BY <1>4, EngineKeeps
<1>5. CASE OnClose
  BY <1>5 DEF OnClose, PipesEnded, IInv, TypeOK, NothingUnowned, GroupRuns, Receipt, ClosedAtRest,
              engine, Events
<1>6. CASE ChildError
  BY <1>6 DEF ChildError, IInv, TypeOK, NothingUnowned, GroupRuns, Receipt, ClosedAtRest, engine,
              fields, timers, Events
<1>7. CASE TimePasses
  BY <1>7 DEF TimePasses, IInv, TypeOK, NothingUnowned, GroupRuns, Receipt, ClosedAtRest, engine,
              fields, Events
<1>8. CASE UNCHANGED vars
  BY <1>8 DEF vars, engine, fields, timers, IInv, TypeOK, NothingUnowned, GroupRuns, Receipt,
              ClosedAtRest
<1> QED
  BY <1>1, <1>2, <1>3, <1>4, <1>5, <1>6, <1>7, <1>8 DEF Next, Call

(* The inductive invariant holds in every state. *)
THEOREM Invariant == Spec => []IInv
<1>1. Init => IInv
  <2> SUFFICES ASSUME Init PROVE IInv
    OBVIOUS
  <2>1. /\ owed \in 0 .. MaxSent /\ said \in 0 .. MaxSaid /\ sent \in 0 .. MaxSent
        /\ pending \in 0 .. sent /\ owed <= sent
        /\ pipe \in Seq(Lines) /\ Len(pipe) <= MaxPipe
    BY BoundsAssumption DEF Init
  <2> QED
    BY <2>1 DEF Init, IInv, TypeOK, NothingUnowned, GroupRuns, ClosedAtRest, Children
<1> QED
  BY <1>1, Inductive, PTL DEF Spec

(* The session's fields keep their types whatever the bounds. *)
THEOREM TypeCorrect == Spec => []TypeOK
<1>1. IInv => TypeOK
  BY DEF IInv
<1> QED
  BY <1>1, Invariant, PTL

(* killAll reaches every engine that runs, everyone it started who holds    *)
(* the session's pipes, and until 'close' the rest of its group, whatever   *)
(* was stopped, timed out or failed before: the group is registered, or its *)
(* SIGKILL is on the way.  Nothing is said of a member that let go of the   *)
(* pipes once 'close' has come: the code forgets it.                        *)
THEOREM OwnershipSafety == Spec => []NothingUnowned
<1>1. IInv => NothingUnowned
  BY DEF IInv
<1> QED
  BY <1>1, Invariant, PTL

(* After 'closed' the session emits nothing. *)
THEOREM ClosedSafety == Spec => ClosedIsLast
<1>1. IInv /\ [Next]_vars => [closed => emits' = {}]_vars
  <2> SUFFICES ASSUME IInv, Next, closed PROVE emits' = {}
    OBVIOUS
  <2>1. ~ReadLine /\ ~OnClose /\ ~ChildError
    BY DEF ReadLine, OnClose, ChildError
  <2>2. ~Stall /\ ~InitTimeout
    BY DEF IInv, ClosedAtRest, Stall, InitTimeout
  <2> QED
    BY <2>1, <2>2
       DEF Next, Call, Start, Send, Finish, Close, StopCalled, Resume, Pause, KillAll,
           TimePasses, CloseTimeout, EngineStarts, EngineAnswers, EngineSays, EngineExits,
           EngineSpawns, KinEnds, Writes
<1> QED
  BY <1>1, Invariant, PTL DEF Spec, ClosedIsLast

(* Once the gate has failed, no event, no turn and no further send. *)
THEOREM GateSafety == Spec => GateRefuses
<1>1. [Next]_vars =>
        [gateFailed => emits' \cap {"event", "turn"} = {} /\ sent' = sent]_vars
  <2> SUFFICES ASSUME Next, gateFailed
               PROVE  emits' \cap {"event", "turn"} = {} /\ sent' = sent
    OBVIOUS
  <2>1. CASE ReadLine
    BY <2>1 DEF ReadLine, Passes, HandleReceipt, HandleResult, ReadFails, FailGate, Delivered,
                fields
  <2>2. CASE ~ReadLine
    BY <2>2 DEF Next, Call, Start, Send, Finish, Close, StopCalled, Resume, Pause, KillAll,
           TimePasses, CloseTimeout, EngineStarts, EngineAnswers, EngineSays, EngineExits,
           EngineSpawns, KinEnds, Writes, Stall, InitTimeout, OnClose, ChildError, FailGate, fields, engine
  <2> QED
    BY <2>1, <2>2
<1> QED
  BY <1>1, PTL DEF Spec, GateRefuses

-----------------------------------------------------------------------------
(* The watchdog.  A session that nobody stopped counts at least the turns    *)
(* that the engine still owes and the answers that wait in the pipe, so the  *)
(* answer that takes its count to zero leaves none owed; and it is watched   *)
(* whenever it expects output that its consumer reads.                       *)
Answering(q) == {i \in 1 .. Len(q) : q[i] = "result"}
Answers(q)   == Cardinality(Answering(q))

Unstopped == Receipt /\ ~closed /\ signal = "none"
Watched ==
  Unstopped => /\ ~gateFailed
               /\ owed + Answers(pipe) <= pending
               /\ pending > 0 => expecting
               /\ expecting /\ draining => watching

(* A session without its engine has no turn and no timer.                    *)
Unstarted ==
  ~Receipt => /\ owed = 0 /\ pipe = <<>> /\ pending = 0
              /\ ~expecting /\ ~watching /\ ~initTimer /\ ~gateFailed

WInv ==
  /\ Watched /\ Unstarted
  /\ finished => expecting
  /\ watching => ~closed /\ expecting /\ (draining \/ finished)

LEMMA AnswersFinite ==
  ASSUME NEW q \in Seq(Lines)
  PROVE  IsFiniteSet(Answering(q)) /\ Answers(q) \in Nat
<1>1. IsFiniteSet(1 .. Len(q))
  BY FS_Interval
<1>2. Answering(q) \in SUBSET (1 .. Len(q))
  BY DEF Answering
<1>3. IsFiniteSet(Answering(q))
  BY <1>1, <1>2, FS_Subset
<1> QED
  BY <1>3, FS_CardinalityType DEF Answers

LEMMA NoAnswers == Answers(<<>>) = 0
<1>1. Answering(<<>>) = {}
  BY DEF Answering
<1> QED
  BY <1>1, FS_EmptySet DEF Answers

(* A line that is written adds itself. *)
LEMMA AppendAnswers ==
  ASSUME NEW q \in Seq(Lines), NEW line \in Lines
  PROVE  Answers(Append(q, line)) = IF line = "result" THEN Answers(q) + 1 ELSE Answers(q)
<1> DEFINE n == Len(q) + 1
<1>1. /\ Len(Append(q, line)) = n /\ Append(q, line)[n] = line
      /\ \A i \in 1 .. Len(q) : Append(q, line)[i] = q[i]
  BY AppendProperties
<1>2. Len(q) \in Nat /\ 1 .. n = (1 .. Len(q)) \cup {n} /\ n \notin 1 .. Len(q)
  OBVIOUS
<1>3. n \notin Answering(q)
  BY <1>2 DEF Answering
<1>4. CASE line = "result"
  <2>1. Answering(Append(q, line)) = Answering(q) \cup {n}
    BY <1>1, <1>2, <1>4 DEF Answering
  <2> QED
    BY <1>3, <1>4, <2>1, AnswersFinite, FS_AddElement DEF Answers
<1>5. CASE line # "result"
  <2>1. Answering(Append(q, line)) = Answering(q)
    BY <1>1, <1>2, <1>5 DEF Answering
  <2> QED
    BY <1>5, <2>1 DEF Answers
<1> QED
  BY <1>4, <1>5

(* The first line takes itself away and moves the others by one. *)
LEMMA TailAnswers ==
  ASSUME NEW q \in Seq(Lines), q # <<>>
  PROVE  Answers(q) = IF Head(q) = "result" THEN Answers(Tail(q)) + 1 ELSE Answers(Tail(q))
<1> DEFINE S == Answering(Tail(q))
           T == Answering(q) \ {1}
           f == [i \in S |-> i + 1]
<1>1. /\ Tail(q) \in Seq(Lines) /\ Len(q) \in Nat /\ Len(Tail(q)) = Len(q) - 1
      /\ \A i \in 1 .. Len(Tail(q)) : Tail(q)[i] = q[i + 1]
      /\ Len(q) >= 1 /\ Head(q) = q[1]
  BY HeadTailProperties, EmptySeq
<1>2. IsFiniteSet(S) /\ IsFiniteSet(Answering(q))
  BY <1>1, AnswersFinite
<1>3. f \in Bijection(S, T)
  <2>1. \A i \in S : i \in Nat /\ i + 1 \in T
    BY <1>1 DEF Answering
  <2>2. \A j \in T : j - 1 \in S /\ j = (j - 1) + 1
    BY <1>1 DEF Answering
  <2>3. f \in [S -> T] /\ (\A a, b \in S : f[a] = f[b] => a = b)
    BY <2>1
  <2>4. \A j \in T : \E i \in S : f[i] = j
    BY <2>2
  <2> QED
    BY <2>3, <2>4, Fun_IsBij
<1>4. Cardinality(T) = Answers(Tail(q))
  BY <1>2, <1>3, FS_Bijection, Fun_ExistsBij DEF Answers, ExistsBijection
<1>5. 1 \in Answering(q) <=> Head(q) = "result"
  BY <1>1 DEF Answering
<1>6. Answers(q) \in Nat /\ Cardinality(T) = IF 1 \in Answering(q) THEN Answers(q) - 1 ELSE Answers(q)
  BY <1>2, FS_RemoveElement, FS_CardinalityType DEF Answers
<1> QED
  BY <1>4, <1>5, <1>6

(* Whoever stops an open session that has a group has sent the signal.       *)
LEMMA StopSilences ==
  ASSUME Stop
  PROVE  ~watching' /\ ~initTimer' /\ (Receipt /\ ~closed => signal' = "sent")
  BY DEF Stop, Kill

(* A line read from stdout: a result is counted down unless the input is     *)
(* closed, and whatever fails the session stops it.                          *)
LEMMA ReadLineWatches ==
  ASSUME IInv, WInv, ReadLine
  PROVE  WInv'
<1>1. /\ ~closed /\ pipe # <<>> /\ pipe' = Tail(pipe) /\ child' = child /\ owed' = owed
      /\ draining' = draining /\ finished' = finished /\ closed' = closed /\ sent' = sent
  BY DEF ReadLine, Passes, HandleReceipt, HandleResult, ReadFails, fields
<1>2. /\ pipe \in Seq(Lines) /\ Tail(pipe) \in Seq(Lines) /\ owed \in Nat /\ pending \in Nat
      /\ signal \in {"none", "sent"}
  BY <1>1, TailOfLines DEF IInv, TypeOK
<1>3. /\ Answers(pipe) = IF Head(pipe) = "result" THEN Answers(pipe') + 1 ELSE Answers(pipe')
      /\ Answers(pipe') \in Nat
  BY <1>1, <1>2, TailAnswers, AnswersFinite
<1>4. Receipt
  BY <1>1 DEF WInv, Unstarted
<1>5. Unstarted'
  BY <1>1, <1>4 DEF Unstarted, Receipt
<1>6. CASE Head(pipe) # "result" /\ UNCHANGED <<signal, fields, watching, initTimer>>
  BY <1>1, <1>2, <1>3, <1>5, <1>6 DEF WInv, Watched, Unstopped, Receipt, fields
<1>7. CASE /\ Head(pipe) # "result"
           /\ UNCHANGED <<signal, gateFailed, watching, pending, expecting>>
  BY <1>1, <1>2, <1>3, <1>5, <1>7 DEF WInv, Watched, Unstopped, Receipt
<1>8. CASE Stop /\ expecting' = expecting
  BY <1>1, <1>4, <1>5, <1>8, StopSilences DEF WInv, Watched, Unstopped
<1>9. CASE HandleResult /\ Head(pipe) = "result"
  <2>1. CASE gateFailed
    BY <1>1, <1>5, <1>9, <2>1
       DEF HandleResult, Passes, fields, WInv, Watched, Unstopped, Receipt
  <2>2. CASE ~gateFailed /\ finished
    <3>1. UNCHANGED <<pending, expecting, watching, signal, gateFailed>>
      BY <1>9, <2>2 DEF HandleResult
    <3> QED
      BY <1>1, <1>2, <1>3, <1>5, <1>9, <3>1 DEF WInv, Watched, Unstopped, Receipt
  <2>3. CASE ~gateFailed /\ ~finished
    <3>1. /\ pending' = IF pending = 0 THEN pending ELSE pending - 1
          /\ IF pending' = 0 THEN ~expecting' /\ ~watching'
                             ELSE expecting' = expecting /\ watching' = watching
          /\ UNCHANGED <<signal, gateFailed>>
      BY <1>9, <2>3 DEF HandleResult
    <3> QED
      BY <1>1, <1>2, <1>3, <1>5, <1>9, <2>3, <3>1 DEF WInv, Watched, Unstopped, Receipt
  <2> QED
    BY <2>1, <2>2, <2>3
<1> QED
  <2>1. CASE Head(pipe) = "result"
    BY <1>9, <2>1 DEF ReadLine
  <2>2. CASE Head(pipe) \in {"other", "unusable"}
    BY <1>6, <2>2 DEF ReadLine, Passes
  <2>3. CASE Head(pipe) = "huge"
    BY <1>8, <2>3 DEF ReadLine, ReadFails, fields
  <2>4. CASE Head(pipe) \in {"init", "badInit"}
    BY <1>7, <1>8, <2>4 DEF ReadLine, HandleReceipt, FailGate
  <2> QED
    BY <1>1, <2>1, <2>2, <2>3, <2>4, TailOfLines DEF IInv, Lines

(* The timers, and the calls of the supervisor                               *)
LEMMA TimersWatch ==
  ASSUME IInv, WInv, Stall \/ InitTimeout \/ CloseTimeout \/ StopCalled
  PROVE  WInv'
<1>1. /\ ~closed /\ Stop
      /\ UNCHANGED <<child, owed, pipe, pending, expecting, draining, finished, closed>>
  BY DEF Stall, InitTimeout, CloseTimeout, StopCalled, FailGate, IInv, ClosedAtRest, fields,
         engine
<1>2. Receipt \/ gateFailed' = gateFailed
  BY DEF WInv, Unstarted, Stall, InitTimeout, CloseTimeout, StopCalled, fields
<1> QED
  BY <1>1, <1>2, StopSilences DEF WInv, Watched, Unstopped, Unstarted, Receipt

LEMMA CallsWatch ==
  ASSUME IInv, WInv, Start \/ Send \/ Finish \/ Close \/ Resume \/ Pause \/ KillAll
  PROVE  WInv'
<1>0. /\ owed \in Nat /\ pending \in Nat /\ pipe \in Seq(Lines) /\ Answers(pipe) \in Nat
  BY AnswersFinite DEF IInv, TypeOK
<1>1. CASE Start
  <2>1. owed = 0 /\ pipe = <<>> /\ pending = 0 /\ ~expecting /\ ~gateFailed /\ ~watching
        /\ ~initTimer
    BY <1>1 DEF Start, WInv, Unstarted, Receipt
  <2>2. UNCHANGED <<owed, pipe, pending, expecting, gateFailed, watching, initTimer, finished,
                    draining, closed>>
    BY <1>1 DEF Start, fields, timers
  <2> QED
    BY <2>1, <2>2, NoAnswers DEF WInv, Watched, Unstarted
<1>2. CASE Send
  <2>1. /\ pending' = pending + 1 /\ owed' \in {owed, owed + 1} /\ expecting'
        /\ (watching' <=> draining) /\ ~closed
        /\ UNCHANGED <<child, pipe, signal, draining, gateFailed, finished, closed>>
    BY <1>2, Zenon DEF Send, Armed
  <2>2. Receipt
    BY <1>2 DEF Send
  <2>3. Unstopped' => Unstopped /\ ~gateFailed /\ owed + Answers(pipe) <= pending
    BY <2>1 DEF WInv, Watched, Unstopped, Receipt
  <2>4. Answers(pipe)' = Answers(pipe)
    BY <2>1
  <2>5. Unstopped' => owed' + Answers(pipe)' <= pending'
    BY <1>0, <2>1, <2>3, <2>4
  <2>6. Watched'
    BY <2>1, <2>3, <2>5, Zenon DEF Watched
  <2> QED
    BY <2>1, <2>2, <2>6 DEF WInv, Unstarted, Receipt
<1>3. CASE Finishing /\ (Finish \/ Close)
  <2>1. \/ UNCHANGED <<finished, expecting, watching>>
        \/ finished' /\ expecting' /\ (watching' <=> ~closed /\ draining) /\ Receipt
    BY <1>3, Zenon DEF Finishing, Armed, Finish, Close
  <2>2. UNCHANGED <<child, owed, pipe, signal, pending, draining, gateFailed, closed, initTimer>>
    BY <1>3 DEF Finish, Close, engine
  <2> QED
    BY <2>1, <2>2 DEF WInv, Watched, Unstopped, Unstarted, Receipt
<1>4. CASE Close /\ UNCHANGED <<finished, expecting, quiet, watching>>
  BY <1>4 DEF Close, engine, WInv, Watched, Unstopped, Unstarted, Receipt
<1>5. CASE Resume
  <2>1. /\ draining' /\ (watching' <=> ~closed /\ expecting)
        /\ UNCHANGED <<child, owed, pipe, signal, pending, expecting, gateFailed, finished,
                       closed, initTimer>>
    BY <1>5, Zenon DEF Resume, Armed, engine
  <2> QED
    BY <2>1 DEF WInv, Watched, Unstopped, Unstarted, Receipt
<1>6. CASE Pause
  <2>1. /\ ~draining' /\ (watching' <=> finished /\ ~closed)
        /\ UNCHANGED <<child, owed, pipe, signal, pending, expecting, gateFailed, finished,
                       closed, initTimer>>
    BY <1>6, Zenon DEF Pause, engine
  <2> QED
    BY <2>1 DEF WInv, Watched, Unstopped, Unstarted, Receipt
<1>7. CASE KillAll
  BY <1>7 DEF KillAll, Kill, engine, fields, timers, WInv, Watched, Unstopped, Unstarted,
              Receipt
<1> QED
  BY <1>1, <1>2, <1>3, <1>4, <1>5, <1>6, <1>7 DEF Finish, Close

(* What the engine writes is in the pipe before it is owed no more.          *)
LEMMA EngineWatches ==
  ASSUME IInv, WInv,
         EngineStarts \/ EngineAnswers \/ EngineSays \/ EngineExits \/ EngineSpawns \/ KinEnds
  PROVE  WInv'
<1>0. /\ owed \in Nat /\ pending \in Nat /\ pipe \in Seq(Lines) /\ Answers(pipe) \in Nat
  BY AnswersFinite DEF IInv, TypeOK
<1>1. ASSUME NEW line \in Lines, Writes(line),
             owed' = IF line = "result" THEN owed - 1 ELSE owed, owed' \in Nat
      PROVE  WInv'
  <2>1. Answers(pipe') = IF line = "result" THEN Answers(pipe) + 1 ELSE Answers(pipe)
    BY <1>0, <1>1, AppendAnswers DEF Writes
  <2>2. /\ UNCHANGED <<child, signal, pending, expecting, draining, gateFailed, finished, closed,
                       watching, initTimer>>
        /\ child = "running"
    BY <1>1 DEF Writes, fields, timers
  <2> QED
    BY <1>0, <1>1, <2>1, <2>2 DEF WInv, Watched, Unstopped, Unstarted, Receipt
<1>2. CASE EngineStarts
  BY <1>0, <1>1, <1>2 DEF EngineStarts, Lines
<1>3. CASE EngineAnswers
  BY <1>0, <1>1, <1>3 DEF EngineAnswers, Lines
<1>4. CASE EngineSays
  BY <1>0, <1>1, <1>4 DEF EngineSays, Lines
<1>5. CASE EngineExits \/ EngineSpawns \/ KinEnds
  BY <1>5 DEF EngineExits, EngineSpawns, KinEnds, fields, timers, WInv, Watched, Unstopped, Unstarted, Receipt
<1> QED
  BY <1>2, <1>3, <1>4, <1>5

(* The watchdog runs exactly when silence would be a stall, whatever the     *)
(* order of turns, answers, pauses, timers and stops.                        *)
THEOREM WatchSafety == Spec => []WatchesSilence
<1>1. Init => WInv
  BY NoAnswers DEF Init, WInv, Watched, Unstopped, Unstarted
<1>2. IInv /\ WInv /\ [Next]_vars => WInv'
  <2> SUFFICES ASSUME IInv, WInv, [Next]_vars PROVE WInv'
    OBVIOUS
  <2>1. CASE ReadLine
    BY <2>1, ReadLineWatches
  <2>2. CASE Stall \/ InitTimeout \/ CloseTimeout \/ StopCalled
    BY <2>2, TimersWatch
  <2>3. CASE Start \/ Send \/ Finish \/ Close \/ Resume \/ Pause \/ KillAll
    BY <2>3, CallsWatch
  <2>4. CASE \/ EngineStarts \/ EngineAnswers \/ EngineSays \/ EngineExits
             \/ EngineSpawns \/ KinEnds
    BY <2>4, EngineWatches
  <2>5. CASE OnClose
    BY <2>5 DEF OnClose, engine, WInv, Watched, Unstopped, Unstarted, Receipt
  <2>6. CASE ChildError \/ TimePasses
    BY <2>6 DEF ChildError, TimePasses, engine, fields, timers, WInv, Watched, Unstopped,
                Unstarted, Receipt
  <2>7. CASE UNCHANGED vars
    BY <2>7 DEF vars, engine, fields, timers, WInv, Watched, Unstopped, Unstarted, Receipt
  <2> QED
    BY <2>1, <2>2, <2>3, <2>4, <2>5, <2>6, <2>7 DEF Next, Call
<1>3. IInv /\ WInv => WatchesSilence
  <2> SUFFICES ASSUME IInv, WInv PROVE WatchesSilence
    OBVIOUS
  <2>1. owed \in Nat /\ pending \in Nat /\ Answers(pipe) \in Nat
    BY AnswersFinite DEF IInv, TypeOK
  <2> QED
    BY <2>1 DEF WInv, Watched, Unstopped, Unstarted, WatchesSilence, IInv, TypeOK
<1> QED
  BY <1>1, <1>2, <1>3, Invariant, PTL DEF Spec

-----------------------------------------------------------------------------
(* The end of a session                                                      *)

(* Nobody is killed in the name of a session that has closed: its group's    *)
(* number may be another's by then, so neither stop() nor killAll signals it *)
(* again, however many timers and calls were still under way.                *)
ClosedIsFinal == [][ closed => closed' /\ signal' = signal /\ ~registered' ]_vars

(* close() tells the truth, once: when its promise is resolved the engine    *)
(* has exited, nobody holds its pipes and every line it wrote was read, and  *)
(* a promise that is settled is not settled again by the timer, 'close' or a *)
(* second call.                                                              *)
CloseIsTrue ==
  closing = "resolved" =>
    closed /\ child \in {"unborn", "gone"} /\ "piped" \notin kin /\ pipe = <<>>
CloseStands == [][ (closing \in {"resolved", "rejected"}) => closing' = closing ]_vars

EndInv == /\ closed => ~registered
          /\ closing = "resolved" => closed

(* The part of CloseSettles that is not fairness, and what it is worth.      *)
THEOREM EndSafety == Spec => []CloseIsTrue /\ CloseStands /\ ClosedIsFinal
<1> DEFINE Stands == closing \in {"resolved", "rejected"} => closing' = closing
           Final  == closed => closed' /\ signal' = signal /\ ~registered'
<1>1. Init => EndInv
  BY DEF Init, EndInv
<1>2. IInv /\ EndInv /\ [Next]_vars => EndInv' /\ [Stands]_vars /\ [Final]_vars
  <2> SUFFICES ASSUME IInv, EndInv, [Next]_vars PROVE EndInv' /\ Stands /\ Final
    OBVIOUS
  <2> USE DEF EndInv, engine, fields, timers
  <2>1. CASE ReadLine \/ Stall \/ InitTimeout \/ CloseTimeout
    <3>1. ~closed /\ closed' = closed
      BY <2>1 DEF ReadLine, Stall, InitTimeout, CloseTimeout, FailGate, Passes, HandleReceipt,
                  HandleResult, ReadFails, IInv, ClosedAtRest
    <3>2. closing' = closing \/ (closing \notin {"resolved", "rejected"} /\ closing' # "resolved")
      BY <2>1 DEF ReadLine, Stall, InitTimeout, CloseTimeout
    <3> QED
      BY <3>1, <3>2
  <2>2. CASE Send \/ Finish \/ Resume \/ Pause
    <3>1. UNCHANGED <<closed, closing, registered, signal>>
      BY <2>2 DEF Send, Finish, Resume, Pause
    <3> QED
      BY <3>1
  <2>3. CASE Close
    BY <2>3 DEF Close
  <2>4. CASE StopCalled
    BY <2>4 DEF StopCalled
  <2>5. CASE KillAll
    BY <2>5 DEF KillAll, Kill
  <2>6. CASE OnClose
    BY <2>6 DEF OnClose
  <2>7. CASE ChildError \/ TimePasses \/ EngineExits \/ EngineSpawns \/ KinEnds
    BY <2>7 DEF ChildError, TimePasses, EngineExits, EngineSpawns, KinEnds
  <2>8. CASE EngineStarts \/ EngineAnswers \/ EngineSays
    BY <2>8 DEF EngineStarts, EngineAnswers, EngineSays, Writes
  <2>9. CASE UNCHANGED vars
    BY <2>9 DEF vars
  <2>10. CASE Start
    <3>1. ~closed /\ closed' = closed /\ closing' = closing
      BY <2>10 DEF Start, IInv, ClosedAtRest
    <3> QED
      BY <3>1
  <2> QED
    BY <2>1, <2>2, <2>3, <2>4, <2>5, <2>6, <2>7, <2>8, <2>9, <2>10 DEF Next, Call
<1>3. IInv /\ EndInv => CloseIsTrue
  BY DEF IInv, EndInv, ClosedAtRest, CloseIsTrue
<1> QED
  BY <1>1, <1>2, <1>3, Invariant, PTL DEF Spec, CloseStands, ClosedIsFinal
=============================================================================
