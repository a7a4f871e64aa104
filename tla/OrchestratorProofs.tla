------------------------- MODULE OrchestratorProofs -------------------------
(* Proofs about the orchestrator, for any number of attempts, gates,         *)
(* revisions, crashes and failed writes: a running engine is on record and   *)
(* in the hands of the supervisor, no two attempts are active, and a marker  *)
(* on disk freezes the project.  The second half proves that it implements   *)
(* Lifecycle.tla, and that a durable completion is published.                *)
EXTENDS Orchestrator, FiniteSetTheorems, TLAPS

Launching == {"spawn", "arm", "go", "started"}
Terminal  == {"failure", "reconcile", "complete"}
Opening   == {"resume", "finalize"}

(* The types, and what is about to be written has them too.                  *)
Prospect(o) ==
  o \in Ops /\ o.next.rev <= MaxRevision /\ L!Publishable(o.next.snapshot)
Types ==
  /\ TypeOK
  /\ Prospect(op)
  /\ \A r \in runs : r.rev <= MaxRevision

(* Which operations a step belongs to, and what they have in hand.           *)
Flight ==
  /\ ~up => pc = "idle" /\ active = NoAttempt
  /\ pc \in Launching => op.kind = "launch"
  /\ pc = "stop" => op.kind \in Terminal \cup {"launch"}
  /\ pc = "interrupt" => op.kind \in {"failure", "reconcile", "launch"}
  /\ pc \in {"history", "run"} => op.kind \in Terminal
  /\ pc = "fixture" => op.kind \in {"complete", "resume"}
  /\ pc = "manifest" => op.kind \in Terminal \cup {"publish", "resume"}
  /\ pc = "unmark" => op.kind \in Terminal \cup Opening
  /\ pc \in {"recover", "recoverSave"} => op.kind \in Terminal \cup {"launch"}
  /\ pc # "idle" /\ op.kind # "publish" => op.attempt \in Attempts
  /\ pc \in Launching \cup {"stop", "interrupt"} => active = op.attempt
  /\ pc = "fixture" /\ op.kind = "resume" => active = op.attempt

(* A terminal publication has nothing active left once the record of its     *)
(* attempt is interrupted or removed.                                        *)
Settled ==
  \/ pc = "unmark"
  \/ pc = "manifest" /\ op.kind # "publish"
  \/ pc \in {"history", "run"} /\ op.kind # "complete"

(* At most one attempt is active: the supervisor's own, or that of the       *)
(* operation in flight.                                                      *)
Authority ==
  /\ \A x, y \in Attempts : IsActive(x) /\ IsActive(y) => x = y
  /\ up /\ pc = "idle" /\ (~recovery \/ active # NoAttempt) =>
       \A x \in Attempts : IsActive(x) => x = active
  /\ pc # "idle" /\ op.kind = "publish" => \A x \in Attempts : IsActive(x) => x = active
  /\ pc # "idle" /\ op.kind # "publish" => \A x \in Attempts : IsActive(x) => x = op.attempt
  /\ Settled => \A x \in Attempts : ~IsActive(x)

(* A process group belongs to an active attempt, a working one to an attempt *)
(* with a receipt; and there is work only in a build.                        *)
WorkStage(s) == s.stage = "G4" \/ (s.stage = "G5" /\ s.run = "recovery-required")
Attribution ==
  /\ \A x \in Attempts : Live(x) => IsActive(x)
  /\ \A x \in Attempts : Works(x) => fixture[x] \in {"running", "recovery-required"}
  /\ pc \in {"spawn", "arm"} => fixture[op.attempt] = "prepared"
  /\ pc = "go" => fixture[op.attempt] = "running"
  /\ pc \in {"spawn", "arm", "go"} => Snap.stage = "G4"
  /\ pc \in {"interrupt", "fixture"} => ~Live(op.attempt)
  /\ pc \in {"history", "run"} => ~Live(op.attempt)
  /\ \A x \in Attempts : Works(x) => WorkStage(Snap)
  /\ pc = "manifest" => \A x \in Attempts : Works(x) => WorkStage(op.next.snapshot)

(* A marker latches the supervisor, which then neither launches nor          *)
(* publishes anything but the terminal run that is on disk already.          *)
Latched ==
  /\ up /\ marker # NoMarker => recovery
  /\ op.kind \in Opening /\ pc # "idle" => recovery
  /\ pc \in {"spawn", "arm", "go"} => marker = NoMarker
  /\ pc = "manifest" /\ op.kind = "publish" => marker = NoMarker
  /\ pc \in {"fixture", "manifest"} /\ op.kind # "publish" =>
       \E r \in RunsAt(manifest.rev + 1) : r.attempt = op.attempt

(* With every attempt the supervisor holds accounted for.                    *)
Held == Usable /\ active = NoAttempt => \A x \in Attempts : ~Works(x)

IInv == Types /\ Flight /\ Authority /\ Attribution /\ Latched /\ Held

(* What each publication makes of a snapshot is one of the schema again, and *)
(* the store publishes the end of a build.                                   *)
LEMMA PublicationTypes ==
  ASSUME NEW s \in L!Snapshot
  PROVE  /\ \A c \in L!Commands : L!AfterCommand(s, c) \in L!Snapshot
         /\ L!AfterRetry(s) \in L!Snapshot
         /\ \A exact \in BOOLEAN : L!AfterGate(s, exact) \in L!Snapshot
         /\ \A run \in {"waiting", "recovery-required"}, gates \in {s.gates, Required} :
              L!AfterAdvance(s, run, gates) \in L!Snapshot
         /\ \A state \in L!FailureStates : L!AfterFailure(s, state) \in L!Snapshot
         /\ L!AfterCompletion(s) \in L!Snapshot
<1>1. \A c \in L!Commands : /\ L!To[c].stage \in L!Stages
                            /\ L!To[c].run \in L!RunStates
                            /\ L!To[c].decision \in L!Decisions
  BY DEF L!Commands, L!To, L!State, L!Stages, L!RunStates, L!Decisions
<1>2. \A c \in L!Commands : L!AfterCommand(s, c) \in L!Snapshot
  BY <1>1 DEF L!AfterCommand, L!Becomes, L!Snapshot
<1>3. L!AfterRetry(s) \in L!Snapshot
  BY <1>1 DEF L!AfterRetry, L!Becomes, L!Snapshot, L!Commands
<1>4. \A exact \in BOOLEAN : L!AfterGate(s, exact) \in L!Snapshot
  BY GatesAssumption DEF L!AfterGate, L!Snapshot, L!Spoiled
<1>5. \A run \in {"waiting", "recovery-required"}, gates \in {s.gates, Required} :
        L!AfterAdvance(s, run, gates) \in L!Snapshot
  <2>1. \A gates \in {s.gates, Required} : gates \in 0 .. L!Spoiled
    BY GatesAssumption DEF L!Snapshot, L!Spoiled
  <2>2. \A run \in {"waiting", "recovery-required"}, gates \in 0 .. L!Spoiled :
          L!AfterAdvance(s, run, gates) \in L!Snapshot
    BY DEF L!AfterAdvance, L!Becomes, L!State, L!Snapshot, L!Stages, L!RunStates,
         L!Decisions
  <2> QED
    BY <2>1, <2>2
<1>6. \A state \in L!FailureStates : L!AfterFailure(s, state) \in L!Snapshot
  BY DEF L!AfterFailure, L!Becomes, L!State, L!Snapshot, L!Stages, L!RunStates,
       L!Decisions, L!FailureStates
<1>7. L!AfterCompletion(s) \in L!Snapshot
  BY DEF L!AfterCompletion, L!Becomes, L!State, L!Snapshot, L!Stages, L!RunStates,
       L!Decisions
<1> QED
  BY <1>2, <1>3, <1>4, <1>5, <1>6, <1>7

(* The store agrees to what a failure and a completion make of a build.      *)
LEMMA TerminalPublishable ==
  ASSUME NEW s \in L!Snapshot
  PROVE  /\ \A state \in L!FailureStates : L!Publishable(L!AfterFailure(s, state))
         /\ L!Publishable(s) /\ L!Building(s) => L!Publishable(L!AfterCompletion(s))
<1>1. \A state \in L!FailureStates : L!Publishable(L!AfterFailure(s, state))
  <2> SUFFICES ASSUME NEW state \in L!FailureStates
               PROVE  L!Publishable(L!AfterFailure(s, state))
    OBVIOUS
  <2> DEFINE n == L!AfterFailure(s, state)
  <2>1. /\ n.stage = "G4" /\ n.run = state /\ n.failure = state
        /\ n.decision = IF state \in {"stopped", "interrupted"} THEN "startBuild" ELSE "none"
    BY DEF L!AfterFailure, L!Becomes, L!State, L!Snapshot
  <2>2. L!State(n.stage, n.run, n.decision) \in L!Compatible
    BY <2>1 DEF L!FailureStates, L!Compatible, L!Stages
  <2> QED
    BY <2>1, <2>2 DEF L!Publishable
<1>2. ASSUME L!Publishable(s), L!Building(s) PROVE L!Publishable(L!AfterCompletion(s))
  <2> DEFINE n == L!AfterCompletion(s)
  <2>1. s.failure = "none"
    BY <1>2 DEF L!Publishable, L!Building, L!Snapshot, L!FailureStates
  <2>2. /\ n.stage = "G5" /\ n.run = "waiting" /\ n.decision = "acceptResult"
        /\ n.failure = "none"
    BY <2>1 DEF L!AfterCompletion, L!Becomes, L!State, L!Snapshot
  <2>3. "requestChange" \in L!Commands /\ "rollback" \in L!Commands \ {"startBuild", "acceptResult"}
    BY DEF L!Commands
  <2>4. L!To["rollback"].stage = "G5" /\ L!To["rollback"].decision = "acceptResult"
    BY DEF L!To, L!State
  <2>5. L!State("G5", "waiting", "acceptResult") \in L!Compatible
    BY <2>3, <2>4 DEF L!Compatible
  <2> QED
    BY <2>2, <2>5 DEF L!Publishable
<1> QED
  BY <1>1, <1>2

(* A project without a manifest is an idle one.                              *)
LEMMA UnbornTypes == Unborn \in Manifests /\ L!Publishable(Unborn.snapshot)
<1>1. Unborn.snapshot \in L!Snapshot
  <2>1. 0 \in 0 .. L!Spoiled
    BY GatesAssumption DEF L!Spoiled
  <2> QED
    BY <2>1 DEF Unborn, L!Snapshot, L!Stages, L!RunStates, L!Decisions
<1>2. L!State("G0", "idle", "submitIdea") \in L!Compatible
  BY DEF L!Compatible
<1>3. L!Publishable(Unborn.snapshot)
  BY <1>2 DEF Unborn, L!Publishable
<1> QED
  BY <1>1, <1>3 DEF Unborn, Manifests

(* What an operation may have in hand.                                       *)
LEMMA Prospects ==
  /\ Prospect(NoOp)
  /\ \A kind \in Kinds, a \in Attempts \cup {NoAttempt} :
       /\ Prospect(Op(kind, a, Unborn))
       /\ \A n \in Manifests : n.rev <= MaxRevision /\ L!Publishable(n.snapshot)
                                => Prospect(Op(kind, a, n))
  /\ \A o : Prospect(o) => o \in Ops
<1>1. \A kind \in Kinds, a \in Attempts \cup {NoAttempt}, n \in Manifests :
        n.rev <= MaxRevision /\ L!Publishable(n.snapshot) => Prospect(Op(kind, a, n))
  BY DEF Prospect, Op, Ops
<1>2. Unborn.rev <= MaxRevision
  BY BoundsAssumption DEF Unborn
<1>3. \A o : Prospect(o) => o \in Ops
  BY DEF Prospect
<1> QED
  BY <1>1, <1>2, <1>3, UnbornTypes DEF NoOp, Kinds

(* What a marker is made of.                                                 *)
LEMMA MarkTypes ==
  ASSUME TypeOK
  PROVE  \A a \in Attempts \cup {NoAttempt} :
           Mark(a) => marker' \in Markers /\ history' = "none" /\ recovery' = TRUE
  BY DEF TypeOK, Mark, Marker, Markers

(* What open finds out is true or false.                                     *)
LEMMA OpenTypes == ChainVerifies \in BOOLEAN /\ InRecovery \in BOOLEAN
  BY DEF ChainVerifies, InRecovery

(* The attempt that open gives authority back to is the only one with a      *)
(* receipt.                                                                  *)
LEMMA RegainedExact ==
  ASSUME \A x, y \in Attempts : IsActive(x) /\ IsActive(y) => x = y
  PROVE  /\ Regained \in Attempts \cup {NoAttempt}
         /\ \A x \in Candidates : x = Regained
         /\ Regained # NoAttempt => Regained \in Candidates
<1>1. CASE Candidates = {}
  BY <1>1, FS_EmptySet DEF Regained
<1>2. CASE Candidates # {}
  <2>1. PICK x \in Candidates : TRUE
    BY <1>2
  <2>2. Candidates = {x}
    BY <2>1 DEF Candidates, IsActive
  <2>3. Cardinality(Candidates) = 1
    BY <2>2, FS_Singleton
  <2> QED
    BY <2>2, <2>3, AttemptAssumption DEF Regained, Candidates
<1> QED
  BY <1>1, <1>2

(* A publication of the next revision has its types.                         *)
LEMMA NextTypes ==
  ASSUME TypeOK, NEW s \in L!Snapshot, L!Publishable(s), manifest.rev < MaxRevision,
         NEW kind \in Kinds, NEW a \in Attempts \cup {NoAttempt}
  PROVE  Prospect(Op(kind, a, Next1(s)))
<1>1. Next1(s) \in Manifests /\ Next1(s).rev <= MaxRevision
  BY BoundsAssumption DEF TypeOK, Next1, Manifests
<1>2. Next1(s).snapshot = s
  BY DEF Next1
<1> QED
  BY <1>1, <1>2, Prospects

(* The manifest is of a snapshot.                                            *)
LEMMA SnapTypes ==
  ASSUME TypeOK
  PROVE  manifest \in Manifests /\ Snap \in L!Snapshot
  BY DEF TypeOK, Manifests, Snap

(* The commands, the gates and the two advances publish one snapshot each,   *)
(* out of recovery, and leave the build only when nothing works.             *)
LEMMA Publications ==
  ASSUME IInv,
         \/ \E c \in L!Commands : Command(c)
         \/ Retry
         \/ \E exact \in BOOLEAN : RecordGate(exact)
         \/ \E gates \in {Snap.gates, Required} :
              AdvancePhase("waiting", gates) \/ AdvancePhase("recovery-required", gates)
  PROVE  \E by \in {"command", "gate", "advance"}, s \in L!Snapshot :
           /\ Usable /\ ~recovery
           /\ Publish(by, s)
           /\ WorkStage(s) \/ \A a \in Attempts : ~Works(a)
<1>1. Snap \in L!Snapshot
  BY SnapTypes DEF IInv, Types
<1>2. Usable /\ active = NoAttempt => \A a \in Attempts : ~Works(a)
  BY DEF IInv, Held
<1>3. ASSUME NEW c \in L!Commands, Command(c)
      PROVE  /\ Usable /\ ~recovery /\ active = NoAttempt
             /\ Publish("command", L!AfterCommand(Snap, c))
  BY <1>3 DEF Command, Safe
<1>4. ASSUME Retry
      PROVE  /\ Usable /\ ~recovery /\ active = NoAttempt
             /\ Publish("command", L!AfterRetry(Snap))
  BY <1>4 DEF Retry, Safe
<1>5. ASSUME NEW exact \in BOOLEAN, RecordGate(exact)
      PROVE  /\ Usable /\ ~recovery
             /\ Publish("gate", L!AfterGate(Snap, exact))
             /\ WorkStage(Snap) => WorkStage(L!AfterGate(Snap, exact))
  BY <1>1, <1>5 DEF RecordGate, Safe, WorkStage, L!AfterGate, L!Snapshot
<1>6. (\A a \in Attempts : ~Works(a)) \/ WorkStage(Snap)
  BY DEF IInv, Attribution
<1>7. ASSUME NEW gates \in {Snap.gates, Required}, AdvancePhase("waiting", gates)
      PROVE  /\ Usable /\ ~recovery /\ active = NoAttempt
             /\ Publish("advance", L!AfterAdvance(Snap, "waiting", gates))
  BY <1>7 DEF AdvancePhase
<1>8. ASSUME NEW gates \in {Snap.gates, Required}, AdvancePhase("recovery-required", gates)
      PROVE  /\ Usable /\ ~recovery
             /\ Publish("advance", L!AfterAdvance(Snap, "recovery-required", gates))
             /\ WorkStage(L!AfterAdvance(Snap, "recovery-required", gates))
  BY <1>1, <1>8 DEF AdvancePhase, WorkStage, L!AfterAdvance, L!Becomes, L!State, L!Snapshot
<1> QED
  BY <1>1, <1>2, <1>3, <1>4, <1>5, <1>6, <1>7, <1>8, PublicationTypes

(* What open finds: whose authority it regains, what a completed run beside  *)
(* its old manifest looks like, and a publication that only lacks the        *)
(* removal of its marker.                                                    *)
LEMMA RegainedFacts ==
  ASSUME IInv
  PROVE  /\ Regained \in Attempts \cup {NoAttempt}
         /\ \A a \in Attempts : fixture[a] \in {"running", "recovery-required"}
                                  => a = Regained
         /\ Regained # NoAttempt => fixture[Regained] \in {"running", "recovery-required"}
  BY RegainedExact DEF IInv, Authority, Candidates

LEMMA ResumableFacts ==
  ASSUME IInv, Resumable
  PROVE  /\ marker # NoMarker /\ marker.attempt \in Attempts
         /\ L!Building(Snap)
         /\ Run("completed", marker.attempt, manifest.rev + 1) \in runs
         /\ \A a \in Attempts : IsActive(a) => a = marker.attempt
         /\ fixture[marker.attempt] \in {"none", "running"}
         /\ fixture[marker.attempt] = "running" => /\ Regained = marker.attempt
                                                   /\ ~Live(marker.attempt)
         /\ fixture[marker.attempt] = "none" => Regained = NoAttempt
<1>1. PreparedCompletion
  BY DEF Resumable
<1>2. marker.attempt \in Attempts
  BY <1>1 DEF PreparedCompletion, IInv, Types, TypeOK, Markers
<1>3. \A a \in Attempts : IsActive(a) => a = marker.attempt
  BY <1>1 DEF PreparedCompletion
<1>4. fixture[marker.attempt] = "running" => Regained = marker.attempt
  BY <1>2, RegainedFacts
<1>5. fixture[marker.attempt] = "none" => Regained = NoAttempt
  BY <1>3, RegainedFacts DEF IsActive
<1> QED
  BY <1>1, <1>2, <1>3, <1>4, <1>5 DEF PreparedCompletion, Resumable

LEMMA FinalizableFacts ==
  ASSUME IInv, Finalizable
  PROVE  /\ marker # NoMarker /\ marker.attempt \in Attempts
         /\ \A a \in Attempts : ~IsActive(a)
         /\ Regained = NoAttempt
<1>1. /\ marker # NoMarker /\ marker.attempt # NoAttempt
      /\ \A a \in Attempts : ~IsActive(a)
  BY DEF Finalizable, CompletionFinal, ReconciliationFinal
<1>2. marker.attempt \in Attempts
  BY <1>1 DEF IInv, Types, TypeOK, Markers
<1>3. Regained = NoAttempt
  BY <1>1, RegainedFacts DEF IsActive
<1> QED
  BY <1>1, <1>2, <1>3

(* Every step leaves an operation where its kind may be, with its attempt in *)
(* hand.                                                                     *)
LEMMA FlightStep == ASSUME IInv, Next PROVE Flight'
<1> USE AttemptAssumption DEF Flight, Launching, Terminal, Opening, IInv,
     Types, TypeOK, disk, counts
<1>1. CASE \/ \E c \in L!Commands : Command(c)
           \/ Retry
           \/ \E exact \in BOOLEAN : RecordGate(exact)
           \/ \E gates \in {Snap.gates, Required} :
                AdvancePhase("waiting", gates) \/ AdvancePhase("recovery-required", gates)
  <2>1. PICK by \in {"command", "gate", "advance"}, s \in L!Snapshot :
              /\ Usable /\ ~recovery
              /\ Publish(by, s)
              /\ WorkStage(s) \/ \A a \in Attempts : ~Works(a)
    BY <1>1, Publications
  <2> QED
    BY <2>1 DEF Usable, Publish, Next1, Op, NoOp
<1>2. ASSUME NEW a \in Attempts, Launch(a) PROVE Flight'
  BY <1>2 DEF Launch, Usable, Safe, Op, NoOp
<1>3. ASSUME NEW state \in L!FailureStates, PublishAttemptFailure(state) PROVE Flight'
  BY <1>3 DEF PublishAttemptFailure, Usable, Begin, Mark, Marker, Op, NoOp
<1>4. CASE Reconcile
  BY <1>4 DEF Reconcile, Usable, HasReceipt, Mark, Marker, Op, NoOp
<1>5. CASE CompleteAttempt
  BY <1>5 DEF CompleteAttempt, Usable, Safe, Completable, Begin, Mark, Marker,
       Op, NoOp
<1>6. CASE RefuseCompletion
  BY <1>6 DEF RefuseCompletion, Usable, Safe, Mark, Marker, Op, NoOp
<1>7. CASE FinalizeMarker
  BY <1>7 DEF FinalizeMarker, Usable, ReconciliationFinal, Markers, Op, NoOp
<1>8. CASE Close
  BY <1>8 DEF Close, Usable, Forget, Op, NoOp
<1>9. CASE SpawnWrapper
  BY <1>9 DEF SpawnWrapper
<1>10. CASE SaveReceipt
  BY <1>10 DEF SaveReceipt
<1>11. CASE SendGo
  BY <1>11 DEF SendGo
<1>12. CASE LaunchReturns
  BY <1>12 DEF LaunchReturns, Op, NoOp
<1>13. CASE HandshakeFails
  BY <1>13 DEF HandshakeFails, HasReceipt
<1>14. CASE StopGroup
  BY <1>14 DEF StopGroup
<1>15. CASE StopFails
  BY <1>15 DEF StopFails
<1>16. CASE SaveInterrupted
  BY <1>16 DEF SaveInterrupted, Op, NoOp
<1>17. CASE AppendHistory
  BY <1>17 DEF AppendHistory, Resolution
<1>18. CASE WriteRun
  BY <1>18 DEF WriteRun, RunAccepts, TerminalRun, Run
<1>19. CASE TerminalRefused
  BY <1>19 DEF TerminalRefused
<1>20. CASE RemoveFixture
  BY <1>20 DEF RemoveFixture
<1>21. CASE WriteManifest
  BY <1>21 DEF WriteManifest, Op, NoOp
<1>22. CASE RemoveMarker
  BY <1>22 DEF RemoveMarker, Op, NoOp
<1>23. CASE RequireRecovery
  BY <1>23 DEF RequireRecovery, Mark, Marker
<1>24. CASE SaveRecovering
  BY <1>24 DEF SaveRecovering, HasReceipt, Op, NoOp
<1>25. CASE OpenPlainly
  BY <1>25 DEF OpenPlainly, Opened
<1>26. CASE OpenLatching
  BY <1>26 DEF OpenLatching, Opened, Mark, Marker
<1>27. CASE OpenResuming
  BY <1>27, ResumableFacts DEF OpenResuming, Opened, Op
<1>28. CASE OpenFinalizing
  BY <1>28, FinalizableFacts DEF OpenFinalizing, Opened, Op
<1>29. CASE OpenRefusing
  BY <1>29 DEF OpenRefusing, Mark, Marker
<1>30. CASE Crash
  BY <1>30 DEF Crash, Forget, Op, NoOp
<1>31. CASE InterruptFails
  BY <1>31 DEF InterruptFails, Fault, CanFail, Op, NoOp
<1>32. CASE PublicationFails
  BY <1>32 DEF PublicationFails, Fault, CanFail, Op, NoOp
<1>33. CASE MarkFails
  BY <1>33 DEF MarkFails, Usable, Fault, CanFail, Op, NoOp
<1>34. CASE RecoveryFails
  BY <1>34 DEF RecoveryFails, Fault, CanFail, Op, NoOp
<1>35. CASE OpenMarkFails
  BY <1>35 DEF OpenMarkFails, Opened, CanFail, Mark, Marker
<1>36. ASSUME NEW a \in Attempts, WrapperStarts(a) PROVE Flight'
  BY <1>36 DEF WrapperStarts, memory
<1>37. ASSUME NEW a \in Attempts, GroupEnds(a) PROVE Flight'
  BY <1>37 DEF GroupEnds, Live, memory
<1> HIDE DEF Flight, Launching, Terminal, Opening, IInv, Types, TypeOK, disk,
     counts
<1> QED
  BY <1>1, <1>2, <1>3, <1>4, <1>5, <1>6, <1>7, <1>8, <1>9, <1>10, <1>11, <1>12,
       <1>13, <1>14, <1>15, <1>16, <1>17, <1>18, <1>19, <1>20, <1>21,
       <1>22, <1>23, <1>24, <1>25, <1>26, <1>27, <1>28, <1>29, <1>30, <1>31,
       <1>32, <1>33, <1>34, <1>35, <1>36, <1>37
     DEF Next, Ordinary, Continue, Open, WriteFails

(* One active attempt at most: a launch finds none, a reopened supervisor    *)
(* regains the only one, and a terminal publication lets its own go first.   *)
LEMMA AuthorityStep == ASSUME IInv, Next PROVE Authority'
<1> USE AttemptAssumption DEF Authority, Flight, Settled, IsActive, Launching,
     Terminal, Opening, IInv, Types, TypeOK, disk, counts
<1>1. CASE \/ \E c \in L!Commands : Command(c)
           \/ Retry
           \/ \E exact \in BOOLEAN : RecordGate(exact)
           \/ \E gates \in {Snap.gates, Required} :
                AdvancePhase("waiting", gates) \/ AdvancePhase("recovery-required", gates)
  <2>1. PICK by \in {"command", "gate", "advance"}, s \in L!Snapshot :
              /\ Usable /\ ~recovery
              /\ Publish(by, s)
              /\ WorkStage(s) \/ \A a \in Attempts : ~Works(a)
    BY <1>1, Publications
  <2> QED
    BY <2>1 DEF Usable, Publish, Next1, Op, NoOp
<1>2. ASSUME NEW a \in Attempts, Launch(a) PROVE Authority'
  BY <1>2 DEF Launch, Usable, Safe, Op, NoOp
<1>3. ASSUME NEW state \in L!FailureStates, PublishAttemptFailure(state) PROVE Authority'
  BY <1>3 DEF PublishAttemptFailure, Usable, Begin, Mark, Marker, Op, NoOp
<1>4. CASE Reconcile
  BY <1>4 DEF Reconcile, Usable, HasReceipt, Mark, Marker, Op, NoOp
<1>5. CASE CompleteAttempt
  BY <1>5 DEF CompleteAttempt, Usable, Safe, Completable, Begin, Mark, Marker,
       Op, NoOp
<1>6. CASE RefuseCompletion
  BY <1>6 DEF RefuseCompletion, Usable, Safe, Mark, Marker, Op, NoOp
<1>7. CASE FinalizeMarker
  BY <1>7 DEF FinalizeMarker, Usable, ReconciliationFinal, Markers, Op, NoOp
<1>8. CASE Close
  BY <1>8 DEF Close, Usable, Forget, Op, NoOp
<1>9. CASE SpawnWrapper
  BY <1>9 DEF SpawnWrapper
<1>10. CASE SaveReceipt
  BY <1>10 DEF SaveReceipt
<1>11. CASE SendGo
  BY <1>11 DEF SendGo
<1>12. CASE LaunchReturns
  BY <1>12 DEF LaunchReturns, Op, NoOp
<1>13. CASE HandshakeFails
  BY <1>13 DEF HandshakeFails, HasReceipt
<1>14. CASE StopGroup
  BY <1>14 DEF StopGroup
<1>15. CASE StopFails
  BY <1>15 DEF StopFails
<1>16. CASE SaveInterrupted
  BY <1>16 DEF SaveInterrupted, Op, NoOp
<1>17. CASE AppendHistory
  BY <1>17 DEF AppendHistory, Resolution
<1>18. CASE WriteRun
  BY <1>18 DEF WriteRun, RunAccepts, TerminalRun, Run
<1>19. CASE TerminalRefused
  BY <1>19 DEF TerminalRefused
<1>20. CASE RemoveFixture
  BY <1>20 DEF RemoveFixture
<1>21. CASE WriteManifest
  BY <1>21 DEF WriteManifest, Op, NoOp
<1>22. CASE RemoveMarker
  BY <1>22 DEF RemoveMarker, Op, NoOp
<1>23. CASE RequireRecovery
  BY <1>23 DEF RequireRecovery, Mark, Marker
<1>24. CASE SaveRecovering
  BY <1>24 DEF SaveRecovering, HasReceipt, Op, NoOp
<1>25. CASE OpenPlainly
  BY <1>25, RegainedFacts DEF OpenPlainly, Opened, InRecovery, NeedsCleanup
<1>26. CASE OpenLatching
  BY <1>26, RegainedFacts DEF OpenLatching, Opened, Mark
<1>27. CASE OpenResuming
  BY <1>27, ResumableFacts DEF OpenResuming, Opened, Op
<1>28. CASE OpenFinalizing
  BY <1>28, FinalizableFacts DEF OpenFinalizing, Opened, Op
<1>29. CASE OpenRefusing
  BY <1>29 DEF OpenRefusing, Mark, Marker
<1>30. CASE Crash
  BY <1>30 DEF Crash, Forget, Op, NoOp
<1>31. CASE InterruptFails
  BY <1>31 DEF InterruptFails, Fault, CanFail, Op, NoOp
<1>32. CASE PublicationFails
  BY <1>32 DEF PublicationFails, Fault, CanFail, Op, NoOp
<1>33. CASE MarkFails
  BY <1>33 DEF MarkFails, Usable, Fault, CanFail, Op, NoOp
<1>34. CASE RecoveryFails
  BY <1>34 DEF RecoveryFails, Fault, CanFail, Op, NoOp
<1>35. CASE OpenMarkFails
  BY <1>35, RegainedFacts DEF OpenMarkFails, Opened, Mark
<1>36. ASSUME NEW a \in Attempts, WrapperStarts(a) PROVE Authority'
  BY <1>36 DEF WrapperStarts, memory
<1>37. ASSUME NEW a \in Attempts, GroupEnds(a) PROVE Authority'
  BY <1>37 DEF GroupEnds, Live, memory
<1> HIDE DEF Authority, Flight, Settled, IsActive, Launching, Terminal,
     Opening, IInv, Types, TypeOK, disk, counts
<1> QED
  BY <1>1, <1>2, <1>3, <1>4, <1>5, <1>6, <1>7, <1>8, <1>9, <1>10, <1>11, <1>12,
       <1>13, <1>14, <1>15, <1>16, <1>17, <1>18, <1>19, <1>20, <1>21,
       <1>22, <1>23, <1>24, <1>25, <1>26, <1>27, <1>28, <1>29, <1>30, <1>31,
       <1>32, <1>33, <1>34, <1>35, <1>36, <1>37
     DEF Next, Ordinary, Continue, Open, WriteFails

(* GO follows the receipt, and no record goes before its group.              *)
LEMMA AttributionStep == ASSUME IInv, Next PROVE Attribution'
<1> USE AttemptAssumption DEF Attribution, Flight, Authority, Settled,
     IsActive, Works, Live, WorkStage, Launching, Terminal, Opening, Snap,
     IInv, Types, TypeOK, disk, counts
<1>1. CASE \/ \E c \in L!Commands : Command(c)
           \/ Retry
           \/ \E exact \in BOOLEAN : RecordGate(exact)
           \/ \E gates \in {Snap.gates, Required} :
                AdvancePhase("waiting", gates) \/ AdvancePhase("recovery-required", gates)
  <2>1. PICK by \in {"command", "gate", "advance"}, s \in L!Snapshot :
              /\ Usable /\ ~recovery
              /\ Publish(by, s)
              /\ WorkStage(s) \/ \A a \in Attempts : ~Works(a)
    BY <1>1, Publications
  <2> QED
    BY <2>1 DEF Usable, Publish, Next1, Op, NoOp
<1>2. ASSUME NEW a \in Attempts, Launch(a) PROVE Attribution'
  BY <1>2 DEF Launch, Usable, Op, L!Building
<1>3. ASSUME NEW state \in L!FailureStates, PublishAttemptFailure(state) PROVE Attribution'
  BY <1>3 DEF PublishAttemptFailure, Usable, Begin, Mark, Marker, Op, NoOp
<1>4. CASE Reconcile
  BY <1>4 DEF Reconcile, Usable, HasReceipt, Mark, Marker, Op, NoOp
<1>5. CASE CompleteAttempt
  BY <1>5 DEF CompleteAttempt, Usable, Safe, Completable, Begin, Mark, Marker,
       Op, NoOp
<1>6. CASE RefuseCompletion
  BY <1>6 DEF RefuseCompletion, Usable, Safe, Mark, Marker, Op, NoOp
<1>7. CASE FinalizeMarker
  BY <1>7 DEF FinalizeMarker, Usable, ReconciliationFinal, Markers, Op, NoOp
<1>8. CASE Close
  BY <1>8 DEF Close, Usable, Forget, Op, NoOp
<1>9. CASE SpawnWrapper
  BY <1>9 DEF SpawnWrapper
<1>10. CASE SaveReceipt
  BY <1>10 DEF SaveReceipt
<1>11. CASE SendGo
  BY <1>11 DEF SendGo
<1>12. CASE LaunchReturns
  BY <1>12 DEF LaunchReturns, Op, NoOp
<1>13. CASE HandshakeFails
  BY <1>13 DEF HandshakeFails, HasReceipt
<1>14. CASE StopGroup
  BY <1>14 DEF StopGroup
<1>15. CASE StopFails
  BY <1>15 DEF StopFails
<1>16. CASE SaveInterrupted
  BY <1>16 DEF SaveInterrupted, Op, NoOp
<1>17. CASE AppendHistory
  BY <1>17 DEF AppendHistory, Resolution
<1>18. CASE WriteRun
  BY <1>18 DEF WriteRun, RunAccepts, TerminalRun, Run
<1>19. CASE TerminalRefused
  BY <1>19 DEF TerminalRefused
<1>20. CASE RemoveFixture
  BY <1>20 DEF RemoveFixture
<1>21. CASE WriteManifest
  BY <1>21 DEF WriteManifest, Op, NoOp
<1>22. CASE RemoveMarker
  BY <1>22 DEF RemoveMarker, Op, NoOp
<1>23. CASE RequireRecovery
  BY <1>23 DEF RequireRecovery, Mark, Marker
<1>24. CASE SaveRecovering
  BY <1>24 DEF SaveRecovering, HasReceipt, Op, NoOp
<1>25. CASE OpenPlainly
  BY <1>25 DEF OpenPlainly, Opened
<1>26. CASE OpenLatching
  BY <1>26 DEF OpenLatching, Opened, Mark, Marker
<1>27. CASE OpenResuming
  BY <1>27, ResumableFacts DEF OpenResuming, Opened, Op
<1>28. CASE OpenFinalizing
  BY <1>28 DEF OpenFinalizing, Opened, Op, NoOp
<1>29. CASE OpenRefusing
  BY <1>29 DEF OpenRefusing, Mark, Marker
<1>30. CASE Crash
  BY <1>30 DEF Crash, Forget, Op, NoOp
<1>31. CASE InterruptFails
  BY <1>31 DEF InterruptFails, Fault, CanFail, Op, NoOp
<1>32. CASE PublicationFails
  BY <1>32 DEF PublicationFails, Fault, CanFail, Op, NoOp
<1>33. CASE MarkFails
  BY <1>33 DEF MarkFails, Usable, Fault, CanFail, Op, NoOp
<1>34. CASE RecoveryFails
  BY <1>34 DEF RecoveryFails, Fault, CanFail, Op, NoOp
<1>35. CASE OpenMarkFails
  BY <1>35 DEF OpenMarkFails, Opened, CanFail, Mark, Marker
<1>36. ASSUME NEW a \in Attempts, WrapperStarts(a) PROVE Attribution'
  BY <1>36 DEF WrapperStarts, memory
<1>37. ASSUME NEW a \in Attempts, GroupEnds(a) PROVE Attribution'
  BY <1>37 DEF GroupEnds, memory
<1> HIDE DEF Attribution, Flight, Authority, Settled, IsActive, Works, Live,
     WorkStage, Launching, Terminal, Opening, Snap, IInv, Types, TypeOK, disk,
     counts
<1> QED
  BY <1>1, <1>2, <1>3, <1>4, <1>5, <1>6, <1>7, <1>8, <1>9, <1>10, <1>11, <1>12,
       <1>13, <1>14, <1>15, <1>16, <1>17, <1>18, <1>19, <1>20, <1>21,
       <1>22, <1>23, <1>24, <1>25, <1>26, <1>27, <1>28, <1>29, <1>30, <1>31,
       <1>32, <1>33, <1>34, <1>35, <1>36, <1>37
     DEF Next, Ordinary, Continue, Open, WriteFails

(* A marker is written under the latch and found by open; a result that is   *)
(* resumed has its run.                                                      *)
LEMMA LatchedStep == ASSUME IInv, Next PROVE Latched'
<1> USE AttemptAssumption DEF Latched, Flight, RunsAt, Launching, Terminal,
     Opening, IInv, Types, TypeOK, disk, counts
<1>1. CASE \/ \E c \in L!Commands : Command(c)
           \/ Retry
           \/ \E exact \in BOOLEAN : RecordGate(exact)
           \/ \E gates \in {Snap.gates, Required} :
                AdvancePhase("waiting", gates) \/ AdvancePhase("recovery-required", gates)
  <2>1. PICK by \in {"command", "gate", "advance"}, s \in L!Snapshot :
              /\ Usable /\ ~recovery
              /\ Publish(by, s)
              /\ WorkStage(s) \/ \A a \in Attempts : ~Works(a)
    BY <1>1, Publications
  <2> QED
    BY <2>1 DEF Usable, Publish, Next1, Op, NoOp
<1>2. ASSUME NEW a \in Attempts, Launch(a) PROVE Latched'
  BY <1>2 DEF Launch, Usable, Safe, Op, NoOp
<1>3. ASSUME NEW state \in L!FailureStates, PublishAttemptFailure(state) PROVE Latched'
  BY <1>3 DEF PublishAttemptFailure, Usable, Begin, Mark, Marker, Op, NoOp
<1>4. CASE Reconcile
  BY <1>4 DEF Reconcile, Usable, HasReceipt, Mark, Marker, Op, NoOp
<1>5. CASE CompleteAttempt
  BY <1>5 DEF CompleteAttempt, Usable, Safe, Completable, Begin, Mark, Marker,
       Op, NoOp
<1>6. CASE RefuseCompletion
  BY <1>6 DEF RefuseCompletion, Usable, Safe, Mark, Marker, Op, NoOp
<1>7. CASE FinalizeMarker
  BY <1>7 DEF FinalizeMarker, Usable, ReconciliationFinal, Markers, Op, NoOp
<1>8. CASE Close
  BY <1>8 DEF Close, Usable, Forget, Op, NoOp
<1>9. CASE SpawnWrapper
  BY <1>9 DEF SpawnWrapper
<1>10. CASE SaveReceipt
  BY <1>10 DEF SaveReceipt
<1>11. CASE SendGo
  BY <1>11 DEF SendGo
<1>12. CASE LaunchReturns
  BY <1>12 DEF LaunchReturns, Op, NoOp
<1>13. CASE HandshakeFails
  BY <1>13 DEF HandshakeFails, HasReceipt
<1>14. CASE StopGroup
  BY <1>14 DEF StopGroup
<1>15. CASE StopFails
  BY <1>15 DEF StopFails
<1>16. CASE SaveInterrupted
  BY <1>16 DEF SaveInterrupted, Op, NoOp
<1>17. CASE AppendHistory
  BY <1>17 DEF AppendHistory, Resolution
<1>18. CASE WriteRun
  <2>1. /\ TerminalRun \in runs' /\ TerminalRun.attempt = op.attempt
        /\ TerminalRun.rev = manifest.rev + 1
    BY <1>18 DEF WriteRun, RunAccepts, TerminalRun, Run
  <2> QED
    BY <1>18, <2>1 DEF WriteRun
<1>19. CASE TerminalRefused
  BY <1>19 DEF TerminalRefused
<1>20. CASE RemoveFixture
  BY <1>20 DEF RemoveFixture
<1>21. CASE WriteManifest
  BY <1>21 DEF WriteManifest, Op, NoOp
<1>22. CASE RemoveMarker
  BY <1>22 DEF RemoveMarker, Op, NoOp
<1>23. CASE RequireRecovery
  BY <1>23 DEF RequireRecovery, Mark, Marker
<1>24. CASE SaveRecovering
  BY <1>24 DEF SaveRecovering, HasReceipt, Op, NoOp
<1>25. CASE OpenPlainly
  BY <1>25 DEF OpenPlainly, Opened, InRecovery
<1>26. CASE OpenLatching
  BY <1>26 DEF OpenLatching, Opened, Mark, Marker
<1>27. CASE OpenResuming
  <2> DEFINE r == Run("completed", marker.attempt, manifest.rev + 1)
  <2>1. r \in runs /\ r.attempt = marker.attempt /\ r.rev = manifest.rev + 1
    BY <1>27, ResumableFacts DEF OpenResuming, Run
  <2> QED
    BY <1>27, <2>1 DEF OpenResuming, Opened, Op
<1>28. CASE OpenFinalizing
  BY <1>28 DEF OpenFinalizing, Opened, Op, NoOp
<1>29. CASE OpenRefusing
  BY <1>29 DEF OpenRefusing, Mark, Marker
<1>30. CASE Crash
  BY <1>30 DEF Crash, Forget, Op, NoOp
<1>31. CASE InterruptFails
  BY <1>31 DEF InterruptFails, Fault, CanFail, Op, NoOp
<1>32. CASE PublicationFails
  BY <1>32 DEF PublicationFails, Fault, CanFail, Op, NoOp
<1>33. CASE MarkFails
  BY <1>33 DEF MarkFails, Usable, Fault, CanFail, Op, NoOp
<1>34. CASE RecoveryFails
  BY <1>34 DEF RecoveryFails, Fault, CanFail, Op, NoOp
<1>35. CASE OpenMarkFails
  BY <1>35 DEF OpenMarkFails, Opened, CanFail, Mark, Marker
<1>36. ASSUME NEW a \in Attempts, WrapperStarts(a) PROVE Latched'
  BY <1>36 DEF WrapperStarts, memory
<1>37. ASSUME NEW a \in Attempts, GroupEnds(a) PROVE Latched'
  BY <1>37 DEF GroupEnds, Live, memory
<1> HIDE DEF Latched, Flight, RunsAt, Launching, Terminal, Opening, IInv,
     Types, TypeOK, disk, counts
<1> QED
  BY <1>1, <1>2, <1>3, <1>4, <1>5, <1>6, <1>7, <1>8, <1>9, <1>10, <1>11, <1>12,
       <1>13, <1>14, <1>15, <1>16, <1>17, <1>18, <1>19, <1>20, <1>21,
       <1>22, <1>23, <1>24, <1>25, <1>26, <1>27, <1>28, <1>29, <1>30, <1>31,
       <1>32, <1>33, <1>34, <1>35, <1>36, <1>37
     DEF Next, Ordinary, Continue, Open, WriteFails

(* Only open and the end of an operation let a supervisor rest; open regains *)
(* what works, and refuses only a result, which nothing works on.            *)
LEMMA HeldStep == ASSUME IInv, Next PROVE Held'
<1> USE AttemptAssumption DEF Held, Usable, Flight, Authority, Attribution,
     Settled, IsActive, Works, Live, Launching, Terminal, Opening, IInv, Types,
     TypeOK, disk, counts
<1>1. CASE \/ \E c \in L!Commands : Command(c)
           \/ Retry
           \/ \E exact \in BOOLEAN : RecordGate(exact)
           \/ \E gates \in {Snap.gates, Required} :
                AdvancePhase("waiting", gates) \/ AdvancePhase("recovery-required", gates)
  <2>1. PICK by \in {"command", "gate", "advance"}, s \in L!Snapshot :
              /\ Usable /\ ~recovery
              /\ Publish(by, s)
              /\ WorkStage(s) \/ \A a \in Attempts : ~Works(a)
    BY <1>1, Publications
  <2> QED
    BY <2>1 DEF Publish, Next1, Op, NoOp
<1>2. ASSUME NEW a \in Attempts, Launch(a) PROVE Held'
  BY <1>2 DEF Launch, Safe, Op, NoOp
<1>3. ASSUME NEW state \in L!FailureStates, PublishAttemptFailure(state) PROVE Held'
  BY <1>3 DEF PublishAttemptFailure, Begin, Mark, Marker, Op, NoOp
<1>4. CASE Reconcile
  BY <1>4 DEF Reconcile, HasReceipt, Mark, Marker, Op, NoOp
<1>5. CASE CompleteAttempt
  BY <1>5 DEF CompleteAttempt, Safe, Completable, Begin, Mark, Marker, Op, NoOp
<1>6. CASE RefuseCompletion
  BY <1>6 DEF RefuseCompletion, Safe, Mark, Marker, Op, NoOp
<1>7. CASE FinalizeMarker
  BY <1>7 DEF FinalizeMarker, ReconciliationFinal, Markers, Op, NoOp
<1>8. CASE Close
  BY <1>8 DEF Close, Forget, Op, NoOp
<1>9. CASE SpawnWrapper
  BY <1>9 DEF SpawnWrapper
<1>10. CASE SaveReceipt
  BY <1>10 DEF SaveReceipt
<1>11. CASE SendGo
  BY <1>11 DEF SendGo
<1>12. CASE LaunchReturns
  BY <1>12 DEF LaunchReturns, Op, NoOp
<1>13. CASE HandshakeFails
  BY <1>13 DEF HandshakeFails, HasReceipt
<1>14. CASE StopGroup
  BY <1>14 DEF StopGroup
<1>15. CASE StopFails
  BY <1>15 DEF StopFails
<1>16. CASE SaveInterrupted
  BY <1>16 DEF SaveInterrupted, Op, NoOp
<1>17. CASE AppendHistory
  BY <1>17 DEF AppendHistory, Resolution
<1>18. CASE WriteRun
  BY <1>18 DEF WriteRun, RunAccepts, TerminalRun, Run
<1>19. CASE TerminalRefused
  BY <1>19 DEF TerminalRefused
<1>20. CASE RemoveFixture
  BY <1>20 DEF RemoveFixture
<1>21. CASE WriteManifest
  BY <1>21 DEF WriteManifest, Op, NoOp
<1>22. CASE RemoveMarker
  BY <1>22 DEF RemoveMarker, Op, NoOp
<1>23. CASE RequireRecovery
  BY <1>23 DEF RequireRecovery, Mark, Marker
<1>24. CASE SaveRecovering
  BY <1>24 DEF SaveRecovering, HasReceipt, Op, NoOp
<1>25. CASE OpenPlainly
  BY <1>25, RegainedFacts DEF OpenPlainly, Opened
<1>26. CASE OpenLatching
  BY <1>26, RegainedFacts DEF OpenLatching, Opened
<1>27. CASE OpenResuming
  BY <1>27 DEF OpenResuming, Opened, Op, NoOp
<1>28. CASE OpenFinalizing
  BY <1>28 DEF OpenFinalizing, Opened, Op, NoOp
<1>29. CASE OpenRefusing
  BY <1>29 DEF OpenRefusing, Refused, WorkStage, Snap
<1>30. CASE Crash
  BY <1>30 DEF Crash, Forget, Op, NoOp
<1>31. CASE InterruptFails
  BY <1>31 DEF InterruptFails, Fault, CanFail, Op, NoOp
<1>32. CASE PublicationFails
  BY <1>32 DEF PublicationFails, Fault, CanFail, Op, NoOp
<1>33. CASE MarkFails
  BY <1>33 DEF MarkFails, Fault, CanFail, Op, NoOp
<1>34. CASE RecoveryFails
  BY <1>34 DEF RecoveryFails, Fault, CanFail, Op, NoOp
<1>35. CASE OpenMarkFails
  BY <1>35, RegainedFacts DEF OpenMarkFails, Opened
<1>36. ASSUME NEW a \in Attempts, WrapperStarts(a) PROVE Held'
  BY <1>36 DEF WrapperStarts, memory
<1>37. ASSUME NEW a \in Attempts, GroupEnds(a) PROVE Held'
  BY <1>37 DEF GroupEnds, memory
<1> HIDE DEF Held, Usable, Flight, Authority, Attribution, Settled, IsActive,
     Works, Live, Launching, Terminal, Opening, IInv, Types, TypeOK, disk,
     counts
<1> QED
  BY <1>1, <1>2, <1>3, <1>4, <1>5, <1>6, <1>7, <1>8, <1>9, <1>10, <1>11, <1>12,
       <1>13, <1>14, <1>15, <1>16, <1>17, <1>18, <1>19, <1>20, <1>21,
       <1>22, <1>23, <1>24, <1>25, <1>26, <1>27, <1>28, <1>29, <1>30, <1>31,
       <1>32, <1>33, <1>34, <1>35, <1>36, <1>37
     DEF Next, Ordinary, Continue, Open, WriteFails

(* Every step keeps the types; those that publish rely on PublicationTypes.  *)
LEMMA TypesStep == ASSUME IInv, Next PROVE Types'
<1> USE AttemptAssumption, BoundsAssumption, Prospects, OpenTypes DEF Types,
     TypeOK, Snap, Kinds, Steps, FixtureStates, GroupStates, IInv, Flight,
     Launching, Terminal, Opening, disk, counts
<1>1. CASE \/ \E c \in L!Commands : Command(c)
           \/ Retry
           \/ \E exact \in BOOLEAN : RecordGate(exact)
           \/ \E gates \in {Snap.gates, Required} :
                AdvancePhase("waiting", gates) \/ AdvancePhase("recovery-required", gates)
  <2>1. PICK by \in {"command", "gate", "advance"}, s \in L!Snapshot :
              /\ Usable /\ ~recovery
              /\ Publish(by, s)
              /\ WorkStage(s) \/ \A a \in Attempts : ~Works(a)
    BY <1>1, Publications
  <2>2. Prospect(op')
    BY <2>1, NextTypes DEF Publish
  <2> DEFINE r == Run(by, NoAttempt, manifest.rev + 1)
  <2>3. r \in Runs /\ r.rev <= MaxRevision
    BY <2>1 DEF Publish, Run, Runs, Manifests
  <2> QED
    BY <2>1, <2>2, <2>3 DEF Publish
<1>2. ASSUME NEW a \in Attempts, Launch(a) PROVE Types'
  BY <1>2 DEF Launch, Usable, Safe
<1>3. ASSUME NEW state \in L!FailureStates, PublishAttemptFailure(state) PROVE Types'
  <2>1. Prospect(op') /\ active \in Attempts
    BY <1>3, SnapTypes, PublicationTypes, TerminalPublishable, NextTypes
       DEF PublishAttemptFailure, Begin
  <2> QED
    BY <1>3, <2>1, MarkTypes DEF PublishAttemptFailure, Begin
<1>4. CASE Reconcile
  <2>1. "interrupted" \in L!FailureStates
    BY DEF L!FailureStates
  <2>2. Prospect(op') /\ active \in Attempts
    BY <1>4, <2>1, SnapTypes, PublicationTypes, TerminalPublishable, NextTypes DEF Reconcile
  <2> QED
    BY <1>4, <2>2, MarkTypes DEF Reconcile
<1>5. CASE CompleteAttempt
  <2>1. Prospect(op') /\ active \in Attempts
    BY <1>5, SnapTypes, PublicationTypes, TerminalPublishable, NextTypes
       DEF CompleteAttempt, Completable, Begin
  <2> QED
    BY <1>5, <2>1, MarkTypes DEF CompleteAttempt, Begin
<1>6. CASE RefuseCompletion
  BY <1>6, MarkTypes DEF RefuseCompletion, Usable, Safe
<1>7. CASE FinalizeMarker
  <2>1. Prospect(op')
    BY <1>7 DEF FinalizeMarker, ReconciliationFinal, Markers
  <2> QED
    BY <1>7, <2>1 DEF FinalizeMarker
<1>8. CASE Close
  BY <1>8 DEF Close, Usable, Forget
<1>9. CASE SpawnWrapper
  BY <1>9 DEF SpawnWrapper
<1>10. CASE SaveReceipt
  BY <1>10 DEF SaveReceipt
<1>11. CASE SendGo
  BY <1>11 DEF SendGo
<1>12. CASE LaunchReturns
  BY <1>12 DEF LaunchReturns
<1>13. CASE HandshakeFails
  BY <1>13 DEF HandshakeFails, HasReceipt
<1>14. CASE StopGroup
  BY <1>14 DEF StopGroup
<1>15. CASE StopFails
  BY <1>15 DEF StopFails
<1>16. CASE SaveInterrupted
  BY <1>16 DEF SaveInterrupted
<1>17. CASE AppendHistory
  BY <1>17 DEF AppendHistory, Resolution
<1>18. CASE WriteRun
  <2>1. TerminalRun \in Runs /\ TerminalRun.rev <= MaxRevision
    BY <1>18 DEF WriteRun, TerminalRun, Run, Runs, Prospect, Ops, Manifests
  <2> QED
    BY <1>18, <2>1 DEF WriteRun
<1>19. CASE TerminalRefused
  BY <1>19 DEF TerminalRefused
<1>20. CASE RemoveFixture
  BY <1>20 DEF RemoveFixture
<1>21. CASE WriteManifest
  <2>1. manifest' \in Manifests /\ manifest'.rev <= MaxRevision
        /\ L!Publishable(manifest'.snapshot)
    BY <1>21 DEF WriteManifest, Prospect, Ops
  <2> QED
    BY <1>21, <2>1 DEF WriteManifest
<1>22. CASE RemoveMarker
  BY <1>22 DEF RemoveMarker
<1>23. CASE RequireRecovery
  BY <1>23, MarkTypes DEF RequireRecovery
<1>24. CASE SaveRecovering
  BY <1>24 DEF SaveRecovering, HasReceipt
<1>25. CASE OpenPlainly
  BY <1>25, RegainedFacts DEF OpenPlainly, Opened
<1>26. CASE OpenLatching
  <2>1. CleanupOf \in Attempts \cup {NoAttempt}
    BY <1>26 DEF OpenLatching, CleanupOf, NeedsCleanup, Unpublished, Interrupted
  <2>2. marker' \in Markers /\ history' = "none" /\ recovery' = TRUE
    BY <1>26, <2>1, MarkTypes DEF OpenLatching
  <2> QED
    BY <1>26, <2>2, RegainedFacts DEF OpenLatching, Opened
<1>27. CASE OpenResuming
  <2>1. manifest.rev + 1 <= MaxRevision
    BY <1>27, ResumableFacts DEF OpenResuming, Run
  <2>2. Prospect(op')
    BY <1>27, <2>1, ResumableFacts, SnapTypes, PublicationTypes, TerminalPublishable, NextTypes
       DEF OpenResuming, Manifests
  <2> QED
    BY <1>27, <2>2, RegainedFacts DEF OpenResuming, Opened
<1>28. CASE OpenFinalizing
  <2>1. Prospect(op')
    BY <1>28, FinalizableFacts DEF OpenFinalizing
  <2> QED
    BY <1>28, <2>1, FinalizableFacts DEF OpenFinalizing, Opened
<1>29. CASE OpenRefusing
  BY <1>29, MarkTypes DEF OpenRefusing
<1>30. CASE Crash
  <2>1. crashes' \in 0 .. MaxMishaps
    BY <1>30 DEF Crash
  <2> QED
    BY <1>30, <2>1 DEF Crash, Forget
<1>31. CASE InterruptFails
  BY <1>31 DEF InterruptFails, Fault, CanFail
<1>32. CASE PublicationFails
  BY <1>32 DEF PublicationFails, Fault, CanFail
<1>33. CASE MarkFails
  BY <1>33 DEF MarkFails, Usable, Fault, CanFail
<1>34. CASE RecoveryFails
  <2>1. Prospect(op') /\ faults' \in 0 .. MaxFaults
    BY <1>34 DEF RecoveryFails, Fault, CanFail
  <2>2. recovery' \in BOOLEAN /\ pc' \in Steps /\ active' \in Attempts \cup {NoAttempt}
    BY <1>34 DEF RecoveryFails
  <2> QED
    BY <1>34, <2>1, <2>2 DEF RecoveryFails, Fault
<1>35. CASE OpenMarkFails
  <2>1. marker' \in Markers /\ history' = "none" /\ recovery' = TRUE
    BY <1>35, MarkTypes DEF OpenMarkFails
  <2>2. faults' \in 0 .. MaxFaults
    BY <1>35 DEF OpenMarkFails, CanFail
  <2> QED
    BY <1>35, <2>1, <2>2, RegainedFacts DEF OpenMarkFails, Opened
<1>36. ASSUME NEW a \in Attempts, WrapperStarts(a) PROVE Types'
  BY <1>36 DEF WrapperStarts, memory
<1>37. ASSUME NEW a \in Attempts, GroupEnds(a) PROVE Types'
  BY <1>37 DEF GroupEnds, Live, memory
<1> HIDE DEF Types, TypeOK, Snap, Kinds, Steps, FixtureStates, GroupStates,
     IInv, Flight, Launching, Terminal, Opening, disk, counts
<1> QED
  BY <1>1, <1>2, <1>3, <1>4, <1>5, <1>6, <1>7, <1>8, <1>9, <1>10, <1>11, <1>12,
       <1>13, <1>14, <1>15, <1>16, <1>17, <1>18, <1>19, <1>20, <1>21,
       <1>22, <1>23, <1>24, <1>25, <1>26, <1>27, <1>28, <1>29, <1>30, <1>31,
       <1>32, <1>33, <1>34, <1>35, <1>36, <1>37
     DEF Next, Ordinary, Continue, Open, WriteFails

-----------------------------------------------------------------------------
LEMMA InitIInv == Init => IInv
<1> SUFFICES ASSUME Init PROVE IInv
  OBVIOUS
<1>1. Types
  <2>1. /\ manifest \in Manifests /\ manifest.rev <= MaxRevision
        /\ L!Publishable(Snap)
    BY UnbornTypes, BoundsAssumption DEF Init, Unborn, Snap
  <2>2. crashes \in 0 .. MaxMishaps /\ faults \in 0 .. MaxFaults
    BY BoundsAssumption DEF Init
  <2>3. op \in Ops /\ Prospect(op)
    BY Prospects DEF Init
  <2> QED
    BY <2>1, <2>2, <2>3
       DEF Init, Types, TypeOK, FixtureStates, GroupStates, Steps
<1>2. Flight /\ Authority /\ Latched
  BY DEF Init, Flight, Launching, Terminal, Opening, Authority, IsActive, Settled,
         Latched, NoOp, Op
<1>3. Attribution /\ Held
  BY DEF Init, Attribution, Held, Live, Works, Usable
<1> QED
  BY <1>1, <1>2, <1>3 DEF IInv

LEMMA StutterIInv == IInv /\ UNCHANGED vars => IInv'
<1> SUFFICES ASSUME IInv, UNCHANGED vars PROVE IInv'
  OBVIOUS
<1> USE DEF IInv, vars, disk, memory, counts
<1>1. Types'
  BY DEF Types, TypeOK, Snap
<1>2. Flight' /\ Latched'
  BY DEF Flight, Latched, RunsAt
<1>3. Authority'
  BY DEF Authority, IsActive, Settled
<1>4. Attribution' /\ Held'
  BY DEF Attribution, Held, Live, Works, IsActive, Snap, Usable
<1> QED
  BY <1>1, <1>2, <1>3, <1>4

(* What every reachable state of the orchestrator satisfies; the properties  *)
(* below are read off it.                                                    *)
THEOREM Invariant == Spec => []IInv
<1>1. IInv /\ [Next]_vars => IInv'
  <2> SUFFICES ASSUME IInv, [Next]_vars PROVE IInv'
    OBVIOUS
  <2>1. CASE Next
    BY <2>1, TypesStep, FlightStep, AuthorityStep, AttributionStep, LatchedStep, HeldStep
       DEF IInv
  <2>2. CASE UNCHANGED vars
    BY <2>2, StutterIInv
  <2> QED
    BY <2>1, <2>2
<1> QED
  BY <1>1, InitIInv, PTL DEF Spec

(* The records on disk and the supervisor's memory keep their shape, and     *)
(* what the manifest holds is a snapshot the store agrees to publish.        *)
THEOREM TypeCorrect == Spec => []TypeOK
<1>1. IInv => TypeOK
  BY DEF IInv, Types
<1> QED
  BY <1>1, Invariant, PTL

(* An engine at work is on record with its receipt, whenever the supervisor  *)
(* dies and whichever write fails (GATE_CONTRACT, S2-F22).                   *)
THEOREM WorkIsAttributable == Spec => []AttributableWork
<1>1. IInv => AttributableWork
  BY DEF IInv, Attribution, AttributableWork
<1> QED
  BY <1>1, Invariant, PTL

(* A supervisor between two operations holds the attempt of the engine at    *)
(* work: what it opens after a crash can be reconciled.                      *)
THEOREM WorkIsReapable == Spec => []ReapableWork
<1>1. IInv => ReapableWork
  BY DEF IInv, Authority, Attribution, Held, ReapableWork, Usable, IsActive
<1> QED
  BY <1>1, Invariant, PTL

(* No two attempts claim to be active, at no step of any operation.          *)
THEOREM FixtureIsExact == Spec => []OneActiveFixture
<1>1. ASSUME IInv PROVE OneActiveFixture
  <2> DEFINE S == {a \in Attempts : IsActive(a)}
  <2>1. \A x, y \in S : x = y
    BY <1>1 DEF IInv, Authority
  <2>2. CASE S = {}
    BY <2>2, FS_EmptySet DEF OneActiveFixture
  <2>3. CASE S # {}
    <3>1. PICK x \in S : S = {x}
      BY <2>1, <2>3
    <3>2. Cardinality(S) = 1
      BY <3>1, FS_Singleton
    <3> QED
      BY <3>2 DEF OneActiveFixture
  <2> QED
    BY <2>2, <2>3
<1> QED
  BY <1>1, Invariant, PTL

(* While a marker is on disk no process is started, and the manifest moves   *)
(* to nothing but the terminal run, already durable, of an attempt that is   *)
(* stopped and off the record.                                               *)
THEOREM RecoveryIsFrozen == Spec => RecoveryFreezes
<1> DEFINE Frozen ==
      marker # NoMarker =>
        /\ \A a \in Attempts : Live(a)' => Live(a)
        /\ manifest' # manifest =>
             \E r \in RunsAt(manifest.rev + 1) :
               r.attempt # NoAttempt /\ ~Live(r.attempt) /\ ~IsActive(r.attempt)
<1>1. ASSUME IInv, Next, marker # NoMarker PROVE Frozen
  <2>1. ASSUME WriteManifest PROVE Frozen
    <3>1. op.kind # "publish" /\ op.attempt \in Attempts
      BY <1>1, <2>1 DEF WriteManifest, IInv, Flight, Latched
    <3>2. ~IsActive(op.attempt) /\ ~Live(op.attempt)
      BY <1>1, <2>1, <3>1 DEF WriteManifest, IInv, Authority, Attribution, Settled
    <3>3. \E r \in RunsAt(manifest.rev + 1) : r.attempt = op.attempt
      BY <1>1, <2>1, <3>1 DEF WriteManifest, IInv, Latched
    <3> QED
      BY <2>1, <3>1, <3>2, <3>3, AttemptAssumption DEF WriteManifest, Live
  <2>2. ASSUME ~WriteManifest PROVE manifest' = manifest
    BY <1>1, <2>2 DEF Next, Ordinary, Continue, Open, WriteFails, Command, Retry, RecordGate,
       AdvancePhase, Publish, Launch, PublishAttemptFailure, Reconcile, CompleteAttempt,
       RefuseCompletion, FinalizeMarker, Close, Crash, Forget, SpawnWrapper, SaveReceipt,
       SendGo, LaunchReturns, HandshakeFails, StopGroup, StopFails, SaveInterrupted,
       AppendHistory, WriteRun, TerminalRefused, RemoveFixture,
       RemoveMarker, RequireRecovery, SaveRecovering, OpenPlainly, OpenLatching,
       OpenResuming, OpenFinalizing, OpenRefusing, InterruptFails, PublicationFails,
       MarkFails, RecoveryFails, OpenMarkFails, Fault, WrapperStarts, GroupEnds, disk
  <2>3. ~SpawnWrapper /\ ~SendGo
    BY <1>1 DEF SpawnWrapper, SendGo, IInv, Latched
  <2>4. \A a \in Attempts : Live(a)' => Live(a)
    BY <1>1, <2>3 DEF Next, Ordinary, Continue, Open, WriteFails, Command, Retry, RecordGate,
       AdvancePhase, Publish, Launch, PublishAttemptFailure, Reconcile, CompleteAttempt,
       RefuseCompletion, FinalizeMarker, Close, Crash, Forget, SaveReceipt, LaunchReturns,
       HandshakeFails, StopGroup, StopFails, SaveInterrupted, AppendHistory, WriteRun,
       TerminalRefused, RemoveFixture, WriteManifest, RemoveMarker,
       RequireRecovery, SaveRecovering, OpenPlainly, OpenLatching, OpenResuming,
       OpenFinalizing, OpenRefusing, InterruptFails, PublicationFails, MarkFails,
       RecoveryFails, OpenMarkFails, Fault, WrapperStarts, GroupEnds, Live, IInv, Types,
       TypeOK
  <2> QED
    BY <2>1, <2>2, <2>4
<1>2. IInv /\ [Next]_vars => [Frozen]_vars
  BY <1>1
<1> QED
  BY <1>2, Invariant, PTL DEF Spec, RecoveryFreezes

-----------------------------------------------------------------------------
(* The orchestrator implements the project's life of Lifecycle.tla.  A step  *)
(* of Lifecycle is the manifest's write or GO, so the argument is that what  *)
(* an operation decided at its beginning is still lawful there.  From the    *)
(* same invariant: no fixture stands beside a result, and the runs chain.    *)

(* The steps at which an operation still has its publication before it.      *)
Ending == {"stop", "interrupt", "history", "run", "fixture", "manifest"}

(* A marker is about this manifest or about an earlier one; about this one   *)
(* while a record reads 'running', so the overlay that open takes from it is *)
(* the manifest's.                                                           *)
Tracks ==
  marker # NoMarker =>
    /\ marker.of.rev <= manifest.rev
    /\ marker.of.rev = manifest.rev => marker.of = manifest
    /\ (\E a \in Attempts : fixture[a] = "running") => marker.of = manifest

(* Whoever holds an attempt is in its build, or the publication that ended   *)
(* the build is there and only its marker is left: then the attempt has its  *)
(* run, and no other of its publications is accepted.                        *)
Engaged(a) ==
  \/ active = a
  \/ IsActive(a)
  \/ pc # "idle" /\ op.kind \in Terminal \cup {"launch", "resume"} /\ op.attempt = a
Spent(a) == \E r \in runs : r.attempt = a /\ r.rev <= manifest.rev
Accounted ==
  \A a \in Attempts : Engaged(a) =>
    \/ L!Building(Snap) \/ Snap.stage # "G4"
    \/ marker # NoMarker /\ marker.of.rev < manifest.rev /\ Spent(a)

(* A terminal publication is made under its marker and lets go of its        *)
(* attempt before the manifest moves.                                        *)
Released ==
  /\ pc \in {"manifest", "unmark"} /\ op.kind \in Terminal \cup {"finalize"} =>
       active = NoAttempt
  /\ pc \in {"history", "run"} /\ op.kind \in {"failure", "reconcile"} =>
       active = NoAttempt
  /\ pc \in {"run", "fixture", "manifest", "unmark"} /\ op.kind \in Terminal =>
       marker # NoMarker

(* An ordinary publication is one that Lifecycle makes of the manifest.      *)
Lawful(n) ==
  \/ /\ active = NoAttempt
     /\ \/ \E c \in L!Commands : L!CommandAllowed(Snap, c) /\ n = L!AfterCommand(Snap, c)
        \/ L!RetryAllowed(Snap) /\ n = L!AfterRetry(Snap)
        \/ \E gates \in 0 .. L!Spoiled :
             L!AdvanceAllowed(Snap, "waiting", gates) /\ n = L!AfterAdvance(Snap, "waiting", gates)
  \/ \E exact \in BOOLEAN : L!Safe(Snap) /\ n = L!AfterGate(Snap, exact)
  \/ \E gates \in 0 .. L!Spoiled :
       /\ L!AdvanceAllowed(Snap, "recovery-required", gates)
       /\ n = L!AfterAdvance(Snap, "recovery-required", gates)

(* What is about to be published is made of the manifest on disk; only a     *)
(* reconciliation may begin after its attempt's build has ended.             *)
Due ==
  /\ pc \in {"spawn", "arm", "go"} => L!Building(Snap)
  /\ pc = "manifest" /\ op.kind = "publish" =>
       op.next.rev = manifest.rev + 1 /\ Lawful(op.next.snapshot)
  /\ pc \in Ending /\ op.kind = "failure" =>
       L!Building(Snap) /\ \E state \in L!FailureStates : op.next = Next1(L!AfterFailure(Snap, state))
  /\ pc \in Ending /\ op.kind \in {"complete", "resume"} =>
       L!Building(Snap) /\ L!Evident(Snap) /\ op.next = Next1(L!AfterCompletion(Snap))
  /\ pc \in Ending /\ op.kind = "reconcile" =>
       op.next = Next1(L!AfterFailure(Snap, "interrupted"))
  /\ pc \in {"history", "run"} /\ op.kind = "reconcile" => Snap.stage = "G4"
  /\ pc = "manifest" /\ op.kind = "reconcile" => L!Building(Snap)

(* As long as no write fails, whoever holds an attempt holds it in a build   *)
(* or in a published recovery.                                               *)
Holding ==
  \/ \E a \in Attempts : IsActive(a)
  \/ active # NoAttempt /\ pc # "unmark"
  \/ pc \notin {"idle", "unmark"} /\ op.kind # "publish"
InBuild == faults = 0 /\ Holding => WorkStage(Snap)

(* Each revision has its run; as long as no write fails it has only one, and *)
(* a run beyond the manifest is either on its way there or keeps the         *)
(* supervisor in recovery, with at most its own attempt to reconcile.        *)
Stray(r) == r.rev = manifest.rev + 1
Chain ==
  /\ \A rev \in 1 .. manifest.rev : RunsAt(rev) # {}
  /\ pc = "manifest" => RunsAt(manifest.rev + 1) # {}
  /\ \A r \in runs : r.rev <= manifest.rev + 1
  /\ faults = 0 => \A q, r \in runs : q.rev = r.rev => q = r
  /\ faults = 0 /\ pc = "unmark" => \A r \in runs : ~Stray(r)
  /\ faults = 0 /\ up /\ pc \notin {"fixture", "manifest"} =>
       \A r \in runs : Stray(r) =>
         /\ recovery
         /\ trusted => /\ r.by = "completed" /\ r.attempt # NoAttempt
                       /\ active \in {NoAttempt, r.attempt}
                       /\ pc # "idle" => op.attempt = r.attempt
                       /\ marker # NoMarker /\ marker.of = manifest

RInv == Tracks /\ Accounted /\ Released /\ Due /\ InBuild /\ Chain

-----------------------------------------------------------------------------
(* A new marker is about the manifest on disk.                               *)
LEMMA MarkTracks ==
  ASSUME TypeOK, UNCHANGED manifest
  PROVE  \A a : Mark(a) => marker'.of = manifest' /\ marker'.of.rev <= manifest'.rev
  BY DEF TypeOK, Manifests, Mark, Marker

(* The commands, the gates and the two advances publish what Lifecycle does. *)
LEMMA LawfulPublications ==
  ASSUME IInv,
         \/ \E c \in L!Commands : Command(c)
         \/ Retry
         \/ \E exact \in BOOLEAN : RecordGate(exact)
         \/ \E gates \in {Snap.gates, Required} :
              AdvancePhase("waiting", gates) \/ AdvancePhase("recovery-required", gates)
  PROVE  \E by \in {"command", "gate", "advance"}, s \in L!Snapshot :
           Usable /\ ~recovery /\ Publish(by, s) /\ Lawful(s)
<1>1. Snap \in L!Snapshot
  BY SnapTypes DEF IInv, Types
<1>2. {Snap.gates, Required} \subseteq 0 .. L!Spoiled
  BY <1>1, GatesAssumption DEF L!Snapshot, L!Spoiled
<1>3. ASSUME NEW c \in L!Commands, Command(c)
      PROVE  /\ Usable /\ ~recovery /\ Publish("command", L!AfterCommand(Snap, c))
             /\ Lawful(L!AfterCommand(Snap, c))
  BY <1>3 DEF Command, Safe, Lawful
<1>4. ASSUME Retry
      PROVE  /\ Usable /\ ~recovery /\ Publish("command", L!AfterRetry(Snap))
             /\ Lawful(L!AfterRetry(Snap))
  BY <1>4 DEF Retry, Safe, Lawful
<1>5. ASSUME NEW exact \in BOOLEAN, RecordGate(exact)
      PROVE  /\ Usable /\ ~recovery /\ Publish("gate", L!AfterGate(Snap, exact))
             /\ Lawful(L!AfterGate(Snap, exact))
  BY <1>5 DEF RecordGate, Safe, Lawful
<1>6. ASSUME NEW run \in {"waiting", "recovery-required"}, NEW gates \in {Snap.gates, Required},
             AdvancePhase(run, gates)
      PROVE  /\ Usable /\ ~recovery /\ Publish("advance", L!AfterAdvance(Snap, run, gates))
             /\ Lawful(L!AfterAdvance(Snap, run, gates))
  BY <1>2, <1>6 DEF AdvancePhase, Lawful
<1> QED
  BY <1>1, <1>3, <1>4, <1>5, <1>6, PublicationTypes

(* What the manifest becomes.                                                *)
LEMMA Published ==
  ASSUME IInv, RInv, WriteManifest
  PROVE  /\ op.next.rev = manifest.rev + 1
         /\ \/ op.kind = "publish" /\ Lawful(op.next.snapshot)
            \/ /\ op.kind \in {"failure", "reconcile"} /\ L!Building(Snap)
               /\ \E state \in L!FailureStates :
                    op.next.snapshot = L!AfterFailure(Snap, state)
            \/ /\ op.kind \in {"complete", "resume"} /\ L!Building(Snap) /\ L!Evident(Snap)
               /\ op.next.snapshot = L!AfterCompletion(Snap)
<1>1. up /\ pc = "manifest" /\ op.kind \in Terminal \cup {"publish", "resume"}
  BY DEF WriteManifest, IInv, Flight
<1>2. CASE op.kind = "publish"
  BY <1>1, <1>2 DEF RInv, Due
<1>3. CASE op.kind = "failure"
  <2>1. PICK state \in L!FailureStates : op.next = Next1(L!AfterFailure(Snap, state))
    BY <1>1, <1>3 DEF RInv, Due, Ending
  <2>2. L!Building(Snap)
    BY <1>1, <1>3 DEF RInv, Due, Ending
  <2> QED
    BY <1>3, <2>1, <2>2 DEF Next1
<1>4. CASE op.kind \in {"complete", "resume"}
  BY <1>1, <1>4 DEF RInv, Due, Ending, Next1
<1>5. CASE op.kind = "reconcile"
  <2>1. L!Building(Snap) /\ op.next = Next1(L!AfterFailure(Snap, "interrupted"))
    BY <1>1, <1>5 DEF RInv, Due, Ending
  <2> QED
    BY <1>5, <2>1 DEF Next1, L!FailureStates
<1> QED
  BY <1>1, <1>2, <1>3, <1>4, <1>5 DEF Terminal

(* A run beyond the manifest, where the chain verifies, is the completed run *)
(* that open resumes; then no publication only lacks its marker's removal.   *)
LEMMA StrayFacts ==
  ASSUME IInv, RInv, faults = 0, ChainVerifies, NEW r \in runs, Stray(r)
  PROVE  /\ marker # NoMarker /\ marker.attempt # NoAttempt /\ marker.of = manifest
         /\ L!Building(Snap)
         /\ r.by = "completed" /\ r.attempt = marker.attempt
         /\ Regained \in {NoAttempt, r.attempt}
         /\ ~CompletionFinal /\ ~ReconciliationFinal
<1>1. PreparedCompletion
  BY DEF ChainVerifies, RunsAt, Stray
<1> DEFINE c == Run("completed", marker.attempt, manifest.rev + 1)
<1>2. c \in runs /\ c.rev = manifest.rev + 1 /\ c.by = "completed" /\ c.attempt = marker.attempt
  BY <1>1 DEF PreparedCompletion, Run
<1>3. r = c
  BY <1>2 DEF RInv, Chain, Stray
<1>4. Regained \in {NoAttempt, marker.attempt}
  BY <1>1, RegainedFacts DEF PreparedCompletion, IsActive
<1>5. manifest.rev # marker.of.rev + 1
  BY <1>1, SnapTypes DEF PreparedCompletion, IInv, Types, Manifests
<1> QED
  BY <1>1, <1>2, <1>3, <1>4, <1>5 DEF PreparedCompletion, CompletionFinal, ReconciliationFinal

(* A supervisor out of recovery has no run beyond its manifest.              *)
LEMMA NoStrayOutOfRecovery ==
  ASSUME IInv, RInv, Usable, ~recovery, faults = 0
  PROVE  \A r \in runs : ~Stray(r)
  BY DEF RInv, Chain, Usable

(* The manifest only moves on, and a marker is made of the one on disk.      *)
LEMMA TracksStep == ASSUME IInv, RInv, Next PROVE Tracks'
<1> USE AttemptAssumption DEF Tracks, Flight, Launching, Terminal, Opening,
     IInv, RInv, Types, TypeOK, disk, counts
<1>1. CASE \/ \E c \in L!Commands : Command(c)
           \/ Retry
           \/ \E exact \in BOOLEAN : RecordGate(exact)
           \/ \E gates \in {Snap.gates, Required} :
                AdvancePhase("waiting", gates) \/ AdvancePhase("recovery-required", gates)
  <2>1. PICK by \in {"command", "gate", "advance"}, s \in L!Snapshot :
              /\ Usable /\ ~recovery
              /\ Publish(by, s)
              /\ WorkStage(s) \/ \A a \in Attempts : ~Works(a)
    BY <1>1, Publications
  <2> QED
    BY <2>1 DEF Usable, Publish, Op
<1>2. ASSUME NEW a \in Attempts, Launch(a) PROVE Tracks'
  BY <1>2 DEF Launch, Usable, Safe, Op, NoOp
<1>3. ASSUME NEW state \in L!FailureStates, PublishAttemptFailure(state) PROVE Tracks'
  BY <1>3, MarkTracks DEF PublishAttemptFailure
<1>4. CASE Reconcile
  BY <1>4, MarkTracks DEF Reconcile
<1>5. CASE CompleteAttempt
  BY <1>5, MarkTracks DEF CompleteAttempt
<1>6. CASE RefuseCompletion
  BY <1>6, MarkTracks DEF RefuseCompletion
<1>7. CASE FinalizeMarker
  BY <1>7 DEF FinalizeMarker, Usable, ReconciliationFinal, Markers, Op, NoOp
<1>8. CASE Close
  BY <1>8 DEF Close, Usable, Forget, Op, NoOp
<1>9. CASE SpawnWrapper
  BY <1>9 DEF SpawnWrapper
<1>10. CASE SaveReceipt
  BY <1>10 DEF SaveReceipt, IInv, Latched
<1>11. CASE SendGo
  BY <1>11 DEF SendGo
<1>12. CASE LaunchReturns
  BY <1>12 DEF LaunchReturns, Op, NoOp
<1>13. CASE HandshakeFails
  BY <1>13 DEF HandshakeFails, HasReceipt
<1>14. CASE StopGroup
  BY <1>14 DEF StopGroup
<1>15. CASE StopFails
  BY <1>15 DEF StopFails
<1>16. CASE SaveInterrupted
  BY <1>16 DEF SaveInterrupted, Op, NoOp
<1>17. CASE AppendHistory
  BY <1>17 DEF AppendHistory, Resolution
<1>18. CASE WriteRun
  BY <1>18 DEF WriteRun, RunAccepts, TerminalRun, Run
<1>19. CASE TerminalRefused
  BY <1>19 DEF TerminalRefused
<1>20. CASE RemoveFixture
  BY <1>20 DEF RemoveFixture
<1>21. CASE WriteManifest
  <2>1. manifest'.rev = manifest.rev + 1 /\ marker' = marker
    BY <1>21, Published DEF WriteManifest
  <2>2. marker # NoMarker => marker.of.rev \in Nat /\ marker.of.rev <= manifest.rev
    BY DEF Markers, Manifests
  <2>3. fixture' = fixture /\ pc = "manifest"
    BY <1>21 DEF WriteManifest
  <2>4. marker # NoMarker => \A a \in Attempts : fixture[a] # "running"
    BY <2>3 DEF IInv, Latched, Authority, Settled, IsActive
  <2> QED
    BY <2>1, <2>2, <2>3, <2>4 DEF Manifests
<1>22. CASE RemoveMarker
  BY <1>22 DEF RemoveMarker, Op, NoOp
<1>23. CASE RequireRecovery
  BY <1>23, MarkTracks DEF RequireRecovery
<1>24. CASE SaveRecovering
  BY <1>24 DEF SaveRecovering, HasReceipt, Op, NoOp
<1>25. CASE OpenPlainly
  BY <1>25 DEF OpenPlainly, Opened
<1>26. CASE OpenLatching
  BY <1>26, MarkTracks DEF OpenLatching
<1>27. CASE OpenResuming
  BY <1>27 DEF OpenResuming, Opened, Op, NoOp
<1>28. CASE OpenFinalizing
  BY <1>28 DEF OpenFinalizing, Opened, Op, NoOp
<1>29. CASE OpenRefusing
  BY <1>29, MarkTracks DEF OpenRefusing
<1>30. CASE Crash
  BY <1>30 DEF Crash, Forget, Op, NoOp
<1>31. CASE InterruptFails
  BY <1>31 DEF InterruptFails, Fault, CanFail, Op, NoOp
<1>32. CASE PublicationFails
  BY <1>32 DEF PublicationFails, Fault, CanFail, Op, NoOp
<1>33. CASE MarkFails
  BY <1>33 DEF MarkFails, Usable, Fault, CanFail, Op, NoOp
<1>34. CASE RecoveryFails
  BY <1>34 DEF RecoveryFails, Fault, CanFail, Op, NoOp
<1>35. CASE OpenMarkFails
  BY <1>35, MarkTracks DEF OpenMarkFails
<1>36. ASSUME NEW a \in Attempts, WrapperStarts(a) PROVE Tracks'
  BY <1>36 DEF WrapperStarts, memory
<1>37. ASSUME NEW a \in Attempts, GroupEnds(a) PROVE Tracks'
  BY <1>37 DEF GroupEnds, Live, memory
<1> HIDE DEF Tracks, Flight, Launching, Terminal, Opening, IInv, RInv, Types,
     TypeOK, disk, counts
<1> QED
  BY <1>1, <1>2, <1>3, <1>4, <1>5, <1>6, <1>7, <1>8, <1>9, <1>10, <1>11, <1>12,
       <1>13, <1>14, <1>15, <1>16, <1>17, <1>18, <1>19, <1>20, <1>21,
       <1>22, <1>23, <1>24, <1>25, <1>26, <1>27, <1>28, <1>29, <1>30, <1>31,
       <1>32, <1>33, <1>34, <1>35, <1>36, <1>37
     DEF Next, Ordinary, Continue, Open, WriteFails

(* An attempt is taken up in a build; the manifest leaves the build under    *)
(* its holder only with the marker that still names it, or to G5.            *)
LEMMA AccountedStep == ASSUME IInv, RInv, Next PROVE Accounted'
<1> USE AttemptAssumption DEF Accounted, Engaged, Spent, Released, Flight, Authority,
     Settled, Latched, IsActive, Snap, Launching, Terminal, Opening, IInv,
     RInv, Types, TypeOK, disk, counts
<1>1. CASE \/ \E c \in L!Commands : Command(c)
           \/ Retry
           \/ \E exact \in BOOLEAN : RecordGate(exact)
           \/ \E gates \in {Snap.gates, Required} :
                AdvancePhase("waiting", gates) \/ AdvancePhase("recovery-required", gates)
  <2>1. PICK by \in {"command", "gate", "advance"}, s \in L!Snapshot :
              /\ Usable /\ ~recovery
              /\ Publish(by, s)
              /\ WorkStage(s) \/ \A a \in Attempts : ~Works(a)
    BY <1>1, Publications
  <2> QED
    BY <2>1 DEF Usable, Publish, Op
<1>2. ASSUME NEW a \in Attempts, Launch(a) PROVE Accounted'
  BY <1>2 DEF Launch, Usable, Safe, Op, NoOp
<1>3. ASSUME NEW state \in L!FailureStates, PublishAttemptFailure(state) PROVE Accounted'
  BY <1>3 DEF PublishAttemptFailure, Usable, Begin, Mark, Marker, Op, NoOp
<1>4. CASE Reconcile
  BY <1>4 DEF Reconcile, Usable, HasReceipt, Mark, Marker, Op, NoOp
<1>5. CASE CompleteAttempt
  BY <1>5 DEF CompleteAttempt, Usable, Safe, Completable, Begin, Mark, Marker,
       Op, NoOp
<1>6. CASE RefuseCompletion
  BY <1>6 DEF RefuseCompletion, Usable, Safe, Mark, Marker, Op, NoOp
<1>7. CASE FinalizeMarker
  BY <1>7 DEF FinalizeMarker, Usable, ReconciliationFinal, Markers, Op, NoOp
<1>8. CASE Close
  BY <1>8 DEF Close, Usable, Forget, Op, NoOp
<1>9. CASE SpawnWrapper
  BY <1>9 DEF SpawnWrapper
<1>10. CASE SaveReceipt
  BY <1>10 DEF SaveReceipt
<1>11. CASE SendGo
  BY <1>11 DEF SendGo
<1>12. CASE LaunchReturns
  BY <1>12 DEF LaunchReturns, Op, NoOp
<1>13. CASE HandshakeFails
  BY <1>13 DEF HandshakeFails, HasReceipt
<1>14. CASE StopGroup
  BY <1>14 DEF StopGroup
<1>15. CASE StopFails
  BY <1>15 DEF StopFails
<1>16. CASE SaveInterrupted
  BY <1>16 DEF SaveInterrupted, Op, NoOp
<1>17. CASE AppendHistory
  BY <1>17 DEF AppendHistory, Resolution
<1>18. CASE WriteRun
  BY <1>18 DEF WriteRun, RunAccepts, TerminalRun, Run
<1>19. CASE TerminalRefused
  BY <1>19 DEF TerminalRefused
<1>20. CASE RemoveFixture
  BY <1>20 DEF RemoveFixture
<1>21. CASE WriteManifest
  <2>1. CASE op.kind = "publish" /\ Lawful(op.next.snapshot)
    <3>1. CASE active = NoAttempt
      BY <1>21, <2>1, <3>1 DEF WriteManifest, NoOp, Op
    <3>2. CASE active # NoAttempt
      <4>1. \/ Snap'.stage = Snap.stage /\ (L!Building(Snap)' <=> L!Building(Snap))
            \/ Snap'.stage # "G4"
        BY <1>21, <2>1, <3>2, SnapTypes
           DEF WriteManifest, Lawful, L!Building, L!AfterGate, L!AfterAdvance, L!Becomes,
               L!State, L!Snapshot
      <4> QED
        BY <1>21, <2>1, <3>2, <4>1 DEF WriteManifest
    <3> QED
      BY <3>1, <3>2
  <2>2. CASE op.kind \in {"failure", "reconcile"}
    <3>1. manifest'.rev = manifest.rev + 1 /\ marker' = marker /\ marker # NoMarker
      BY <1>21, <2>2, Published DEF WriteManifest
    <3>2. marker.of.rev \in Nat /\ marker.of.rev <= manifest.rev
      BY <3>1 DEF Markers, Manifests, Tracks
    <3>3. marker'.of.rev < manifest'.rev
      BY <3>1, <3>2 DEF Manifests
    <3>4. \A a \in Attempts : Engaged(a)' => a = op.attempt
      BY <1>21, <2>2 DEF WriteManifest
    <3>5. PICK q \in runs : q.attempt = op.attempt /\ q.rev = manifest.rev + 1
      BY <1>21, <2>2 DEF WriteManifest, RunsAt
    <3>6. q \in runs' /\ q.attempt = op.attempt /\ q.rev <= manifest'.rev
      BY <1>21, <3>1, <3>5, SnapTypes DEF WriteManifest, Manifests
    <3>7. \A a \in Attempts : a = op.attempt => Spent(a)'
      BY <3>6
    <3> HIDE DEF Engaged, Spent
    <3>8. \A a \in Attempts : Engaged(a)' => Spent(a)'
      BY <3>4, <3>7
    <3> QED
      BY <3>1, <3>3, <3>8
  <2>3. CASE op.kind \in {"complete", "resume"}
    <3>1. Snap'.stage = "G5"
      BY <1>21, <2>3, Published, SnapTypes
         DEF WriteManifest, L!AfterCompletion, L!Becomes, L!State, L!Snapshot
    <3> QED
      BY <3>1
  <2> QED
    BY <1>21, <2>1, <2>2, <2>3, Published
<1>22. CASE RemoveMarker
  BY <1>22 DEF RemoveMarker, Op, NoOp
<1>23. CASE RequireRecovery
  BY <1>23 DEF RequireRecovery, Mark, Marker
<1>24. CASE SaveRecovering
  BY <1>24 DEF SaveRecovering, HasReceipt, Op, NoOp
<1>25. CASE OpenPlainly
  BY <1>25, RegainedFacts DEF OpenPlainly, Opened
<1>26. CASE OpenLatching
  BY <1>26, RegainedFacts DEF OpenLatching, Opened
<1>27. CASE OpenResuming
  BY <1>27, ResumableFacts DEF OpenResuming, Opened
<1>28. CASE OpenFinalizing
  BY <1>28, FinalizableFacts DEF OpenFinalizing, Opened, Op
<1>29. CASE OpenRefusing
  BY <1>29 DEF OpenRefusing, Mark, Marker
<1>30. CASE Crash
  BY <1>30 DEF Crash, Forget, Op, NoOp
<1>31. CASE InterruptFails
  BY <1>31 DEF InterruptFails, Fault, CanFail, Op, NoOp
<1>32. CASE PublicationFails
  BY <1>32 DEF PublicationFails, Fault, CanFail, Op, NoOp
<1>33. CASE MarkFails
  BY <1>33 DEF MarkFails, Usable, Fault, CanFail, Op, NoOp
<1>34. CASE RecoveryFails
  BY <1>34 DEF RecoveryFails, Fault, CanFail, Op, NoOp
<1>35. CASE OpenMarkFails
  BY <1>35, RegainedFacts DEF OpenMarkFails, Opened
<1>36. ASSUME NEW a \in Attempts, WrapperStarts(a) PROVE Accounted'
  BY <1>36 DEF WrapperStarts, memory
<1>37. ASSUME NEW a \in Attempts, GroupEnds(a) PROVE Accounted'
  BY <1>37 DEF GroupEnds, Live, memory
<1> HIDE DEF Accounted, Engaged, Spent, Released, Flight, Authority, Settled, Latched,
     IsActive, Snap, Launching, Terminal, Opening, IInv, RInv, Types, TypeOK,
     disk, counts
<1> QED
  BY <1>1, <1>2, <1>3, <1>4, <1>5, <1>6, <1>7, <1>8, <1>9, <1>10, <1>11, <1>12,
       <1>13, <1>14, <1>15, <1>16, <1>17, <1>18, <1>19, <1>20, <1>21,
       <1>22, <1>23, <1>24, <1>25, <1>26, <1>27, <1>28, <1>29, <1>30, <1>31,
       <1>32, <1>33, <1>34, <1>35, <1>36, <1>37
     DEF Next, Ordinary, Continue, Open, WriteFails

(* The record is interrupted or removed, and the history accepted its        *)
(* marker, before the manifest moves.                                        *)
LEMMA ReleasedStep == ASSUME IInv, RInv, Next PROVE Released'
<1> USE AttemptAssumption DEF Released, Flight, Launching, Terminal, Opening,
     IInv, RInv, Types, TypeOK, disk, counts
<1>1. CASE \/ \E c \in L!Commands : Command(c)
           \/ Retry
           \/ \E exact \in BOOLEAN : RecordGate(exact)
           \/ \E gates \in {Snap.gates, Required} :
                AdvancePhase("waiting", gates) \/ AdvancePhase("recovery-required", gates)
  <2>1. PICK by \in {"command", "gate", "advance"}, s \in L!Snapshot :
              /\ Usable /\ ~recovery
              /\ Publish(by, s)
              /\ WorkStage(s) \/ \A a \in Attempts : ~Works(a)
    BY <1>1, Publications
  <2> QED
    BY <2>1 DEF Usable, Publish, Op
<1>2. ASSUME NEW a \in Attempts, Launch(a) PROVE Released'
  BY <1>2 DEF Launch, Usable, Safe, Op, NoOp
<1>3. ASSUME NEW state \in L!FailureStates, PublishAttemptFailure(state) PROVE Released'
  BY <1>3 DEF PublishAttemptFailure, Usable, Begin, Mark, Marker, Op, NoOp
<1>4. CASE Reconcile
  BY <1>4 DEF Reconcile, Usable, HasReceipt, Mark, Marker, Op, NoOp
<1>5. CASE CompleteAttempt
  BY <1>5 DEF CompleteAttempt, Usable, Safe, Completable, Begin, Mark, Marker,
       Op, NoOp
<1>6. CASE RefuseCompletion
  BY <1>6 DEF RefuseCompletion, Usable, Safe, Mark, Marker, Op, NoOp
<1>7. CASE FinalizeMarker
  BY <1>7 DEF FinalizeMarker, Usable, ReconciliationFinal, Markers, Op, NoOp
<1>8. CASE Close
  BY <1>8 DEF Close, Usable, Forget, Op, NoOp
<1>9. CASE SpawnWrapper
  BY <1>9 DEF SpawnWrapper
<1>10. CASE SaveReceipt
  BY <1>10 DEF SaveReceipt
<1>11. CASE SendGo
  BY <1>11 DEF SendGo
<1>12. CASE LaunchReturns
  BY <1>12 DEF LaunchReturns, Op, NoOp
<1>13. CASE HandshakeFails
  BY <1>13 DEF HandshakeFails, HasReceipt
<1>14. CASE StopGroup
  BY <1>14 DEF StopGroup
<1>15. CASE StopFails
  BY <1>15 DEF StopFails
<1>16. CASE SaveInterrupted
  BY <1>16 DEF SaveInterrupted, Op, NoOp
<1>17. CASE AppendHistory
  BY <1>17 DEF AppendHistory, HistoryAccepts
<1>18. CASE WriteRun
  BY <1>18 DEF WriteRun, RunAccepts, TerminalRun, Run
<1>19. CASE TerminalRefused
  BY <1>19 DEF TerminalRefused
<1>20. CASE RemoveFixture
  BY <1>20 DEF RemoveFixture
<1>21. CASE WriteManifest
  BY <1>21 DEF WriteManifest, Op, NoOp
<1>22. CASE RemoveMarker
  BY <1>22 DEF RemoveMarker, Op, NoOp
<1>23. CASE RequireRecovery
  BY <1>23 DEF RequireRecovery, Mark, Marker
<1>24. CASE SaveRecovering
  BY <1>24 DEF SaveRecovering, HasReceipt, Op, NoOp
<1>25. CASE OpenPlainly
  BY <1>25 DEF OpenPlainly, Opened
<1>26. CASE OpenLatching
  BY <1>26 DEF OpenLatching, Opened, Mark, Marker
<1>27. CASE OpenResuming
  BY <1>27 DEF OpenResuming, Opened, Op, NoOp
<1>28. CASE OpenFinalizing
  BY <1>28, FinalizableFacts DEF OpenFinalizing, Opened, Op
<1>29. CASE OpenRefusing
  BY <1>29 DEF OpenRefusing, Mark, Marker
<1>30. CASE Crash
  BY <1>30 DEF Crash, Forget, Op, NoOp
<1>31. CASE InterruptFails
  BY <1>31 DEF InterruptFails, Fault, CanFail, Op, NoOp
<1>32. CASE PublicationFails
  BY <1>32 DEF PublicationFails, Fault, CanFail, Op, NoOp
<1>33. CASE MarkFails
  BY <1>33 DEF MarkFails, Usable, Fault, CanFail, Op, NoOp
<1>34. CASE RecoveryFails
  BY <1>34 DEF RecoveryFails, Fault, CanFail, Op, NoOp
<1>35. CASE OpenMarkFails
  BY <1>35 DEF OpenMarkFails, Opened, CanFail, Mark, Marker
<1>36. ASSUME NEW a \in Attempts, WrapperStarts(a) PROVE Released'
  BY <1>36 DEF WrapperStarts, memory
<1>37. ASSUME NEW a \in Attempts, GroupEnds(a) PROVE Released'
  BY <1>37 DEF GroupEnds, Live, memory
<1> HIDE DEF Released, Flight, Launching, Terminal, Opening, IInv, RInv, Types,
     TypeOK, disk, counts
<1> QED
  BY <1>1, <1>2, <1>3, <1>4, <1>5, <1>6, <1>7, <1>8, <1>9, <1>10, <1>11, <1>12,
       <1>13, <1>14, <1>15, <1>16, <1>17, <1>18, <1>19, <1>20, <1>21,
       <1>22, <1>23, <1>24, <1>25, <1>26, <1>27, <1>28, <1>29, <1>30, <1>31,
       <1>32, <1>33, <1>34, <1>35, <1>36, <1>37
     DEF Next, Ordinary, Continue, Open, WriteFails

(* Nothing but the operation itself moves what its publication is made of.   *)
LEMMA DueStep == ASSUME IInv, RInv, Next PROVE Due'
<1> USE AttemptAssumption DEF Due, Ending, Flight, Snap, Next1, Launching,
     Terminal, Opening, IInv, RInv, Types, TypeOK, disk, counts
<1>1. CASE \/ \E c \in L!Commands : Command(c)
           \/ Retry
           \/ \E exact \in BOOLEAN : RecordGate(exact)
           \/ \E gates \in {Snap.gates, Required} :
                AdvancePhase("waiting", gates) \/ AdvancePhase("recovery-required", gates)
  <2>1. PICK by \in {"command", "gate", "advance"}, s \in L!Snapshot :
              Usable /\ ~recovery /\ Publish(by, s) /\ Lawful(s)
    BY <1>1, LawfulPublications
  <2>2. Lawful(op.next.snapshot)'
    BY <2>1 DEF Publish, Lawful, Op
  <2> QED
    BY <2>1, <2>2 DEF Publish, Op
<1>2. ASSUME NEW a \in Attempts, Launch(a) PROVE Due'
  BY <1>2 DEF Launch, Usable, Safe, Op, NoOp
<1>3. ASSUME NEW state \in L!FailureStates, PublishAttemptFailure(state) PROVE Due'
  BY <1>3 DEF PublishAttemptFailure, Usable, Begin, Mark, Marker, Op, NoOp
<1>4. CASE Reconcile
  BY <1>4 DEF Reconcile, Usable, Mark, Marker, Op
<1>5. CASE CompleteAttempt
  BY <1>5 DEF CompleteAttempt, Usable, Safe, Completable, Begin, Mark, Marker,
       Op, NoOp
<1>6. CASE RefuseCompletion
  BY <1>6 DEF RefuseCompletion, Usable, Safe, Mark, Marker, Op, NoOp
<1>7. CASE FinalizeMarker
  BY <1>7 DEF FinalizeMarker, Usable, ReconciliationFinal, Markers, Op, NoOp
<1>8. CASE Close
  BY <1>8 DEF Close, Usable, Forget, Op, NoOp
<1>9. CASE SpawnWrapper
  BY <1>9 DEF SpawnWrapper
<1>10. CASE SaveReceipt
  BY <1>10 DEF SaveReceipt
<1>11. CASE SendGo
  BY <1>11 DEF SendGo
<1>12. CASE LaunchReturns
  BY <1>12 DEF LaunchReturns, Op, NoOp
<1>13. CASE HandshakeFails
  BY <1>13 DEF HandshakeFails, HasReceipt
<1>14. CASE StopGroup
  BY <1>14 DEF StopGroup
<1>15. CASE StopFails
  BY <1>15 DEF StopFails
<1>16. CASE SaveInterrupted
  BY <1>16 DEF SaveInterrupted
<1>17. CASE AppendHistory
  BY <1>17 DEF AppendHistory
<1>18. CASE WriteRun
  <2>1. op.kind = "reconcile" => L!Building(Snap)
    <3> SUFFICES ASSUME op.kind = "reconcile" PROVE L!Building(Snap)
      OBVIOUS
    <3>1. op.attempt \in Attempts /\ Engaged(op.attempt) /\ Snap.stage = "G4"
      BY <1>18 DEF WriteRun, Engaged
    <3>2. ~Spent(op.attempt)
      BY <1>18, SnapTypes DEF WriteRun, RunAccepts, Spent, TerminalRun, Run, Manifests
    <3> QED
      BY <3>1, <3>2 DEF Accounted
  <2> QED
    BY <1>18, <2>1 DEF WriteRun, RunAccepts
<1>19. CASE TerminalRefused
  BY <1>19 DEF TerminalRefused
<1>20. CASE RemoveFixture
  BY <1>20 DEF RemoveFixture
<1>21. CASE WriteManifest
  BY <1>21 DEF WriteManifest, Op, NoOp
<1>22. CASE RemoveMarker
  BY <1>22 DEF RemoveMarker, Op, NoOp
<1>23. CASE RequireRecovery
  BY <1>23 DEF RequireRecovery, Mark, Marker
<1>24. CASE SaveRecovering
  BY <1>24 DEF SaveRecovering, HasReceipt, Op, NoOp
<1>25. CASE OpenPlainly
  BY <1>25 DEF OpenPlainly, Opened
<1>26. CASE OpenLatching
  BY <1>26 DEF OpenLatching, Opened, Mark, Marker
<1>27. CASE OpenResuming
  BY <1>27, ResumableFacts DEF OpenResuming, Opened, Resumable, PreparedCompletion, Op
<1>28. CASE OpenFinalizing
  BY <1>28 DEF OpenFinalizing, Opened, Op, NoOp
<1>29. CASE OpenRefusing
  BY <1>29 DEF OpenRefusing, Mark, Marker
<1>30. CASE Crash
  BY <1>30 DEF Crash, Forget, Op, NoOp
<1>31. CASE InterruptFails
  BY <1>31 DEF InterruptFails, Fault, CanFail, Op, NoOp
<1>32. CASE PublicationFails
  BY <1>32 DEF PublicationFails, Fault, CanFail, Op, NoOp
<1>33. CASE MarkFails
  BY <1>33 DEF MarkFails, Usable, Fault, CanFail, Op, NoOp
<1>34. CASE RecoveryFails
  BY <1>34 DEF RecoveryFails, Fault, CanFail, Op, NoOp
<1>35. CASE OpenMarkFails
  BY <1>35 DEF OpenMarkFails, Opened, CanFail, Mark, Marker
<1>36. ASSUME NEW a \in Attempts, WrapperStarts(a) PROVE Due'
  BY <1>36 DEF WrapperStarts, memory, Lawful
<1>37. ASSUME NEW a \in Attempts, GroupEnds(a) PROVE Due'
  BY <1>37 DEF GroupEnds, memory, Lawful
<1> HIDE DEF Due, Ending, Flight, Snap, Next1, Launching, Terminal, Opening,
     IInv, RInv, Types, TypeOK, disk, counts
<1> QED
  BY <1>1, <1>2, <1>3, <1>4, <1>5, <1>6, <1>7, <1>8, <1>9, <1>10, <1>11, <1>12,
       <1>13, <1>14, <1>15, <1>16, <1>17, <1>18, <1>19, <1>20, <1>21,
       <1>22, <1>23, <1>24, <1>25, <1>26, <1>27, <1>28, <1>29, <1>30, <1>31,
       <1>32, <1>33, <1>34, <1>35, <1>36, <1>37
     DEF Next, Ordinary, Continue, Open, WriteFails

(* Without failed writes the end of a build leaves nobody holding it.        *)
LEMMA InBuildStep == ASSUME IInv, RInv, Next PROVE InBuild'
<1> USE AttemptAssumption DEF InBuild, Holding, WorkStage, Flight, Authority,
     Settled, Latched, Released, IsActive, Snap, Launching, Terminal, Opening,
     IInv, RInv, Types, TypeOK, disk, counts
<1>1. CASE \/ \E c \in L!Commands : Command(c)
           \/ Retry
           \/ \E exact \in BOOLEAN : RecordGate(exact)
           \/ \E gates \in {Snap.gates, Required} :
                AdvancePhase("waiting", gates) \/ AdvancePhase("recovery-required", gates)
  <2>1. PICK by \in {"command", "gate", "advance"}, s \in L!Snapshot :
              /\ Usable /\ ~recovery
              /\ Publish(by, s)
              /\ WorkStage(s) \/ \A a \in Attempts : ~Works(a)
    BY <1>1, Publications
  <2> QED
    BY <2>1 DEF Usable, Publish, Op
<1>2. ASSUME NEW a \in Attempts, Launch(a) PROVE InBuild'
  BY <1>2 DEF Launch, L!Building
<1>3. ASSUME NEW state \in L!FailureStates, PublishAttemptFailure(state) PROVE InBuild'
  BY <1>3 DEF PublishAttemptFailure, Usable, Begin, Mark, Marker, Op, NoOp
<1>4. CASE Reconcile
  BY <1>4 DEF Reconcile, Usable, HasReceipt, Mark, Marker, Op, NoOp
<1>5. CASE CompleteAttempt
  BY <1>5 DEF CompleteAttempt, Usable, Safe, Completable, Begin, Mark, Marker,
       Op, NoOp
<1>6. CASE RefuseCompletion
  BY <1>6 DEF RefuseCompletion, Usable, Safe, Mark, Marker, Op, NoOp
<1>7. CASE FinalizeMarker
  BY <1>7 DEF FinalizeMarker, Usable, ReconciliationFinal, Markers, Op, NoOp
<1>8. CASE Close
  BY <1>8 DEF Close, Usable, Forget, Op, NoOp
<1>9. CASE SpawnWrapper
  BY <1>9 DEF SpawnWrapper
<1>10. CASE SaveReceipt
  BY <1>10 DEF SaveReceipt
<1>11. CASE SendGo
  BY <1>11 DEF SendGo
<1>12. CASE LaunchReturns
  BY <1>12 DEF LaunchReturns, Op, NoOp
<1>13. CASE HandshakeFails
  BY <1>13 DEF HandshakeFails, HasReceipt
<1>14. CASE StopGroup
  BY <1>14 DEF StopGroup
<1>15. CASE StopFails
  BY <1>15 DEF StopFails
<1>16. CASE SaveInterrupted
  BY <1>16 DEF SaveInterrupted, Op, NoOp
<1>17. CASE AppendHistory
  BY <1>17 DEF AppendHistory, Resolution
<1>18. CASE WriteRun
  BY <1>18 DEF WriteRun, RunAccepts, TerminalRun, Run
<1>19. CASE TerminalRefused
  BY <1>19 DEF TerminalRefused
<1>20. CASE RemoveFixture
  BY <1>20 DEF RemoveFixture
<1>21. CASE WriteManifest
  <2>1. CASE op.kind = "publish" /\ Lawful(op.next.snapshot)
    <3>1. CASE active = NoAttempt
      BY <1>21, <2>1, <3>1 DEF WriteManifest, NoOp, Op
    <3>2. CASE active # NoAttempt
      <4>1. WorkStage(Snap) => WorkStage(Snap)'
        BY <1>21, <2>1, <3>2, SnapTypes
           DEF WriteManifest, Lawful, L!AfterGate, L!AfterAdvance, L!Becomes, L!State,
               L!Snapshot
      <4> QED
        BY <1>21, <3>2, <4>1 DEF WriteManifest
    <3> QED
      BY <3>1, <3>2
  <2>2. CASE op.kind # "publish"
    BY <1>21, <2>2 DEF WriteManifest
  <2> QED
    BY <1>21, <2>1, <2>2, Published
<1>22. CASE RemoveMarker
  BY <1>22 DEF RemoveMarker, Op, NoOp
<1>23. CASE RequireRecovery
  BY <1>23 DEF RequireRecovery, Mark, Marker
<1>24. CASE SaveRecovering
  BY <1>24 DEF SaveRecovering, HasReceipt, Op, NoOp
<1>25. CASE OpenPlainly
  BY <1>25, RegainedFacts DEF OpenPlainly, Opened
<1>26. CASE OpenLatching
  BY <1>26, RegainedFacts DEF OpenLatching, Opened
<1>27. CASE OpenResuming
  BY <1>27, ResumableFacts DEF OpenResuming, L!Building
<1>28. CASE OpenFinalizing
  BY <1>28 DEF OpenFinalizing, Opened, Op, NoOp
<1>29. CASE OpenRefusing
  BY <1>29 DEF OpenRefusing, Mark, Marker
<1>30. CASE Crash
  BY <1>30 DEF Crash, Forget, Op, NoOp
<1>31. CASE InterruptFails
  BY <1>31 DEF InterruptFails, Fault, CanFail, Op, NoOp
<1>32. CASE PublicationFails
  BY <1>32 DEF PublicationFails, Fault, CanFail, Op, NoOp
<1>33. CASE MarkFails
  BY <1>33 DEF MarkFails, Usable, Fault, CanFail, Op, NoOp
<1>34. CASE RecoveryFails
  BY <1>34 DEF RecoveryFails, Fault, CanFail, Op, NoOp
<1>35. CASE OpenMarkFails
  BY <1>35 DEF OpenMarkFails, Opened, CanFail, Mark, Marker
<1>36. ASSUME NEW a \in Attempts, WrapperStarts(a) PROVE InBuild'
  BY <1>36 DEF WrapperStarts, memory
<1>37. ASSUME NEW a \in Attempts, GroupEnds(a) PROVE InBuild'
  BY <1>37 DEF GroupEnds, Live, memory
<1> HIDE DEF InBuild, Holding, WorkStage, Flight, Authority, Settled, Latched,
     Released, IsActive, Snap, Launching, Terminal, Opening, IInv, RInv, Types,
     TypeOK, disk, counts
<1> QED
  BY <1>1, <1>2, <1>3, <1>4, <1>5, <1>6, <1>7, <1>8, <1>9, <1>10, <1>11, <1>12,
       <1>13, <1>14, <1>15, <1>16, <1>17, <1>18, <1>19, <1>20, <1>21,
       <1>22, <1>23, <1>24, <1>25, <1>26, <1>27, <1>28, <1>29, <1>30, <1>31,
       <1>32, <1>33, <1>34, <1>35, <1>36, <1>37
     DEF Next, Ordinary, Continue, Open, WriteFails

(* A run is only written once, at the next revision, and one that a crash    *)
(* leaves there is found by the chain's verification.                        *)
LEMMA ChainStep == ASSUME IInv, RInv, Next PROVE Chain'
<1> USE AttemptAssumption DEF Chain, Stray, RunsAt, Flight, Launching,
     Terminal, Opening, IInv, RInv, Types, TypeOK, disk, counts
<1>1. CASE \/ \E c \in L!Commands : Command(c)
           \/ Retry
           \/ \E exact \in BOOLEAN : RecordGate(exact)
           \/ \E gates \in {Snap.gates, Required} :
                AdvancePhase("waiting", gates) \/ AdvancePhase("recovery-required", gates)
  <2>1. PICK by \in {"command", "gate", "advance"}, s \in L!Snapshot :
              Usable /\ ~recovery /\ Publish(by, s) /\ Lawful(s)
    BY <1>1, LawfulPublications
  <2>2. faults = 0 => \A r \in runs : ~Stray(r)
    BY <2>1, NoStrayOutOfRecovery
  <2> DEFINE p == Run(by, NoAttempt, manifest.rev + 1)
  <2>3. runs' = runs \cup {p} /\ p.rev = manifest.rev + 1 /\ manifest' = manifest
    BY <2>1 DEF Publish, Run
  <2>4. manifest.rev \in Nat
    BY SnapTypes DEF Manifests
  <2>5. pc' = "manifest" /\ faults' = faults
    BY <2>1 DEF Publish
  <2> HIDE DEF p
  <2> QED
    BY <2>2, <2>3, <2>4, <2>5
<1>2. ASSUME NEW a \in Attempts, Launch(a) PROVE Chain'
  BY <1>2 DEF Launch, Usable, Safe, Op, NoOp
<1>3. ASSUME NEW state \in L!FailureStates, PublishAttemptFailure(state) PROVE Chain'
  BY <1>3 DEF PublishAttemptFailure, Usable, Begin, Mark, Marker, Op, NoOp
<1>4. CASE Reconcile
  BY <1>4 DEF Reconcile, Usable, HasReceipt, Mark, Marker, Op, NoOp
<1>5. CASE CompleteAttempt
  BY <1>5 DEF CompleteAttempt, Usable, Safe, Completable, Begin, Mark, Marker,
       Op, NoOp
<1>6. CASE RefuseCompletion
  BY <1>6 DEF RefuseCompletion, Usable, Safe, Mark, Marker, Op, NoOp
<1>7. CASE FinalizeMarker
  <2>1. faults = 0 => \A r \in runs : ~Stray(r)
    BY <1>7, StrayFacts DEF FinalizeMarker
  <2> QED
    BY <1>7, <2>1 DEF FinalizeMarker
<1>8. CASE Close
  BY <1>8 DEF Close, Usable, Forget, Op, NoOp
<1>9. CASE SpawnWrapper
  BY <1>9 DEF SpawnWrapper
<1>10. CASE SaveReceipt
  BY <1>10 DEF SaveReceipt
<1>11. CASE SendGo
  BY <1>11 DEF SendGo
<1>12. CASE LaunchReturns
  BY <1>12 DEF LaunchReturns, Op, NoOp
<1>13. CASE HandshakeFails
  BY <1>13 DEF HandshakeFails, HasReceipt
<1>14. CASE StopGroup
  BY <1>14 DEF StopGroup
<1>15. CASE StopFails
  BY <1>15 DEF StopFails
<1>16. CASE SaveInterrupted
  BY <1>16 DEF SaveInterrupted, Op, NoOp
<1>17. CASE AppendHistory
  BY <1>17 DEF AppendHistory, Resolution
<1>18. CASE WriteRun
  <2>1. /\ runs' = runs \cup {TerminalRun} /\ TerminalRun.rev = manifest.rev + 1
        /\ TerminalRun.attempt = op.attempt /\ manifest' = manifest
    BY <1>18 DEF WriteRun, RunAccepts, TerminalRun, Run
  <2>2. faults = 0 => \A r \in runs : Stray(r) => r = TerminalRun
    BY <1>18, <2>1 DEF WriteRun, RunAccepts
  <2>3. manifest.rev \in Nat
    BY SnapTypes DEF Manifests
  <2>4. pc' \in {"fixture", "manifest"} /\ faults' = faults
    BY <1>18 DEF WriteRun
  <2> QED
    BY <2>1, <2>2, <2>3, <2>4
<1>19. CASE TerminalRefused
  BY <1>19 DEF TerminalRefused
<1>20. CASE RemoveFixture
  BY <1>20 DEF RemoveFixture, Latched
<1>21. CASE WriteManifest
  <2>1. manifest'.rev = manifest.rev + 1 /\ runs' = runs /\ manifest.rev \in Nat
    BY <1>21, Published, SnapTypes DEF WriteManifest, Manifests
  <2>2. \A r \in runs : r.rev \in Nat /\ ~(r.rev = manifest'.rev + 1)
    BY <2>1 DEF Runs
  <2>3. \A rev \in 1 .. manifest'.rev : RunsAt(rev) # {}
    BY <1>21, <2>1 DEF WriteManifest
  <2>4. pc' # "manifest" /\ faults' = faults
    BY <1>21 DEF WriteManifest
  <2> QED
    BY <2>1, <2>2, <2>3, <2>4
<1>22. CASE RemoveMarker
  BY <1>22 DEF RemoveMarker, Op, NoOp
<1>23. CASE RequireRecovery
  BY <1>23 DEF RequireRecovery, Mark, Marker
<1>24. CASE SaveRecovering
  BY <1>24 DEF SaveRecovering, HasReceipt, Op, NoOp
<1>25. CASE OpenPlainly
  <2>1. ASSUME faults = 0, NEW r \in runs, Stray(r), ChainVerifies
        PROVE  /\ InRecovery
               /\ r.by = "completed" /\ r.attempt # NoAttempt
               /\ Regained \in {NoAttempt, r.attempt}
               /\ marker # NoMarker /\ marker.of = manifest
    BY <2>1, StrayFacts DEF InRecovery
  <2>2. ~ChainVerifies => InRecovery
    BY DEF InRecovery
  <2> QED
    BY <1>25, <2>1, <2>2 DEF OpenPlainly, Opened
<1>26. CASE OpenLatching
  <2>1. ASSUME faults = 0, NEW r \in runs, Stray(r) PROVE ~ChainVerifies
    BY <1>26, <2>1, StrayFacts DEF OpenLatching
  <2> QED
    BY <1>26, <2>1 DEF OpenLatching, Opened, Mark
<1>27. CASE OpenResuming
  <2>1. RunsAt(manifest.rev + 1) # {}
    BY <1>27, ResumableFacts DEF OpenResuming, Run
  <2> QED
    BY <1>27, <2>1 DEF OpenResuming
<1>28. CASE OpenFinalizing
  <2>1. faults = 0 => \A r \in runs : ~Stray(r)
    BY <1>28, StrayFacts DEF OpenFinalizing, Finalizable
  <2> QED
    BY <1>28, <2>1 DEF OpenFinalizing
<1>29. CASE OpenRefusing
  <2>1. faults = 0 => \A r \in runs : ~Stray(r)
    BY <1>29, StrayFacts DEF OpenRefusing, Refused, L!Building
  <2> QED
    BY <1>29, <2>1 DEF OpenRefusing, Mark
<1>30. CASE Crash
  BY <1>30 DEF Crash, Forget, Op, NoOp
<1>31. CASE InterruptFails
  BY <1>31 DEF InterruptFails, Fault, CanFail, Op, NoOp
<1>32. CASE PublicationFails
  BY <1>32 DEF PublicationFails, Fault, CanFail, Op, NoOp
<1>33. CASE MarkFails
  BY <1>33 DEF MarkFails, Usable, Fault, CanFail, Op, NoOp
<1>34. CASE RecoveryFails
  BY <1>34 DEF RecoveryFails, Fault, CanFail, Op, NoOp
<1>35. CASE OpenMarkFails
  BY <1>35 DEF OpenMarkFails, Opened, CanFail, Mark, Marker
<1>36. ASSUME NEW a \in Attempts, WrapperStarts(a) PROVE Chain'
  BY <1>36 DEF WrapperStarts, memory
<1>37. ASSUME NEW a \in Attempts, GroupEnds(a) PROVE Chain'
  BY <1>37 DEF GroupEnds, Live, memory
<1> HIDE DEF Chain, Stray, RunsAt, Flight, Launching, Terminal, Opening, IInv,
     RInv, Types, TypeOK, disk, counts
<1> QED
  BY <1>1, <1>2, <1>3, <1>4, <1>5, <1>6, <1>7, <1>8, <1>9, <1>10, <1>11, <1>12,
       <1>13, <1>14, <1>15, <1>16, <1>17, <1>18, <1>19, <1>20, <1>21,
       <1>22, <1>23, <1>24, <1>25, <1>26, <1>27, <1>28, <1>29, <1>30, <1>31,
       <1>32, <1>33, <1>34, <1>35, <1>36, <1>37
     DEF Next, Ordinary, Continue, Open, WriteFails

-----------------------------------------------------------------------------
LEMMA InitRInv == Init => RInv
<1> SUFFICES ASSUME Init PROVE RInv
  OBVIOUS
<1>1. Tracks /\ Accounted /\ Released /\ Due /\ InBuild
  BY AttemptAssumption
     DEF Init, Tracks, Accounted, Engaged, IsActive, Released, Due, Ending, InBuild, Holding,
         NoOp, Op
<1>2. Chain
  BY DEF Init, Chain, RunsAt, Unborn
<1> QED
  BY <1>1, <1>2 DEF RInv

LEMMA StutterRInv == RInv /\ UNCHANGED vars => RInv'
<1> SUFFICES ASSUME RInv, UNCHANGED vars PROVE RInv'
  OBVIOUS
<1> USE DEF RInv, vars, disk, memory, counts, Snap
<1>1. Tracks' /\ Released'
  BY DEF Tracks, Released
<1>2. Accounted'
  BY DEF Accounted, Engaged, Spent, IsActive
<1>3. Due'
  BY DEF Due, Ending, Lawful, Next1
<1>4. InBuild' /\ Chain'
  BY DEF InBuild, Holding, IsActive, WorkStage, Chain, Stray, RunsAt
<1> QED
  BY <1>1, <1>2, <1>3, <1>4

(* What the refinement rests on holds in every reachable state.              *)
THEOREM RefinementInvariant == Spec => [](IInv /\ RInv)
<1>1. IInv /\ RInv /\ [Next]_vars => RInv'
  <2> SUFFICES ASSUME IInv, RInv, [Next]_vars PROVE RInv'
    OBVIOUS
  <2>1. CASE Next
    BY <2>1, TracksStep, AccountedStep, ReleasedStep, DueStep,
       InBuildStep, ChainStep DEF RInv
  <2>2. CASE UNCHANGED vars
    BY <2>2, StutterRInv
  <2> QED
    BY <2>1, <2>2
<1> QED
  BY <1>1, InitRInv, Invariant, PTL DEF Spec

(* The write of the manifest is one of the publications of Lifecycle.        *)
LEMMA WriteRefines == ASSUME IInv, RInv, WriteManifest PROVE L!Next
<1> DEFINE work == \E a \in Attempts : Works(a)
<1>1. /\ Snap' = op.next.snapshot /\ L!Publishable(Snap')
      /\ work' = work
  BY DEF WriteManifest, IInv, Types, Prospect, Snap, Works
<1>2. active = NoAttempt \/ op.kind # "publish" => ~work
  <2>1. active = NoAttempt \/ op.kind # "publish" => \A a \in Attempts : ~IsActive(a)
    BY AttemptAssumption DEF WriteManifest, IInv, Authority, Settled
  <2>2. \A a \in Attempts : Works(a) => IsActive(a)
    BY DEF IInv, Attribution, Works, Live
  <2> QED
    BY <2>1, <2>2
<1>3. CASE op.kind = "publish" /\ Lawful(op.next.snapshot)
  <2>1. ASSUME active = NoAttempt, NEW c \in L!Commands, L!CommandAllowed(Snap, c),
               op.next.snapshot = L!AfterCommand(Snap, c)
        PROVE  L!Command(c)
    BY <1>1, <1>2, <2>1 DEF L!Command, L!Publish, Snap
  <2>2. ASSUME active = NoAttempt, L!RetryAllowed(Snap), op.next.snapshot = L!AfterRetry(Snap)
        PROVE  L!Retry
    BY <1>1, <1>2, <2>2 DEF L!Retry, L!Publish, Snap
  <2>3. ASSUME active = NoAttempt, NEW gates \in 0 .. L!Spoiled,
               L!AdvanceAllowed(Snap, "waiting", gates),
               op.next.snapshot = L!AfterAdvance(Snap, "waiting", gates)
        PROVE  L!AdvanceToResult(gates)
    BY <1>1, <1>2, <2>3 DEF L!AdvanceToResult, L!Publish, Snap
  <2>4. ASSUME NEW exact \in BOOLEAN, L!Safe(Snap), op.next.snapshot = L!AfterGate(Snap, exact)
        PROVE  L!RecordGate(exact)
    BY <1>1, <2>4 DEF L!RecordGate, L!Publish, Snap
  <2>5. ASSUME NEW gates \in 0 .. L!Spoiled, L!AdvanceAllowed(Snap, "recovery-required", gates),
               op.next.snapshot = L!AfterAdvance(Snap, "recovery-required", gates)
        PROVE  L!AdvanceToRecovery(gates)
    BY <1>1, <2>5 DEF L!AdvanceToRecovery, L!Publish, Snap
  <2> QED
    BY <1>3, <2>1, <2>2, <2>3, <2>4, <2>5 DEF Lawful, L!Next
<1>4. CASE op.kind \in {"failure", "reconcile"}
  <2>1. PICK state \in L!FailureStates :
          L!Building(Snap) /\ op.next.snapshot = L!AfterFailure(Snap, state)
    BY <1>4, Published
  <2>2. L!Fail(state)
    BY <1>1, <1>2, <1>4, <2>1 DEF L!Fail, L!Publish, Snap
  <2> QED
    BY <2>2 DEF L!Next
<1>5. CASE op.kind \in {"complete", "resume"}
  <2>1. L!Complete
    BY <1>1, <1>2, <1>5, Published DEF L!Complete, L!Publish, Snap
  <2> QED
    BY <2>1 DEF L!Next
<1> QED
  BY <1>3, <1>4, <1>5, Published

(* GO starts the work of a build.                                            *)
LEMMA GoRefines == ASSUME IInv, RInv, SendGo PROVE L!Launch
<1>1. L!Building(Snap) /\ Snap' = Snap /\ op.attempt \in Attempts
  BY DEF SendGo, RInv, Due, IInv, Flight, Launching, Snap, disk
<1>2. group'[op.attempt] = "cleared"
  BY <1>1 DEF SendGo, IInv, Types, TypeOK
<1>3. \E a \in Attempts : Works(a)'
  BY <1>1, <1>2 DEF Works
<1>4. (\E a \in Attempts : Works(a))' = TRUE
  BY <1>3, Zenon
<1> QED
  BY <1>1, <1>4 DEF L!Launch, Snap

(* No other step moves the manifest or starts work.                          *)
LEMMA QuietSteps ==
  ASSUME IInv, Next, ~WriteManifest, ~SendGo
  PROVE  manifest' = manifest /\ \A a \in Attempts : Works(a)' => Works(a)
  BY DEF Next, Ordinary, Continue, Open, WriteFails, Command, Retry, RecordGate, AdvancePhase,
     Publish, Launch, PublishAttemptFailure, Reconcile, CompleteAttempt, RefuseCompletion,
     FinalizeMarker, Close, Crash, Forget, SpawnWrapper, SaveReceipt, LaunchReturns,
     HandshakeFails, StopGroup, StopFails, SaveInterrupted, AppendHistory, WriteRun,
     TerminalRefused, RemoveFixture, RemoveMarker, RequireRecovery,
     SaveRecovering, OpenPlainly, OpenLatching, OpenResuming, OpenFinalizing, OpenRefusing,
     InterruptFails, PublicationFails, MarkFails, RecoveryFails, OpenMarkFails, Fault,
     WrapperStarts, GroupEnds, Works, disk, IInv, Types, TypeOK

(* Every run of the orchestrator is, in what its manifest says and whether   *)
(* an engine works, a life that Lifecycle allows: results are published and  *)
(* accepted only at rest and out of a build with all its gates, whatever     *)
(* crashes or fails in between.                                              *)
THEOREM Implements == Spec => IsLifecycle
<1>1. Init => L!Init
  BY DEF Init, L!Init, Unborn, Works
<1>2. IInv /\ RInv /\ [Next]_vars => [L!Next]_(L!vars)
  <2> SUFFICES ASSUME IInv, RInv, [Next]_vars PROVE [L!Next]_(L!vars)
    OBVIOUS
  <2>1. CASE WriteManifest
    BY <2>1, WriteRefines
  <2>2. CASE SendGo
    BY <2>2, GoRefines DEF L!Next
  <2>3. CASE Next /\ ~WriteManifest /\ ~SendGo
    <3>1. manifest' = manifest /\ \A a \in Attempts : Works(a)' => Works(a)
      BY <2>3, QuietSteps
    <3>2. CASE \E a \in Attempts : Works(a)'
      BY <3>1, <3>2 DEF L!vars
    <3>3. CASE ~\E a \in Attempts : Works(a)'
      BY <3>1, <3>3 DEF L!Next, L!WorkEnds
    <3> QED
      BY <3>2, <3>3
  <2>4. CASE UNCHANGED vars
    BY <2>4 DEF vars, disk, L!vars, Works
  <2> QED
    BY <2>1, <2>2, <2>3, <2>4
<1> QED
  BY <1>1, <1>2, RefinementInvariant, PTL DEF Spec, IsLifecycle, L!Spec

(* A published result has no attempt on record beside it.                    *)
THEOREM ResultStandsAlone == Spec => []NoFixtureBesideResult
<1>1. ASSUME IInv, RInv PROVE NoFixtureBesideResult
  <2>1. ASSUME faults = 0, NEW a \in Attempts, IsActive(a)
        PROVE  Snap.run \notin {"waiting", "successful"}
    <3>1. WorkStage(Snap)
      BY <1>1, <2>1 DEF RInv, InBuild, Holding
    <3>2. L!State(Snap.stage, Snap.run, Snap.decision) \in L!Compatible
      BY <1>1 DEF IInv, Types, TypeOK, L!Publishable
    <3>3. \A c \in L!Commands \ {"startBuild", "acceptResult"} : L!To[c].stage # "G4"
      BY DEF L!To, L!State, L!Commands
    <3>4. \A s \in L!Compatible : s.stage = "G4" => s.run \notin {"waiting", "successful"}
      BY <3>3 DEF L!Compatible, L!State
    <3> QED
      BY <3>1, <3>2, <3>4 DEF WorkStage, L!State
  <2> QED
    BY <2>1 DEF NoFixtureBesideResult
<1> QED
  BY <1>1, RefinementInvariant, PTL

(* The chain of immutable runs has no gap, and without failed writes no      *)
(* revision has two.                                                         *)
THEOREM ChainHolds == Spec => []ChainIntact
<1>1. ASSUME IInv, RInv PROVE ChainIntact
  <2> SUFFICES ASSUME NEW rev \in 1 .. manifest.rev
               PROVE  RunsAt(rev) # {} /\ (faults = 0 => Cardinality(RunsAt(rev)) = 1)
    BY DEF ChainIntact
  <2>1. PICK r \in runs : r.rev = rev
    BY <1>1 DEF RInv, Chain, RunsAt
  <2>2. faults = 0 => RunsAt(rev) = {r}
    BY <1>1, <2>1 DEF RInv, Chain, RunsAt
  <2> QED
    BY <2>1, <2>2, FS_Singleton DEF RunsAt
<1> QED
  BY <1>1, RefinementInvariant, PTL

-----------------------------------------------------------------------------
(* The safety half of CompletionSurvives: what lies beyond the manifest is   *)
(* the run of the operation in flight, and no other gets past it.            *)
RunsOf(kind) ==
  CASE kind = "publish"                -> {"command", "gate", "advance"}
    [] kind \in {"complete", "resume"} -> {"completed"}
    [] OTHER                           -> {kind}

Backed == pc \in {"fixture", "manifest"} => \E r \in RunsAt(manifest.rev + 1) : r.by \in RunsOf(op.kind)

(* Once the completed run of an attempt is durable, no step gives it up, and *)
(* the manifest moves only to its result.                                    *)
NotOvertaken ==
  [][ Stranded /\ faults = 0 =>
        \/ manifest' = manifest /\ Stranded'
        \/ manifest' = Next1(L!AfterCompletion(Snap)) ]_vars

LEMMA BackedStep == ASSUME IInv, Backed, Next PROVE Backed'
<1> USE DEF Backed, Flight, RunsAt, RunsOf, Launching, Terminal,
     Opening, IInv, Types, TypeOK, disk, counts
<1>1. CASE \/ \E c \in L!Commands : Command(c)
           \/ Retry
           \/ \E exact \in BOOLEAN : RecordGate(exact)
           \/ \E gates \in {Snap.gates, Required} :
                AdvancePhase("waiting", gates) \/ AdvancePhase("recovery-required", gates)
  <2>1. PICK by \in {"command", "gate", "advance"}, s \in L!Snapshot : Publish(by, s)
    BY <1>1, Publications
  <2> QED
    BY <2>1 DEF Publish, Run, Op
<1>2. CASE WriteRun
  <2>1. /\ TerminalRun \in runs' /\ TerminalRun.by \in RunsOf(op.kind)
        /\ TerminalRun.rev = manifest.rev + 1
    BY <1>2 DEF WriteRun, RunAccepts, TerminalRun, Run
  <2> QED
    BY <1>2, <2>1 DEF WriteRun
<1>3. CASE OpenResuming
  <2> DEFINE r == Run("completed", marker.attempt, manifest.rev + 1)
  <2>1. r \in runs /\ r.by = "completed" /\ r.rev = manifest.rev + 1
    BY <1>3, ResumableFacts DEF OpenResuming, Run
  <2> QED
    BY <1>3, <2>1 DEF OpenResuming, Opened, Op
<1>4. CASE RemoveFixture
  BY <1>4 DEF RemoveFixture
<1>5. CASE \/ \E a \in Attempts : Launch(a)
           \/ \E state \in L!FailureStates : PublishAttemptFailure(state)
           \/ Reconcile \/ CompleteAttempt \/ RefuseCompletion \/ FinalizeMarker \/ Close
  BY <1>5 DEF Launch, PublishAttemptFailure, Reconcile, CompleteAttempt, RefuseCompletion,
       FinalizeMarker, Close, Usable, Begin, Mark, Forget
<1>6. CASE \/ SpawnWrapper \/ SaveReceipt \/ SendGo \/ LaunchReturns \/ HandshakeFails
           \/ StopGroup \/ StopFails \/ SaveInterrupted \/ AppendHistory
           \/ TerminalRefused \/ WriteManifest \/ RemoveMarker \/ RequireRecovery \/ SaveRecovering
  BY <1>6 DEF SpawnWrapper, SaveReceipt, SendGo, LaunchReturns, HandshakeFails, StopGroup,
       StopFails, SaveInterrupted, AppendHistory, TerminalRefused,
       WriteManifest, RemoveMarker, RequireRecovery, SaveRecovering
<1>7. CASE OpenPlainly \/ OpenLatching \/ OpenFinalizing \/ OpenRefusing \/ Crash
  BY <1>7 DEF OpenPlainly, OpenLatching, OpenFinalizing, OpenRefusing, Opened, Mark, Crash, Forget
<1>8. CASE InterruptFails \/ PublicationFails \/ MarkFails \/ RecoveryFails \/ OpenMarkFails
  BY <1>8 DEF InterruptFails, PublicationFails, MarkFails, RecoveryFails, OpenMarkFails, Fault,
       Usable, Opened
<1>9. CASE \E a \in Attempts : WrapperStarts(a) \/ GroupEnds(a)
  BY <1>9 DEF WrapperStarts, GroupEnds, memory
<1> HIDE DEF Backed, Flight, RunsAt, RunsOf, Launching, Terminal, Opening, IInv, Types, TypeOK,
     disk, counts
<1> QED
  BY <1>1, <1>2, <1>3, <1>4, <1>5, <1>6, <1>7, <1>8, <1>9
     DEF Next, Ordinary, Continue, Open, WriteFails

(* Runs are never removed.                                                   *)
LEMMA RunsStay == ASSUME Next PROVE runs \subseteq runs'
  BY DEF Next, Ordinary, Continue, Open, WriteFails, Command, Retry, RecordGate, AdvancePhase,
     Publish, Launch, PublishAttemptFailure, Reconcile, CompleteAttempt, RefuseCompletion,
     FinalizeMarker, Close, Crash, Forget, SpawnWrapper, SaveReceipt, SendGo, LaunchReturns,
     HandshakeFails, StopGroup, StopFails, SaveInterrupted, AppendHistory, WriteRun,
     TerminalRefused, RemoveFixture, WriteManifest, RemoveMarker,
     RequireRecovery, SaveRecovering, OpenPlainly, OpenLatching, OpenResuming, OpenFinalizing,
     OpenRefusing, InterruptFails, PublicationFails, MarkFails, RecoveryFails, OpenMarkFails,
     Fault, WrapperStarts, GroupEnds, disk

(* A durable completion is never given up nor overtaken: however often the   *)
(* supervisor dies and is opened again, the next manifest is its result.     *)
THEOREM SurvivalSafety == Spec => NotOvertaken
<1> DEFINE Kept == \/ manifest' = manifest /\ Stranded'
                   \/ manifest' = Next1(L!AfterCompletion(Snap))
<1>1. Init => Backed
  BY DEF Init, Backed
<1>2. IInv /\ Backed /\ [Next]_vars => Backed'
  <2>1. Backed /\ UNCHANGED vars => Backed'
    BY DEF Backed, RunsAt, vars, disk, memory
  <2> QED
    BY <2>1, BackedStep
<1>3. ASSUME IInv, RInv, Backed, Next, Stranded, faults = 0 PROVE Kept
  <2>1. CASE WriteManifest
    <3>1. PICK r \in runs : r.rev = manifest.rev + 1 /\ r.by = "completed"
      BY <1>3 DEF Stranded, RunsAt
    <3>2. PICK q \in runs : q.rev = manifest.rev + 1 /\ q.by \in RunsOf(op.kind)
      BY <1>3, <2>1 DEF Backed, RunsAt, WriteManifest
    <3>3. q = r
      BY <1>3, <3>1, <3>2 DEF RInv, Chain
    <3>4. op.kind \in {"complete", "resume"}
      BY <1>3, <2>1, <3>1, <3>2, <3>3 DEF RunsOf, WriteManifest, IInv, Flight, Terminal
    <3>5. op.next = Next1(L!AfterCompletion(Snap))
      BY <1>3, <2>1, <3>4 DEF WriteManifest, RInv, Due, Ending
    <3> QED
      BY <2>1, <3>5 DEF WriteManifest
  <2>2. CASE ~WriteManifest
    <3>1. manifest' = manifest
      <4>1. CASE SendGo
        BY <4>1 DEF SendGo, disk
      <4> QED
        BY <1>3, <2>2, <4>1, QuietSteps
    <3> QED
      BY <1>3, <3>1, RunsStay DEF Stranded, RunsAt
  <2> QED
    BY <2>1, <2>2
<1>4. IInv /\ RInv /\ Backed /\ [Next]_vars =>
        [Stranded /\ faults = 0 => Kept]_vars
  BY <1>3
<1> HIDE DEF Kept
<1>5. Spec => [][Stranded /\ faults = 0 => Kept]_vars
  BY <1>1, <1>2, <1>4, RefinementInvariant, PTL DEF Spec
<1> QED
  BY <1>5 DEF NotOvertaken, Kept
=============================================================================
