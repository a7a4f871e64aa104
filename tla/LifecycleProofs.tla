-------------------------- MODULE LifecycleProofs --------------------------
(***************************************************************************)
(* What the published life of a project promises for every number of       *)
(* required gates.  The invariant the proofs rest on adds to the types     *)
(* what the store publishes at all (Publishable) and that no result is     *)
(* shown over a working engine.                                            *)
(***************************************************************************)
EXTENDS Lifecycle, TLAPS

IInv == TypeOK /\ Publishable(snapshot) /\ ResultAtRest

(* A command that asks for a decision leads out of G4, as To says.          *)
LEMMA CommandStages ==
  ASSUME NEW c \in Commands \ {"startBuild", "acceptResult"}
  PROVE  To[c].stage # "G4"
  BY DEF Commands, To, State

(* Only the states of the table in requiredPendingDecision are published. *)
LEMMA CompatibleStates ==
  ASSUME NEW s \in Snapshot, Publishable(s)
  PROVE  /\ s.run \in {"waiting", "successful"} => s.stage # "G4"
         /\ s.run \in FailureStates \ {"recovery-required"} => s.stage = "G4"
         /\ s.run = "running" => s.stage = "G4"
<1>1. State(s.stage, s.run, s.decision) \in Compatible
  BY DEF Publishable
<1>2. CASE State(s.stage, s.run, s.decision) \in
             {State("G0", "idle", "submitIdea"), State("G6", "successful", "none"),
              State("G4", "running", "none"), State("G4", "rate-limit", "none"),
              State("G4", "stopped", "startBuild"), State("G4", "interrupted", "startBuild")}
  BY <1>2 DEF State, FailureStates
<1>3. CASE \E c \in Commands \ {"startBuild", "acceptResult"} :
             State(s.stage, s.run, s.decision) = State(To[c].stage, "waiting", To[c].decision)
  <2>1. PICK c \in Commands \ {"startBuild", "acceptResult"} :
          State(s.stage, s.run, s.decision) = State(To[c].stage, "waiting", To[c].decision)
    BY <1>3
  <2>2. s.stage = To[c].stage /\ s.run = "waiting"
    BY <2>1 DEF State
  <2> QED
    BY <2>2, CommandStages DEF FailureStates
<1>4. CASE \E stage \in Stages :
             State(s.stage, s.run, s.decision) = State(stage, "recovery-required", "none")
  BY <1>4 DEF State, FailureStates
<1> QED
  BY <1>1, <1>2, <1>3, <1>4 DEF Compatible

(* A failure code agrees with the run state unless recovery is required.   *)
LEMMA FailureAgrees ==
  ASSUME NEW s \in Snapshot, Publishable(s), s.failure # "none"
  PROVE  s.run = "recovery-required" \/ (s.stage = "G4" /\ s.run # "running")
<1>1. s.run # "recovery-required" => s.failure = s.run
  BY DEF Publishable
<1>2. s.failure \in FailureStates
  BY DEF Snapshot
<1> QED
  BY <1>1, <1>2, CompatibleStates DEF FailureStates

(* Every publication is a snapshot of the schema again.                    *)
LEMMA PublicationTypes ==
  ASSUME NEW s \in Snapshot
  PROVE  /\ \A c \in Commands : AfterCommand(s, c) \in Snapshot
         /\ AfterRetry(s) \in Snapshot
         /\ \A exact \in BOOLEAN : AfterGate(s, exact) \in Snapshot
         /\ \A run \in {"waiting", "recovery-required"}, gates \in 0 .. Spoiled :
              AfterAdvance(s, run, gates) \in Snapshot
         /\ \A state \in FailureStates : AfterFailure(s, state) \in Snapshot
         /\ AfterCompletion(s) \in Snapshot
<1>1. \A c \in Commands : /\ To[c].stage \in Stages
                          /\ To[c].run \in RunStates
                          /\ To[c].decision \in Decisions
  BY DEF Commands, To, State, Stages, RunStates, Decisions
<1>2. \A c \in Commands : AfterCommand(s, c) \in Snapshot
  BY <1>1 DEF AfterCommand, Becomes, Snapshot
<1>3. AfterRetry(s) \in Snapshot
  BY <1>1 DEF AfterRetry, Becomes, Snapshot, Commands
<1>4. \A exact \in BOOLEAN : AfterGate(s, exact) \in Snapshot
  BY RequiredAssumption DEF AfterGate, Snapshot, Spoiled
<1>5. \A run \in {"waiting", "recovery-required"}, gates \in 0 .. Spoiled :
        AfterAdvance(s, run, gates) \in Snapshot
  BY DEF AfterAdvance, Becomes, State, Snapshot, Stages, RunStates, Decisions
<1>6. \A state \in FailureStates : AfterFailure(s, state) \in Snapshot
  BY DEF AfterFailure, Becomes, State, Snapshot, Stages, RunStates, Decisions, FailureStates
<1>7. AfterCompletion(s) \in Snapshot
  BY DEF AfterCompletion, Becomes, State, Snapshot, Stages, RunStates, Decisions
<1> QED
  BY <1>2, <1>3, <1>4, <1>5, <1>6, <1>7

(* A publication over an idle engine keeps the invariant.                   *)
LEMMA PublishAtRest ==
  ASSUME IInv, NEW s \in Snapshot, Publish(s), ~working
  PROVE  IInv'
  BY DEF IInv, TypeOK, Publish, Publishable, ResultAtRest, State

(* The first snapshot is publishable.                                       *)
LEMMA InitialInvariant == Init => IInv
<1> SUFFICES ASSUME Init PROVE IInv
  OBVIOUS
<1>1. TypeOK
  <2>1. /\ "G0" \in Stages /\ "idle" \in RunStates /\ "submitIdea" \in Decisions
        /\ "none" \in FailureStates \cup {"none"}
    BY DEF Stages, RunStates, Decisions
  <2>2. 0 \in 0 .. Spoiled
    BY RequiredAssumption DEF Spoiled
  <2> QED
    BY <2>1, <2>2 DEF Init, TypeOK, Snapshot
<1>2. State(snapshot.stage, snapshot.run, snapshot.decision) = State("G0", "idle", "submitIdea")
  BY DEF Init, State
<1>3. Publishable(snapshot)
  BY <1>2 DEF Init, Publishable, Compatible
<1>4. ResultAtRest
  BY DEF Init, ResultAtRest
<1> QED
  BY <1>1, <1>3, <1>4 DEF IInv

(* Every operation keeps the invariant.                                     *)
LEMMA InvariantStep == IInv /\ [Next]_vars => IInv'
<1> SUFFICES ASSUME IInv, [Next]_vars PROVE IInv'
  OBVIOUS
<1>0. snapshot \in Snapshot /\ Publishable(snapshot) /\ working \in BOOLEAN
  BY DEF IInv, TypeOK
<1>1. CASE \E c \in Commands : Command(c)
  BY <1>0, <1>1, PublicationTypes, PublishAtRest DEF Command
<1>2. CASE Retry
  BY <1>0, <1>2, PublicationTypes, PublishAtRest DEF Retry
<1>3. CASE \E exact \in BOOLEAN : RecordGate(exact)
  <2>1. PICK exact \in BOOLEAN : RecordGate(exact)
    BY <1>3
  <2>2. snapshot' = AfterGate(snapshot, exact) /\ Publishable(snapshot') /\ working' = working
    BY <2>1 DEF RecordGate, Publish
  <2>3. snapshot' \in Snapshot
    BY <1>0, <2>2, PublicationTypes
  <2>4. snapshot'.run = snapshot.run
    BY <1>0, <2>2 DEF AfterGate, Snapshot
  <2> QED
    BY <1>0, <2>2, <2>3, <2>4 DEF IInv, TypeOK, ResultAtRest, Publishable
<1>4. CASE \E gates \in 0 .. Spoiled : AdvanceToResult(gates) \/ AdvanceToRecovery(gates)
  <2>1. PICK gates \in 0 .. Spoiled : AdvanceToResult(gates) \/ AdvanceToRecovery(gates)
    BY <1>4
  <2>2. CASE AdvanceToResult(gates)
    BY <1>0, <2>2, PublicationTypes, PublishAtRest DEF AdvanceToResult
  <2>3. CASE AdvanceToRecovery(gates)
    <3>1. /\ snapshot' = AfterAdvance(snapshot, "recovery-required", gates)
          /\ Publishable(snapshot') /\ working' = working
      BY <2>3 DEF AdvanceToRecovery, Publish
    <3>2. snapshot' \in Snapshot
      BY <1>0, <3>1, PublicationTypes
    <3>3. snapshot'.run = "recovery-required"
      BY <1>0, <3>1 DEF AfterAdvance, Becomes, State, Snapshot
    <3> QED
      BY <1>0, <3>1, <3>2, <3>3 DEF IInv, TypeOK, ResultAtRest, Publishable
  <2> QED
    BY <2>1, <2>2, <2>3
<1>5. CASE Launch
  BY <1>0, <1>5 DEF Launch, Building, IInv, TypeOK, ResultAtRest
<1>6. CASE WorkEnds
  BY <1>0, <1>6 DEF WorkEnds, IInv, TypeOK, ResultAtRest
<1>7. CASE \E state \in FailureStates : Fail(state)
  BY <1>0, <1>7, PublicationTypes, PublishAtRest DEF Fail
<1>8. CASE Complete
  BY <1>0, <1>8, PublicationTypes, PublishAtRest DEF Complete
<1>9. CASE UNCHANGED vars
  BY <1>0, <1>9 DEF vars, IInv, TypeOK, ResultAtRest, Publishable
<1> QED
  BY <1>1, <1>2, <1>3, <1>4, <1>5, <1>6, <1>7, <1>8, <1>9 DEF Next

-----------------------------------------------------------------------------
(* The snapshots of a project are always of the schema, and every one the   *)
(* handlers publish passes the store's normalisation.                       *)
THEOREM Invariant == Spec => []IInv
<1>1. Init => IInv
  BY InitialInvariant
<1>2. IInv /\ [Next]_vars => IInv'
  BY InvariantStep
<1> QED
  BY <1>1, <1>2, PTL DEF Spec

(* normalizeProjectSnapshot's schema holds of whatever is published.        *)
THEOREM TypeCorrect == Spec => []TypeOK
<1>1. IInv => TypeOK
  BY DEF IInv
<1> QED
  BY <1>1, Invariant, PTL

(* No result is shown or accepted while an engine may be at work.           *)
THEOREM RestSafety == Spec => []ResultAtRest
<1>1. IInv => ResultAtRest
  BY DEF IInv
<1> QED
  BY <1>1, Invariant, PTL

(* A failure never outlives the build it ended, whatever is published next. *)
THEOREM FailureSafety == Spec => []FailureStaysInBuild
<1>1. IInv => FailureStaysInBuild
  BY FailureAgrees DEF IInv, TypeOK, FailureStaysInBuild
<1> QED
  BY <1>1, Invariant, PTL

(* A published recovery is final: every operation refuses it.               *)
THEOREM RecoverySafety == Spec => RecoveryLatched
<1>1. ASSUME [Next]_vars, snapshot.run = "recovery-required"
      PROVE  snapshot' = snapshot /\ (working' => working)
  BY <1>1
  DEF Next, vars, Command, Retry, RecordGate, AdvanceToResult, AdvanceToRecovery,
      Launch, WorkEnds, Fail, Complete, CommandAllowed, RetryAllowed, AdvanceAllowed,
      Building, Safe
<1> QED
  BY <1>1, PTL DEF Spec, RecoveryLatched
=============================================================================
