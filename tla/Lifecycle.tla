----------------------------- MODULE Lifecycle -----------------------------
(***************************************************************************)
(* The published life of one project: the snapshots that the commands of   *)
(* packages/orchestrator/src/orchestrator.ts publish, one atomic step per  *)
(* publication, and whether an engine process may be at work.  It is what  *)
(* the cockpit may rely on; Orchestrator.tla refines it down to the        *)
(* durable writes and the crashes between them.                            *)
(*                                                                         *)
(* The gate list is abstracted to how much of REQUIRED_MACHINE_GATES it    *)
(* holds: a list that is only ever appended to is an exact passed prefix   *)
(* of the required one, or it never becomes the required one again.        *)
(* Failure codes are abstracted to the run state that RUN_FAILURE_STATES   *)
(* gives them.  Revisions are left to Orchestrator.tla.                    *)
(***************************************************************************)
EXTENDS Naturals

CONSTANT Required   (* the number of required machine gates; 7 in the code *)

ASSUME RequiredAssumption == Required \in Nat \ {0}

VARIABLES
  snapshot,  (* the snapshot the project last published     *)
  working    (* an engine process started for it may be alive *)

vars == <<snapshot, working>>

(* More gates than required, or a gate that failed or came out of order. *)
Spoiled == Required + 1

Stages    == {"G0", "G1", "G2", "G3", "G4", "G5", "G6"}
RunStates == {"idle", "waiting", "running", "successful", "recovery-required",
              "stopped", "rate-limit", "interrupted"}
Commands  == {"submitIdea", "approveBlueprint", "requestBlueprintChange",
              "approvePlan", "startBuild", "acceptResult", "requestChange",
              "rollback"}
Decisions == {"none", "submitIdea", "approveBlueprint", "approvePlan",
              "startBuild", "acceptResult"}
FailureStates == {"stopped", "rate-limit", "interrupted", "recovery-required"}

Snapshot == [stage    : Stages,
             run      : RunStates,
             decision : Decisions,
             failure  : FailureStates \cup {"none"},
             gates    : 0 .. Spoiled]

State(stage, run, decision) == [stage |-> stage, run |-> run, decision |-> decision]

(* The lifecycle table: where a command applies and what it leads to. *)
From == [submitIdea |-> "G0", approveBlueprint |-> "G1",
         requestBlueprintChange |-> "G1", approvePlan |-> "G2",
         startBuild |-> "G3", acceptResult |-> "G5", requestChange |-> "G5",
         rollback |-> "G6"]
To == [submitIdea             |-> State("G1", "waiting", "approveBlueprint"),
       approveBlueprint       |-> State("G2", "waiting", "approvePlan"),
       requestBlueprintChange |-> State("G1", "waiting", "approveBlueprint"),
       approvePlan            |-> State("G3", "waiting", "startBuild"),
       startBuild             |-> State("G4", "running", "none"),
       acceptResult           |-> State("G6", "successful", "none"),
       requestChange          |-> State("G2", "waiting", "approvePlan"),
       rollback               |-> State("G5", "waiting", "acceptResult")]

(* requiredPendingDecision: the states a snapshot may combine. *)
Compatible ==
  {State("G0", "idle", "submitIdea"), State("G6", "successful", "none"),
   State("G4", "running", "none"), State("G4", "rate-limit", "none"),
   State("G4", "stopped", "startBuild"), State("G4", "interrupted", "startBuild")}
  \cup {State(To[c].stage, "waiting", To[c].decision) :
          c \in Commands \ {"startBuild", "acceptResult"}}
  \cup {State(stage, "recovery-required", "none") : stage \in Stages}

(* normalizeProjectSnapshot: what the store agrees to publish. *)
Publishable(s) ==
  /\ State(s.stage, s.run, s.decision) \in Compatible
  /\ s.failure # "none" /\ s.run # "recovery-required" => s.failure = s.run

Safe(s)     == s.run # "recovery-required"
Building(s) == s.stage = "G4" /\ s.run = "running" /\ s.decision = "none"

(* #acceptedEvidence: exactly the required gates, each passed, in order. *)
Evident(s) == s.gates = Required

(* What each publication makes of the snapshot before it. *)
Becomes(s, state) ==
  [s EXCEPT !.stage = state.stage, !.run = state.run, !.decision = state.decision]
AfterCommand(s, c) == Becomes(s, To[c])
(* Mutant: the retry keeps the failure code of the build before. *)
RetryKeepsFailure(s) == Becomes(s, To["startBuild"])
AfterRetry(s)      == [Becomes(s, To["startBuild"]) EXCEPT !.failure = "none"]
AfterGate(s, exact) ==
  [s EXCEPT !.gates = IF exact /\ s.gates < Required THEN s.gates + 1 ELSE Spoiled]
AfterAdvance(s, run, gates) ==
  [Becomes(s, State("G5", run, IF run = "waiting" THEN "acceptResult" ELSE "none"))
     EXCEPT !.gates = gates]
AfterFailure(s, state) ==
  [Becomes(s, State("G4", state, IF state \in {"stopped", "interrupted"}
                                   THEN "startBuild" ELSE "none"))
     EXCEPT !.failure = state]
AfterCompletion(s) == Becomes(s, State("G5", "waiting", "acceptResult"))

(* The guards the handlers put before a publication. *)
CommandAllowed(s, c) ==
  /\ Safe(s)
  /\ s.stage = From[c]
  /\ c = "acceptResult" => s.run = "waiting" /\ s.decision = "acceptResult" /\ Evident(s)
RetryAllowed(s) ==
  s.stage = "G4" /\ s.run \in {"stopped", "interrupted"} /\ s.decision = "startBuild"
AdvanceAllowed(s, run, gates) ==
  Safe(s) /\ s.stage = "G4" /\ (run = "waiting" => gates = Required)

-----------------------------------------------------------------------------
TypeOK ==
  /\ snapshot \in Snapshot
  /\ working \in BOOLEAN

Init ==
  /\ snapshot = [stage |-> "G0", run |-> "idle", decision |-> "submitIdea",
                 failure |-> "none", gates |-> 0]
  /\ working = FALSE

(* #publish, or the refusal of its normalisation. *)
Publish(s) == Publishable(s) /\ snapshot' = s /\ UNCHANGED working

Command(c) ==
  /\ CommandAllowed(snapshot, c)
  /\ ~working
  /\ Publish(AfterCommand(snapshot, c))

(* startBuild once more, after a build that stopped or was interrupted. *)
Retry ==
  /\ RetryAllowed(snapshot)
  /\ ~working
  /\ Publish(AfterRetry(snapshot))

(* recordGate asks neither for a stage nor for an idle engine. *)
RecordGate(exact) ==
  /\ Safe(snapshot)
  /\ Publish(AfterGate(snapshot, exact))

(* Mutant: the active attempt is not asked for. *)
AdvanceOverWork(gates) ==
  /\ AdvanceAllowed(snapshot, "waiting", gates)
  /\ Publish(AfterAdvance(snapshot, "waiting", gates))

(* advancePhase: the supervisor's own publication, with gates of its own. *)
AdvanceToResult(gates) ==
  /\ AdvanceAllowed(snapshot, "waiting", gates)
  /\ ~working
  /\ Publish(AfterAdvance(snapshot, "waiting", gates))

AdvanceToRecovery(gates) ==
  /\ AdvanceAllowed(snapshot, "recovery-required", gates)
  /\ Publish(AfterAdvance(snapshot, "recovery-required", gates))

(* launchAttempt lets the engine go. *)
Launch ==
  /\ Building(snapshot)
  /\ working' = TRUE
  /\ UNCHANGED snapshot

(* The process group ends by itself or is reaped. *)
WorkEnds ==
  /\ working' = FALSE
  /\ UNCHANGED snapshot

(* publishAttemptFailure and reconcile publish once the group is gone. *)
Fail(state) ==
  /\ Building(snapshot)
  /\ ~working
  /\ Publish(AfterFailure(snapshot, state))

(* completeAttempt *)
Complete ==
  /\ Building(snapshot)
  /\ Evident(snapshot)
  /\ ~working
  /\ Publish(AfterCompletion(snapshot))

Next ==
  \/ \E c \in Commands : Command(c)
  \/ Retry
  \/ \E exact \in BOOLEAN : RecordGate(exact)
  \/ \E gates \in 0 .. Spoiled : AdvanceToResult(gates) \/ AdvanceToRecovery(gates)
  \/ Launch
  \/ WorkEnds
  \/ \E state \in FailureStates : Fail(state)
  \/ Complete

Spec == Init /\ [][Next]_vars

(* A user who keeps answering what the project asks. *)
FairSpec ==
  /\ Spec
  /\ \A c \in Commands : WF_vars(Command(c))
  /\ WF_vars(Retry)
  /\ WF_vars(Launch)

-----------------------------------------------------------------------------
(* Properties *)

(* A result is shown for a decision, or accepted, only at rest: no engine  *)
(* process may still be changing what the user is looking at.              *)
ResultAtRest == snapshot.run \in {"waiting", "successful"} => ~working

(* A failure is only ever reported for the build it ended: it reaches no    *)
(* result, whichever of command, advancePhase and completeAttempt leads     *)
(* there, no later build and no new plan.                                   *)
FailureStaysInBuild ==
  snapshot.failure # "none" =>
    /\ snapshot.stage = "G4" \/ snapshot.run = "recovery-required"
    /\ snapshot.run # "running"

(* Recovery is a latch: no command, gate, phase or launch leads out of a   *)
(* published recovery, and no work starts in it.                           *)
RecoveryLatched ==
  [][ snapshot.run = "recovery-required" =>
        snapshot' = snapshot /\ (working' => working) ]_vars

(* A build that stopped or was interrupted is a build again as soon as the  *)
(* user retries: the store refuses no retry.                                *)
RetryResumes ==
  snapshot.run \in {"stopped", "interrupted"} ~> snapshot.run \notin {"stopped", "interrupted"}
=============================================================================
