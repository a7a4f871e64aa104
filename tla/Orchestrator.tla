---------------------------- MODULE Orchestrator ----------------------------
(***************************************************************************)
(* One project's orchestrator and its artifact store                       *)
(* (packages/orchestrator/src/orchestrator.ts and artifacts.ts), one       *)
(* durable write per step, with the supervisor dying between any two of    *)
(* them and opening the project again, and with writes that fail in a      *)
(* supervisor that lives on.                                               *)
(*                                                                         *)
(* #mutate serialises the operations of a process and the project lock     *)
(* (ProjectLock.tla) the processes, so at most one operation is in flight; *)
(* what interleaves with it are the crash, the end of the engine's process *)
(* group and the wrapper that starts the engine on GO.  File contents are  *)
(* abstracted to what the checks of the code tell apart; a digest binds    *)
(* the whole content, so equal digests are equal contents.                 *)
(***************************************************************************)
EXTENDS Naturals, FiniteSets

CONSTANTS
  Required,     (* the number of required machine gates                      *)
  Attempts,     (* the attempt identities callers of launchAttempt supply    *)
  NoAttempt,    (* no attempt                                                *)
  NoMarker,     (* no recovery.json                                          *)
  FreshIds,     (* TRUE: callers never supply the identity of an earlier     *)
                (* attempt, as launchAttempt's default never does            *)
  MaxRevision,  (* bound: the revisions explored                             *)
  MaxMishaps,   (* bound: the crashes of the supervisor and the durable      *)
                (* writes that fail, together                                *)
  MaxFaults     (* bound: the durable writes that fail                       *)

ASSUME AttemptAssumption == NoAttempt \notin Attempts
ASSUME GatesAssumption == Required \in Nat \ {0}
ASSUME FreshAssumption == FreshIds \in BOOLEAN
ASSUME BoundsAssumption == MaxRevision \in Nat /\ MaxMishaps \in Nat /\ MaxFaults \in Nat

VARIABLES
  (* on disk *)
  manifest,  (* the snapshot of manifest.json with its revision; 0: no file  *)
  runs,      (* the immutable runs: who wrote them at which revision         *)
  fixture,   (* attempts/<id>.json: the status of each attempt               *)
  marker,    (* recovery.json: the attempt and the manifest it was made of   *)
  history,   (* recovery-history/<marker>.json: what the marker resolves to  *)
  (* processes *)
  group,     (* the process group of each attempt                            *)
  up,        (* a supervisor has the project open                            *)
  (* the supervisor's memory *)
  trusted,   (* #manifest is set: the run chain was verified                 *)
  recovery,  (* #recovery is set: the snapshot reads recovery-required       *)
  active,    (* #active                                                      *)
  pc,        (* the next durable step of the operation in flight             *)
  op,        (* that operation                                               *)
  crashes,   (* the crashes so far                                           *)
  faults     (* the failed writes so far                                     *)

disk   == <<manifest, runs, fixture, marker, history>>
memory == <<up, trusted, recovery, active, pc, op>>
counts == <<crashes, faults>>
vars   == <<disk, group, memory, counts>>

(* The engine runs, or is about to: GO cannot be taken back. *)
Works(a) == group[a] \in {"cleared", "target"}

(* The manifest on disk and the engine at work are the life of the project. *)
L == INSTANCE Lifecycle WITH
  snapshot <- manifest.snapshot,
  working  <- \E a \in Attempts : Works(a)

Snap == manifest.snapshot

FixtureStates == {"none", "prepared", "running", "recovery-required", "interrupted"}
GroupStates   == {"none", "wrapper", "cleared", "target", "dead"}
Kinds == {"none", "publish", "launch", "failure", "reconcile", "complete",
          "resume", "finalize"}
Steps == {"idle", "spawn", "arm", "go", "started", "stop", "interrupt", "history",
          "run", "fixture", "manifest", "unmark", "recover", "recoverSave"}

Manifests == [rev : Nat, snapshot : L!Snapshot]
Markers   == [attempt : Attempts \cup {NoAttempt}, of : Manifests]
Runs      == [by : {"command", "gate", "advance", "failure", "reconcile", "completed"},
              attempt : Attempts \cup {NoAttempt}, rev : Nat]
Ops       == [kind : Kinds, attempt : Attempts \cup {NoAttempt}, next : Manifests]

(* A project without a manifest reads as an idle one. *)
Unborn == [rev |-> 0, snapshot |-> [stage |-> "G0", run |-> "idle",
             decision |-> "submitIdea", failure |-> "none", gates |-> 0]]

Run(by, a, rev)      == [by |-> by, attempt |-> a, rev |-> rev]
Op(kind, a, next)    == [kind |-> kind, attempt |-> a, next |-> next]
NoOp                 == Op("none", NoAttempt, Unborn)
Marker(a)            == [attempt |-> a, of |-> manifest]
Next1(s)             == [rev |-> manifest.rev + 1, snapshot |-> s]

(* The records that open counts as active. *)
IsActive(a) == fixture[a] \in {"prepared", "running", "recovery-required"}
(* The attempt in memory has a receipt, which its record gets together with *)
(* the status 'running'; the memory outlives a record that is removed.      *)
HasReceipt(a) == fixture[a] # "prepared"
Live(a)   == group[a] \in {"wrapper", "cleared", "target"}

-----------------------------------------------------------------------------
(* What the store reads from disk *)

RunsAt(rev) == {r \in runs : r.rev = rev}

(* Mutant: the fixture must still be there. *)
PreparedBesideFixture ==
  /\ marker # NoMarker /\ marker.attempt # NoAttempt
  /\ L!Building(Snap) /\ marker.of = manifest
  /\ history = "exact-completion"
  /\ Run("completed", marker.attempt, manifest.rev + 1) \in runs
  /\ L!Evident(Snap)
  /\ \A a \in Attempts : IsActive(a) => a = marker.attempt
  /\ fixture[marker.attempt] = "running"

(* #preparedCompletion: a durable completed run still beside the old G4     *)
(* manifest, bound by the marker, its history, the gates and the fixture.   *)
PreparedCompletion ==
  /\ marker # NoMarker /\ marker.attempt # NoAttempt
  /\ L!Building(Snap) /\ marker.of = manifest
  /\ history = "exact-completion"
  /\ Run("completed", marker.attempt, manifest.rev + 1) \in runs
  /\ L!Evident(Snap)
  /\ \A a \in Attempts : IsActive(a) => a = marker.attempt
  /\ fixture[marker.attempt] \in {"none", "running"}

(* Mutant: runs beyond the manifest are not looked at. *)
ChainUpToManifest == \A rev \in 1 .. manifest.rev : Cardinality(RunsAt(rev)) = 1

(* #verifyRunChain *)
ChainVerifies ==
  /\ \A rev \in 1 .. manifest.rev : Cardinality(RunsAt(rev)) = 1
  /\ \A r \in runs : r.rev \in 1 .. manifest.rev + 1
  /\ Cardinality(RunsAt(manifest.rev + 1)) \in {0, 1}
  /\ RunsAt(manifest.rev + 1) # {} => manifest.rev > 0 /\ PreparedCompletion

(* #finalizeExactReconciliationTerminal with the checks of its callers: the *)
(* interruption or failure that the marker waits for is published.          *)
ReconciliationFinal ==
  /\ marker # NoMarker /\ marker.attempt # NoAttempt
  /\ marker.of.snapshot.stage = "G4"
  /\ manifest.rev = marker.of.rev + 1
  /\ history # "none"
  /\ Snap.stage = "G4" /\ Snap.failure # "none"
  /\ \E by \in {"failure", "reconcile"} : Run(by, marker.attempt, manifest.rev) \in runs
  /\ \A a \in Attempts : ~IsActive(a)
  /\ fixture[marker.attempt] = "interrupted"

(* finalizeExactRecoveryMarker('exact-completion') *)
CompletionFinal ==
  /\ marker # NoMarker /\ marker.attempt # NoAttempt
  /\ marker.of.snapshot.stage = "G4"
  /\ manifest.rev = marker.of.rev + 1
  /\ history = "exact-completion"
  /\ Snap.stage = "G5" /\ Snap.run = "waiting" /\ Snap.failure = "none"
  /\ Run("completed", marker.attempt, manifest.rev) \in runs
  /\ \A a \in Attempts : ~IsActive(a)
  /\ fixture[marker.attempt] = "none"

Usable == up /\ pc = "idle"
(* Mutant: the published state alone decides. *)
SafeAsPublished == L!Safe(Snap)

(* #assertSafe *)
Safe == ~recovery /\ L!Safe(Snap)

TypeOK ==
  /\ manifest \in Manifests /\ manifest.rev <= MaxRevision
  /\ L!Publishable(Snap)
  /\ runs \in SUBSET Runs
  /\ fixture \in [Attempts -> FixtureStates]
  /\ marker \in Markers \cup {NoMarker}
  /\ history \in {"none", "exact-reconciliation", "exact-completion"}
  /\ group \in [Attempts -> GroupStates]
  /\ up \in BOOLEAN /\ trusted \in BOOLEAN /\ recovery \in BOOLEAN
  /\ active \in Attempts \cup {NoAttempt}
  /\ pc \in Steps
  /\ op \in Ops
  /\ crashes \in 0 .. MaxMishaps /\ faults \in 0 .. MaxFaults

Init ==
  /\ manifest = Unborn
  /\ runs = {}
  /\ fixture = [a \in Attempts |-> "none"]
  /\ marker = NoMarker
  /\ history = "none"
  /\ group = [a \in Attempts |-> "none"]
  /\ up = FALSE /\ trusted = FALSE /\ recovery = FALSE
  /\ active = NoAttempt
  /\ pc = "idle"
  /\ op = NoOp
  /\ crashes = 0 /\ faults = 0

-----------------------------------------------------------------------------
(* Ordinary publications: the immutable run first, then the manifest *)

(* The name of an ordinary run is its kind and its revision, and a run that *)
(* exists is not written again.                                             *)
Publish(by, s) ==
  /\ L!Publishable(s)
  /\ manifest.rev < MaxRevision
  /\ Run(by, NoAttempt, manifest.rev + 1) \notin runs
  /\ runs' = runs \cup {Run(by, NoAttempt, manifest.rev + 1)}
  /\ op' = Op("publish", NoAttempt, Next1(s))
  /\ pc' = "manifest"
  /\ UNCHANGED <<manifest, fixture, marker, history, group, up, trusted, recovery,
                 active, counts>>

Command(c) ==
  /\ Usable /\ Safe /\ active = NoAttempt
  /\ L!CommandAllowed(Snap, c)
  /\ Publish("command", L!AfterCommand(Snap, c))

Retry ==
  /\ Usable /\ Safe /\ active = NoAttempt
  /\ L!RetryAllowed(Snap)
  /\ Publish("command", L!AfterRetry(Snap))

RecordGate(exact) ==
  /\ Usable /\ Safe
  /\ Publish("gate", L!AfterGate(Snap, exact))

AdvancePhase(run, gates) ==
  /\ Usable /\ ~recovery
  /\ L!AdvanceAllowed(Snap, run, gates)
  /\ run = "waiting" => active = NoAttempt
  /\ Publish("advance", L!AfterAdvance(Snap, run, gates))

(* atomicWrite of manifest.json; a completion or a resolution goes on to    *)
(* remove its marker.                                                       *)
WriteManifest ==
  /\ pc = "manifest"
  /\ manifest' = op.next
  /\ IF op.kind = "publish" THEN pc' = "idle" /\ op' = NoOp
                            ELSE pc' = "unmark" /\ op' = op
  /\ UNCHANGED <<runs, fixture, marker, history, group, up, trusted, recovery,
                 active, counts>>

-----------------------------------------------------------------------------
(* launchAttempt: intent, wrapper, receipt, GO *)

(* Mutant: the attempt in memory is not asked for. *)
LaunchBesideActive(a) ==
  /\ Usable /\ Safe
  /\ L!Building(Snap)
  /\ fixture[a] = "none"
  /\ fixture' = [fixture EXCEPT ![a] = "prepared"]
  /\ active' = a
  /\ op' = Op("launch", a, Unborn)
  /\ pc' = "spawn"
  /\ UNCHANGED <<manifest, runs, marker, history, group, up, trusted, recovery, counts>>

(* No record and no run has them; such identities are interchangeable, and  *)
(* a fresh one stands for all.                                              *)
Unused == {a \in Attempts : fixture[a] = "none" /\ \A r \in runs : r.attempt # a}

Launch(a) ==
  /\ Usable /\ Safe /\ active = NoAttempt
  /\ L!Building(Snap)
  /\ fixture[a] = "none"
  /\ FreshIds => a \in Unused /\ a = CHOOSE x \in Unused : TRUE
  /\ fixture' = [fixture EXCEPT ![a] = "prepared"]
  /\ active' = a
  /\ op' = Op("launch", a, Unborn)
  /\ pc' = "spawn"
  /\ UNCHANGED <<manifest, runs, marker, history, group, up, trusted, recovery, counts>>

SpawnWrapper ==
  /\ pc = "spawn"
  /\ group' = [group EXCEPT ![op.attempt] = "wrapper"]
  /\ pc' = "arm"
  /\ UNCHANGED <<disk, up, trusted, recovery, active, op, counts>>

(* Mutant: the receipt stays in memory. *)
KeepReceipt ==
  /\ pc = "arm"
  /\ group[op.attempt] = "wrapper"
  /\ pc' = "go"
  /\ UNCHANGED <<disk, group, up, trusted, recovery, active, op, counts>>

(* The armed wrapper is observed as the leader of its group. *)
SaveReceipt ==
  /\ pc = "arm"
  /\ group[op.attempt] = "wrapper"
  /\ fixture' = [fixture EXCEPT ![op.attempt] = "running"]
  /\ pc' = "go"
  /\ UNCHANGED <<manifest, runs, marker, history, group, up, trusted, recovery,
                 active, op, counts>>

SendGo ==
  /\ pc = "go"
  /\ group[op.attempt] = "wrapper"
  /\ group' = [group EXCEPT ![op.attempt] = "cleared"]
  /\ pc' = "started"
  /\ UNCHANGED <<disk, up, trusted, recovery, active, op, counts>>

LaunchReturns ==
  /\ pc = "started"
  /\ group[op.attempt] \in {"target", "dead"}
  /\ pc' = "idle" /\ op' = NoOp
  /\ UNCHANGED <<disk, group, up, trusted, recovery, active, counts>>

(* A timeout, an exit or a bad message.  Without a receipt the wrapper is   *)
(* killed; with one the attempt is stopped like any other.                  *)
HandshakeFails ==
  /\ pc \in {"spawn", "arm", "go", "started"}
  /\ IF HasReceipt(op.attempt)
       THEN pc' = "stop" /\ UNCHANGED group
       ELSE /\ pc' = "recover"
            /\ group' = [group EXCEPT ![op.attempt] = IF @ = "none" THEN @ ELSE "dead"]
  /\ UNCHANGED <<disk, up, trusted, recovery, active, op, counts>>

-----------------------------------------------------------------------------
(* The three ways to end an attempt.  #beginTerminalRecovery writes the     *)
(* marker before anything is signalled.                                     *)

Begin(kind, s) ==
  /\ manifest.rev < MaxRevision
  /\ op' = Op(kind, active, Next1(s))
  /\ pc' = "stop"

Mark(a) ==
  /\ marker' = Marker(a)
  /\ history' = "none"
  /\ recovery' = TRUE

PublishAttemptFailure(state) ==
  /\ Usable /\ ~recovery /\ active # NoAttempt
  /\ L!Building(Snap)
  /\ Begin("failure", L!AfterFailure(Snap, state))
  /\ Mark(active)
  /\ UNCHANGED <<manifest, runs, fixture, group, up, trusted, active, counts>>

(* What is read is the manifest's snapshot, in recovery with the overlay    *)
(* that requireRecovery derived from it; only a marker found by open brings *)
(* an overlay of its own, and that of an attempt in 'running' was made of   *)
(* this manifest.  In recovery the marker is there already, or missing:     *)
(* then the resolution is refused.  An attempt without a receipt cannot be  *)
(* stopped.                                                                 *)
Reconcile ==
  /\ Usable /\ active # NoAttempt
  /\ manifest.rev < MaxRevision
  /\ op' = Op("reconcile", active, Next1(L!AfterFailure(Snap, "interrupted")))
  /\ pc' = IF HasReceipt(active) THEN "stop" ELSE "recover"
  /\ IF ~recovery /\ L!Building(Snap) THEN Mark(active)
                                     ELSE UNCHANGED <<marker, history, recovery>>
  /\ UNCHANGED <<manifest, runs, fixture, group, up, trusted, active, counts>>

(* #assertExactCompletionAuthority with the conditions before it *)
Completable ==
  /\ active # NoAttempt
  /\ L!Building(Snap) /\ L!Evident(Snap)
  /\ fixture[active] = "running"
  /\ \A a \in Attempts : IsActive(a) => a = active

CompleteAttempt ==
  /\ Usable /\ Safe /\ Completable
  /\ Begin("complete", L!AfterCompletion(Snap))
  /\ Mark(active)
  /\ UNCHANGED <<manifest, runs, fixture, group, up, trusted, active, counts>>

(* #failCompletion: a completion that names another attempt or comes too    *)
(* early latches recovery.                                                  *)
RefuseCompletion ==
  /\ Usable /\ Safe
  /\ IF active # NoAttempt
       THEN /\ op' = Op("complete", active, Unborn)
            /\ pc' = "recover"
            /\ UNCHANGED <<marker, history, recovery>>
       ELSE Mark(NoAttempt) /\ UNCHANGED <<op, pc>>
  /\ UNCHANGED <<manifest, runs, fixture, group, up, trusted, active, counts>>

(* Mutant: a group that cannot be identified counts as absent. *)
AssumeStopped ==
  /\ pc = "stop"
  /\ pc' = IF op.kind = "complete" THEN "history" ELSE "interrupt"
  /\ UNCHANGED <<disk, group, up, trusted, recovery, active, op, counts>>

(* #stopActive: the group is absent, or it is identified and killed.        *)
StopGroup ==
  /\ pc = "stop"
  /\ group' = [group EXCEPT ![op.attempt] = "dead"]
  /\ pc' = IF op.kind = "complete" THEN "history" ELSE "interrupt"
  /\ UNCHANGED <<disk, up, trusted, recovery, active, op, counts>>

(* Its identity cannot be observed, or it does not end in time. *)
StopFails ==
  /\ pc = "stop"
  /\ pc' = "recover"
  /\ UNCHANGED <<disk, group, up, trusted, recovery, active, op, counts>>

(* #interruptActive; only a reconciliation in G4 has something to publish.  *)
SaveInterrupted ==
  /\ pc = "interrupt"
  /\ fixture' = [fixture EXCEPT ![op.attempt] = "interrupted"]
  /\ active' = NoAttempt
  /\ CASE op.kind = "launch" -> pc' = "recover" /\ op' = op
       [] op.kind # "launch" /\ Snap.stage = "G4" -> pc' = "history" /\ op' = op
       [] OTHER -> pc' = "idle" /\ op' = NoOp
  /\ UNCHANGED <<manifest, runs, marker, history, group, up, trusted, recovery, counts>>

Resolution == IF op.kind = "complete" THEN "exact-completion" ELSE "exact-reconciliation"

(* #completionIntentCanYieldToReconciliation *)
IntentYields ==
  /\ trusted
  /\ L!Building(Snap) /\ marker.of.rev = manifest.rev
  /\ \A r \in runs : r.attempt # marker.attempt

(* #appendRecoveryHistory *)
HistoryAccepts ==
  /\ marker # NoMarker
  /\ \/ history \in {"none", Resolution}
     \/ Resolution = "exact-reconciliation" /\ IntentYields

AppendHistory ==
  /\ pc = "history"
  /\ HistoryAccepts
  /\ history' = IF history = "none" THEN Resolution ELSE history
  /\ pc' = "run"
  /\ UNCHANGED <<manifest, runs, fixture, marker, group, up, trusted, recovery,
                 active, op, counts>>

(* A terminal run has the name of its attempt.                              *)
TerminalRun == Run(IF op.kind = "complete" THEN "completed" ELSE op.kind,
                   op.attempt, op.next.rev)

(* #publish of it: a run that is there already must be the same.  (The      *)
(* shortcut of resolveRecoveryExact for a manifest that is this very result *)
(* is never taken: what is submitted is one revision past the manifest.)    *)
RunAccepts ==
  /\ trusted
  /\ op.next.rev = manifest.rev + 1
  /\ {r \in runs : r.attempt = op.attempt} \subseteq {TerminalRun}

(* Mutant: the manifest is advanced before the fixture is removed. *)
WriteRunManifestNext ==
  /\ pc = "run"
  /\ RunAccepts
  /\ runs' = runs \cup {TerminalRun}
  /\ pc' = "manifest"
  /\ UNCHANGED <<manifest, fixture, marker, history, group, up, trusted, recovery,
                 active, op, counts>>

WriteRun ==
  /\ pc = "run"
  /\ RunAccepts
  /\ runs' = runs \cup {TerminalRun}
  /\ pc' = IF op.kind = "complete" THEN "fixture" ELSE "manifest"
  /\ UNCHANGED <<manifest, fixture, marker, history, group, up, trusted, recovery,
                 active, op, counts>>

(* Either refusal throws, and #recoverActive takes over. *)
TerminalRefused ==
  /\ \/ pc = "history" /\ ~HistoryAccepts
     \/ pc = "run" /\ ~RunAccepts
  /\ pc' = "recover"
  /\ UNCHANGED <<disk, group, up, trusted, recovery, active, op, counts>>

(* #removeActiveAttemptExact, then #clearCompletedActive, which a resumed   *)
(* completion only reaches at its end.                                      *)
RemoveFixture ==
  /\ pc = "fixture"
  /\ fixture' = [fixture EXCEPT ![op.attempt] = "none"]
  /\ active' = IF op.kind = "resume" THEN active ELSE NoAttempt
  /\ pc' = "manifest"
  /\ UNCHANGED <<manifest, runs, marker, history, group, up, trusted, recovery, op, counts>>

RemoveMarker ==
  /\ pc = "unmark"
  /\ marker' = NoMarker
  /\ history' = "none"
  /\ recovery' = FALSE
  /\ active' = IF op.kind = "resume" THEN NoAttempt ELSE active
  /\ pc' = "idle" /\ op' = NoOp
  /\ UNCHANGED <<manifest, runs, fixture, group, up, trusted, counts>>

(* #recoverActive: the marker unless there is one, then the attempt, whose  *)
(* record is only valid with a receipt.                                     *)
RequireRecovery ==
  /\ pc = "recover"
  /\ IF marker = NoMarker THEN Mark(op.attempt)
                          ELSE recovery' = TRUE /\ UNCHANGED <<marker, history>>
  /\ pc' = "recoverSave"
  /\ UNCHANGED <<manifest, runs, fixture, group, up, trusted, active, op, counts>>

SaveRecovering ==
  /\ pc = "recoverSave"
  /\ fixture' = IF HasReceipt(op.attempt)
                  THEN [fixture EXCEPT ![op.attempt] = "recovery-required"] ELSE fixture
  /\ active' = op.attempt
  /\ pc' = "idle" /\ op' = NoOp
  /\ UNCHANGED <<manifest, runs, marker, history, group, up, trusted, recovery, counts>>

(* reconcile without an active attempt finishes a stranded resolution.      *)
FinalizeMarker ==
  /\ Usable /\ active = NoAttempt
  /\ trusted /\ recovery /\ ChainVerifies /\ ReconciliationFinal
  /\ op' = Op("finalize", marker.attempt, Unborn)
  /\ pc' = "unmark"
  /\ UNCHANGED <<disk, group, up, trusted, recovery, active, counts>>

-----------------------------------------------------------------------------
(* Orchestrator.open: what is read decides what is repaired *)

(* Mutant: an attempt in recovery does not regain authority. *)
RunningCandidates == {a \in Attempts : fixture[a] = "running"}

(* The attempt that regains authority; open never selects among several.    *)
Candidates == {a \in Attempts : fixture[a] \in {"running", "recovery-required"}}
Regained   == IF Cardinality(Candidates) = 1
                THEN CHOOSE a \in Candidates : TRUE ELSE NoAttempt

InRecovery == ~ChainVerifies \/ marker # NoMarker
Interrupted == {a \in Attempts : fixture[a] = "interrupted"}

(* Why open latches recovery itself, and for which attempt. *)
NeedsCleanup == \E a \in Attempts : fixture[a] \in {"prepared", "recovery-required"}
Unpublished  == ~InRecovery /\ L!Building(Snap) /\ Interrupted # {}
CleanupOf ==
  IF Unpublished
    THEN IF Cardinality(Interrupted) = 1 THEN CHOOSE a \in Interrupted : TRUE
                                         ELSE NoAttempt
    ELSE CHOOSE a \in Attempts : fixture[a] \in {"prepared", "recovery-required"}

(* resumePreparedCompletion also wants the group gone. *)
Resumable ==
  /\ ~NeedsCleanup /\ ChainVerifies /\ PreparedCompletion
  /\ fixture[marker.attempt] = "running" => ~Live(marker.attempt)
Finalizable ==
  /\ ~NeedsCleanup /\ ChainVerifies /\ Candidates = {}
  /\ CompletionFinal \/ (history = "exact-completion" /\ ReconciliationFinal)

(* archiveCompletedAttemptFixtureIfExact throws: the attempt of a published *)
(* result is still on record, in need of recovery.                          *)
Refused ==
  /\ ChainVerifies
  /\ Snap.stage = "G5" /\ Snap.run = "waiting"
  /\ \E a \in Attempts : IsActive(a)

Opened ==
  /\ ~up
  /\ up' = TRUE
  /\ trusted' = ChainVerifies
  /\ active' = Regained

OpenPlainly ==
  /\ Opened
  /\ ~Refused /\ ~Resumable /\ ~Finalizable
  /\ marker # NoMarker \/ ~(NeedsCleanup \/ Unpublished)
  /\ recovery' = InRecovery
  /\ UNCHANGED <<disk, group, pc, op, counts>>

OpenLatching ==
  /\ Opened
  /\ ~Refused /\ ~Resumable /\ ~Finalizable
  /\ marker = NoMarker /\ (NeedsCleanup \/ Unpublished)
  /\ Mark(CleanupOf)
  /\ UNCHANGED <<manifest, runs, fixture, group, pc, op, counts>>

OpenResuming ==
  /\ Opened
  /\ Resumable
  /\ recovery' = TRUE
  /\ op' = Op("resume", marker.attempt, Next1(L!AfterCompletion(Snap)))
  /\ pc' = IF fixture[marker.attempt] = "running" THEN "fixture" ELSE "manifest"
  /\ UNCHANGED <<disk, group, counts>>

OpenFinalizing ==
  /\ Opened
  /\ Finalizable
  /\ recovery' = TRUE
  /\ op' = Op("finalize", marker.attempt, Unborn)
  /\ pc' = "unmark"
  /\ UNCHANGED <<disk, group, counts>>

(* No record is read then, and the marker names no attempt. *)
OpenRefusing ==
  /\ ~up /\ Refused
  /\ up' = TRUE /\ trusted' = TRUE
  /\ active' = NoAttempt
  /\ IF marker = NoMarker THEN Mark(NoAttempt)
                          ELSE recovery' = TRUE /\ UNCHANGED <<marker, history>>
  /\ UNCHANGED <<manifest, runs, fixture, group, pc, op, counts>>

Forget ==
  /\ up' = FALSE /\ trusted' = FALSE /\ recovery' = FALSE
  /\ active' = NoAttempt
  /\ pc' = "idle" /\ op' = NoOp
  /\ UNCHANGED <<disk, group>>

Close == Usable /\ Forget /\ UNCHANGED counts

Crash ==
  /\ up /\ crashes + faults < MaxMishaps
  /\ Forget
  /\ crashes' = crashes + 1
  /\ UNCHANGED faults

-----------------------------------------------------------------------------
(* A durable write fails, leaves the disk as it was, and the supervisor     *)
(* lives on.  (When the first write of a publication or a launch fails      *)
(* nothing has happened; the receipt's is one of HandshakeFails.)           *)

CanFail == faults < MaxFaults /\ crashes + faults < MaxMishaps

Fault ==
  /\ up /\ CanFail
  /\ faults' = faults + 1
  /\ UNCHANGED <<crashes, disk, group, up, trusted>>

(* #interruptActive throws; after a failed handshake this skips             *)
(* #recoverActive.                                                          *)
InterruptFails ==
  /\ pc = "interrupt"
  /\ Fault
  /\ pc' = "idle" /\ op' = NoOp
  /\ UNCHANGED <<recovery, active>>

(* A terminal publication goes on to #recoverActive, any other is given up. *)
PublicationFails ==
  /\ pc \in {"history", "run", "fixture", "manifest", "unmark"}
  /\ Fault
  /\ IF op.kind \in {"failure", "reconcile", "complete"}
       THEN pc' = "recover" /\ op' = op
       ELSE pc' = "idle" /\ op' = NoOp
  /\ UNCHANGED <<recovery, active>>

(* requireRecovery throws after it has latched the memory: in               *)
(* #beginTerminalRecovery, which tries again, and in #failCompletion.       *)
MarkFails ==
  /\ Usable /\ ~recovery
  /\ IF active = NoAttempt
       THEN L!Safe(Snap) /\ UNCHANGED <<pc, op>>
       ELSE L!Building(Snap) /\ pc' = "recover" /\ op' = Op("failure", active, Unborn)
  /\ recovery' = TRUE
  /\ Fault
  /\ UNCHANGED active

(* #recoverActive makes its second write whatever became of the first. *)
RecoveryFails ==
  /\ \/ /\ pc = "recover" /\ marker = NoMarker
        /\ recovery' = TRUE
        /\ pc' = "recoverSave"
        /\ UNCHANGED <<active, op>>
     \/ /\ pc = "recoverSave"
        /\ active' = op.attempt
        /\ pc' = "idle" /\ op' = NoOp
        /\ UNCHANGED recovery
  /\ Fault

(* The marker open writes for an attempt fails; the one it writes for that  *)
(* failure names none.                                                      *)
OpenMarkFails ==
  /\ Opened
  /\ ~Refused /\ ~Resumable /\ ~Finalizable
  /\ marker = NoMarker /\ (NeedsCleanup \/ Unpublished)
  /\ Mark(NoAttempt)
  /\ CanFail /\ faults' = faults + 1
  /\ UNCHANGED <<manifest, runs, fixture, group, pc, op, crashes>>

-----------------------------------------------------------------------------
(* The process group *)

(* attempt-wrapper.mjs starts the engine on GO, whoever is left to hear it. *)
WrapperStarts(a) ==
  /\ group[a] = "cleared"
  /\ group' = [group EXCEPT ![a] = "target"]
  /\ UNCHANGED <<disk, memory, counts>>

(* The engine finishes; or the wrapper does, for its deadline, the lost     *)
(* connection or the engine's end.                                          *)
GroupEnds(a) ==
  /\ Live(a)
  /\ group' = [group EXCEPT ![a] = "dead"]
  /\ UNCHANGED <<disk, memory, counts>>

-----------------------------------------------------------------------------
Ordinary ==
  \/ \E c \in L!Commands : Command(c)
  \/ Retry
  \/ \E exact \in BOOLEAN : RecordGate(exact)
  \/ \E gates \in {Snap.gates, Required} :
       AdvancePhase("waiting", gates) \/ AdvancePhase("recovery-required", gates)
  \/ \E a \in Attempts : Launch(a)
  \/ \E state \in L!FailureStates : PublishAttemptFailure(state)
  \/ Reconcile \/ CompleteAttempt \/ RefuseCompletion \/ FinalizeMarker
  \/ Close

(* The durable steps an operation in flight still has to make. *)
Continue ==
  \/ SpawnWrapper \/ SaveReceipt \/ SendGo \/ LaunchReturns \/ HandshakeFails
  \/ StopGroup \/ StopFails \/ SaveInterrupted
  \/ AppendHistory \/ WriteRun \/ TerminalRefused
  \/ RemoveFixture
  \/ WriteManifest \/ RemoveMarker \/ RequireRecovery \/ SaveRecovering

Open == OpenPlainly \/ OpenLatching \/ OpenResuming \/ OpenFinalizing \/ OpenRefusing

WriteFails ==
  \/ InterruptFails \/ PublicationFails \/ MarkFails \/ RecoveryFails \/ OpenMarkFails

Next ==
  \/ Ordinary \/ Continue \/ Open \/ Crash \/ WriteFails
  \/ \E a \in Attempts : WrapperStarts(a) \/ GroupEnds(a)

Spec == Init /\ [][Next]_vars

(* An operation that began keeps making its steps, and a project that was   *)
(* left is opened again.                                                    *)
FairSpec == Spec /\ WF_vars(Continue) /\ WF_vars(Open)

-----------------------------------------------------------------------------
(* Properties *)

(* Whatever is interrupted, the manifest on disk lives the life Lifecycle   *)
(* allows: a result is published and accepted only over a dead group, with  *)
(* all gates, from a build, and a published recovery is final.              *)
IsLifecycle == L!Spec

(* An engine that runs is on record with its receipt, in every state a     *)
(* crash can leave: there is no untracked process (GATE_CONTRACT, S2-F22). *)
AttributableWork ==
  \A a \in Attempts : Works(a) => fixture[a] \in {"running", "recovery-required"}

(* An open supervisor that is not in the middle of an operation holds the   *)
(* running engine's attempt, so that reconcile can reap it.                 *)
ReapableWork ==
  Usable => \A a \in Attempts : Works(a) => active = a

(* The disk never holds two attempts that claim to be active: open would    *)
(* then select neither.                                                     *)
OneActiveFixture == Cardinality({a \in Attempts : IsActive(a)}) <= 1

(* A result on disk has no active attempt beside it, at no point of a       *)
(* completion: a crash leaves nothing for                                   *)
(* archiveCompletedAttemptFixtureIfExact to repair.  (When the marker's     *)
(* removal fails, #recoverActive writes the record anew.)                   *)
NoFixtureBesideResult ==
  faults = 0 /\ Snap.run \in {"waiting", "successful"} =>
    \A a \in Attempts : ~IsActive(a)

(* Every published revision has its immutable run, and only one, also after *)
(* an interrupted publication left a run without its manifest.  (A          *)
(* supervisor that lives on after its manifest's write failed publishes the *)
(* same revision again, under another name.)                                *)
ChainIntact ==
  \A rev \in 1 .. manifest.rev :
    RunsAt(rev) # {} /\ (faults = 0 => Cardinality(RunsAt(rev)) = 1)

(* While a recovery marker is on disk no process is started, and the        *)
(* manifest moves to nothing but the terminal run of a stopped attempt.     *)
RecoveryFreezes ==
  [][ marker # NoMarker =>
        /\ \A a \in Attempts : Live(a)' => Live(a)
        /\ manifest' # manifest =>
             \E r \in RunsAt(manifest.rev + 1) :
               r.attempt # NoAttempt /\ ~Live(r.attempt) /\ ~IsActive(r.attempt) ]_vars

(* Once the completed run of an attempt is durable, its result is           *)
(* published, however often the supervisor dies on the way (ADR-010).       *)
Stranded == \E r \in RunsAt(manifest.rev + 1) : r.by = "completed"
CompletionSurvives == Stranded ~> (~Stranded \/ faults > 0)

(* The recovery that open latches is about an attempt that has, as its      *)
(* reason says, "no durable terminal publication".                          *)
LatchedUnpublished ==
  marker # NoMarker => \A r \in runs : r.attempt = marker.attempt /\ r.attempt # NoAttempt
                                         => r.rev > marker.of.rev
=============================================================================
