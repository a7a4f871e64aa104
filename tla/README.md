# Guidelane in TLA+

This directory holds TLA+ models of Guidelane: the project lock, the orchestrator and its
artifact store, the event feed and the cockpit that reads it, the session of the engine
command line, the processes that supervise a command of a generated project, the harness
that runs such a project's gates, and the probe suite that measures the engine. TLC checks
them on small instances and TLAPS proves the most important theorems for every value of
the constants. Paths below are relative to the repository (`packages/...` is
`src/packages/...` in `PROJECT.json`).

## The system

Guidelane builds a local web project for a user who is not a programmer. A *supervisor*
process (a Node program) holds one project directory, starts an *engine* (an agent
command line) in a process group of its own, and publishes *snapshots* of the project:
a stage G0 to G6, a run state, a pending decision and a list of gates. A browser page,
the *cockpit*, shows the snapshot and sends the user's decisions back.

| Component | State | Operations | Modules |
|---|---|---|---|
| Project lock (`artifacts.ts` 946-1115) | `.project.lock`, `.project.lock.takeover`, one candidate file per call | acquire, release, the reclaiming of a stale guard | `ProjectLock`, `Authority`, `ProjectLockProofs`, `MCProjectLock` |
| Project lifecycle (`orchestrator.ts`, `types.ts`) | the published snapshot | the eight commands, advancePhase, recordGate, launchAttempt, publishAttemptFailure, completeAttempt | `Lifecycle`, `LifecycleProofs` |
| Orchestrator and artifact store (`orchestrator.ts`, `artifacts.ts`) | manifest, immutable runs, attempt fixtures, recovery marker and history; the supervisor's memory | the same, one durable write at a time, plus reconcile, requireRecovery, open, close, crashes and failed writes | `Orchestrator`, `MCOrchestrator`, `OrchestratorProofs` |
| Attempt wrapper (`attempt-wrapper.mjs`) | the process group of an attempt | READY, GO, expiry | part of `Orchestrator` |
| Event feed (`orchestrator.ts` 396, 528-534, 626; `server.ts` 127-172) | the semantic events; per socket a subscription and a buffer | publish, emit, upgrade, eventsSince, flush | `EventFeed` |
| Cockpit (`apps/cockpit/src/main.tsx`) | the installed snapshot, the required revision, warnings | recover(), onmessage, onclose | `Cockpit`, `MCCockpit`, `CockpitProofs` |
| Engine session (`packages/engine/src/session.ts`, `registry.ts`) | turns, watchdog, init timer, gate, the registry's groups | start, send, finish, close, stop, setDraining, killAll, and every callback | `EngineSession`, `EngineSessionProofs` |
| Local-web command supervision (`profiles/local-web/src`: `command.ts`, `server-supervisor.mjs`, `server-guardian.mjs`) | the parent's receipt and lease, the supervisor's relay, the guardian or legacy leader, its target | start a command under a lease, wait, stop; handshake, relay, cleanup, deaths | `CommandSupervision`, `CommandSupervisionProofs` |
| Local-web harness and attempt authority (`profiles/local-web/src`: `harness.ts`, `attempt-authority.ts`, `mutations.ts`, `generator.ts`, `git.ts`) | the artifacts directory: gate records, mutation records, an attempt's authority, candidate and terminal result, `result.json`; the server in hand | a normal run, a seeded run, the server's transfer from gate to gate, stage, finalise, mark failed, report | `Harness`, `HarnessProofs` |
| Probe suite (`tools/probe`: `run.mjs`, `lib/runner.mjs`, `probes.mjs`) | the lock file, the children of a process, the verdicts, the baseline | acquire and release the lock, a captured or a streamed call, a probe, the comparison with the baseline | `ProbeRunner`, `ProbeRunnerProofs` |
| Gate tooling and benchmarks (`tools/gates`, `benchmarks/`) | evidence files | sequential scripts | not modelled |

How they interact. The lock admits one supervisor to a project. Within that supervisor
`#mutate` puts the operations in a queue; each is a sequence of durable writes, between
which the process may die. A launched engine is a process group that outlives its
supervisor. Each publication appends an event to the orchestrator's list and calls the
listeners of the event sockets; a cockpit that hears of a later revision fetches the
snapshot. The engine session is driven by the supervisor through calls and events on one
event loop. A command of the generated project (a build, a check, a server) is a process
group that its leader reaps when the lease of the parent, a pipe or a socket, is lost. The
harness runs such commands one after the other and judges what they return; its evidence
is files that a later run of the same directory finds. The probe suite shares nothing with
the rest but the engine it calls. `Orchestrator` implements `Lifecycle` and `ProjectLock`
implements `Authority`, each by a refinement mapping.

What is hard, and what makes each component correct:

* **Lock.** Nothing but single system calls is atomic: a read and the write that depends
  on it interleave with other processes, and a death leaves half-written files. Correct
  means: one holder, who keeps the file; no litter that wedges a later takeover; the two
  states that a dead successor leaves are recovered from.
* **Lifecycle.** Many handlers publish, each with its own guards; a state without a way
  out, a failure that leaks into a later build, or a result over a working engine is the
  product of several of them.
* **Orchestrator.** A crash between any two writes, or a write that fails in a supervisor
  that lives on with a memory the disk no longer matches. Correct means: an engine that runs is
  on record, the revision chain is whole, a completion that is durable is published, and
  the manifest only ever lives the life that Lifecycle allows.
* **Feed and cockpit.** Subscription, history and buffer overlap; responses overtake each
  other; sockets are lost. Correct means: nothing is lost or repeated, and the view never
  goes back or passes for current when it is not.
* **Engine session.** A dozen callbacks over one mutable object. Correct means: no turn
  hangs in silence, a failed gate accepts nothing, and no engine escapes the registry.
* **Command supervision.** Three processes and three pipes, each of which may end first.
  Correct means: no process of the command outlives the lease or its leader, a success is
  the target's own, and every caller gets an answer.
* **Harness.** Three files decide together whether an attempt is accepted, a server is
  handed on while it may exit, any write may fail, and the directory holds the files of
  earlier runs. Correct means: a pass is this run's own, exit code and summary tell one
  story, a seed counts only for the gate it broke, and nothing is left running.
* **Probe suite.** Processes that compete for a lock file, calls that outlive their kill,
  verdicts that rest on silence. Correct means: one suite at a time, a clean exit, and no
  verdict and no green exit without a measurement.

The hazards are listed line by line in `PROJECT.json`, each with its properties and with
what they leave open.

## How the models correspond to the code

A step is what the code does without interruption. That is one system call in
`ProjectLock`; one durable write (a write to a temporary file and a rename) with the
computation before it in `Orchestrator` and `Harness`; a whole operation in `Lifecycle`; one
callback or one continuation of an `await` in `EventFeed`, `Cockpit`, `EngineSession`,
`CommandSupervision` and `ProbeRunner` (there also one system call on the lock). Names follow
the code; where a variable stands for a field, its declaration says which. `PROJECT.json`
maps every definition to its lines. Definitions marked *Mutant* are plausible wrong
versions of the one they precede; each shows that a property would notice.

### ProjectLock and Authority

A receipt is the acquire call that drew its nonce, and a guard is the two receipts it
binds. Nonces are random and drawn once per call, so equal bytes mean an equal origin. The
*ghosts* are calls of processes that were dead before the model starts: they appear only
in the files they left, whole or torn. A probe of a process's identity (`ps`, `kill`)
passes only for a process that is gone. It may fail on a dead one, too: it is inconclusive,
or the pid is in use again and shows a mismatching start identity, which the code does not
take for gone (`artifacts.ts` 969-970, 1112), so it refuses the takeover. The processes on
which it may fail although they are dead are the `Unobservable` ones. Errors of the file
system in a live process are not modelled.

Two states are closed for ever by design and are not reported: a torn lock or guard, and a
guard that is bound to no receipt of the current lock, refuse every takeover.

The lock is an `Authority` but for one race: removeExactGuard compares a guard and then
unlinks whatever the path names by then (see the findings). `stolen` is an auxiliary
variable that no action reads; it says that such an unlink has removed another guard than
the one compared. Reclaims are not restricted in any way: what is checked and proved of the
lock's safety is that as long as none of them has done that, and whatever else they do at
the same time, the lock is an `Authority`. `NoLitter` and the liveness of acquire hold in
every case.

### Lifecycle

The gate list is abstracted to how much of `REQUIRED_MACHINE_GATES` it holds: it is
append-only except for advancePhase, which replaces it, so it is an exact prefix of passed
gates or it is `Spoiled` for good. `Publishable` is the store's
`normalizeProjectSnapshot`: a publication it refuses is an error of the operation and
changes nothing.

### Orchestrator

The disk is `manifest`, `runs`, `fixture`, `marker` and `history`; the memory is `up`,
`trusted`, `recovery`, `active`, and the operation in flight with its next write. A
supervisor that opens the project reads the disk and decides among the branches of
`Orchestrator.open`. `group` is the process group of an attempt with its wrapper; the
wrapper starts the engine once it has heard GO, with or without a supervisor. A run is
who wrote it, at which revision and for which attempt; contents are abstracted because a
digest binds them. The `null` that `#recovery` is for a moment inside a resolution, and
identities of the form `command-N` supplied by a caller, are left out.

A write that fails (`WriteFails`) leaves the disk as it was, and the supervisor goes on
where the code's `catch` leads: `#recoverActive` for a terminal publication, which makes
its second write whatever became of the first, and nothing for an ordinary one. The first
write of a publication or of a launch that fails has no effect at all, and the receipt's is
a failed handshake. An unlink that succeeded while the sync of its directory failed is not
modelled. Nor is the branch of resolveRecoveryExact that finds its own manifest already
written (643-651), for the orchestrator never gets there: requireRecovery derives the
overlay from the last manifest, so a resolution that is tried again after the marker's
removal failed asks for the revision after its own, which the store refuses to an attempt
that has its run.

### EventFeed and Cockpit

An event is its revision. A publication and the emission of its event are two steps of one
`#mutate`, so the next publication waits for the emission, but the answer of `eventsSince`
and the flush of the buffer may come between them. The flush sorts the buffer and skips what
was sent already: what is new, in the order of its revisions (`InOrder`). `EventFeed` is the
orchestrator's and the socket's side; `Cockpit` extends it with the page as its client, and
the two are checked together. A snapshot is its revision and whether it is the recovery
overlay, which keeps the revision it covers; latching recovery emits no event, so a
connected cockpit learns of it at its next recover(). The server reads the snapshot when a
request arrives; responses may overtake each other or fail. The wording of the activity line
is left out.

### EngineSession

One session and its process group. A call is a step, and so is a callback: a line, a timer,
the `close` event, an error of the child or of a stream. A listener that calls the session
from within an event is a call right after the line's step. The engine, the `child` that
spawn started, says nothing before its first turn, writes to a pipe of bounded size, and
may stop answering or exit at any time. It leads a group whose other members are `kin`:
what it starts there may outlive it, with the session's pipes in its hands (`"piped"`) or
with its own stdio (`"free"`). Node reports `close` once the child has exited and the pipes
have ended, so a piped member holds it up and a free one does not; a signal to the group
reaches all of them, also after the leader's exit. The listener of `close` takes the group
out of the registry without a signal, whoever is left in it. Members write no lines here.
A line is abstracted to how `#handle` treats it: a receipt that passes or fails, a result,
any other event, an unusable line, a line beyond the limit. `quiet` says that the stall
limit has passed without a byte. Not modelled: the rest of a chunk that is delivered after
a pause, a supervisor that repeats setDraining(true) and so postpones the watchdog for
ever, and a registry whose signal fails for another reason than a missing group. close()
before start() rejects but leaves its timer running (`closing = "stray"`): the timer stops
a session that is started later. A start() that refuses the receipt has reaped its group.

### CommandSupervision

One command and one caller. `c` is the parent's `ProcessReceiptState`, `s` the supervisor
that relays for a guardian, `g` the leader of the group with its target; `down`, `up`,
`relay` and `result` are the pipes between them. `transport` chooses between the two the
code has: a legacy supervisor that leads the group itself (finite commands) and a
supervisor with a guardian (servers). Both leaders are the same actions, which differ
where `Guardian` occurs. A step is one callback or one line of a pipe. The caller is
either `runCommand` (`call = "wait"`) or somebody who holds a server and stops it
(`"hold"`). The parent may stall, in which case its pipes stay open; it may die, which
closes them; the supervisor may die; a signal of the leader to its own group may fail
`MaxFaults` times and is retried. A signal that reaches the group also reaches the leader,
which is why SIGKILL ends it.

What is written to a reader that is gone or no longer reads is dropped, for nobody can see
it; its end is kept where it is awaited. Not modelled: several lines in one chunk, forged
or malformed frames and nonces, the private directory of the lease socket,
`verifiedProcessReceipt` (a read), processes that leave the group, and the death of a
leader alone, after which nobody would reap its group.

### Harness

One directory of artifacts (`disk`) and one run at a time over it, up to `MaxRuns`, each a
fresh process. `m` is the memory of the run: its mode, the gate it is at, the result of the
last command and what it knows of its server. A normal run passes GATE_IDS in order and
stops at the first failure; the server that passed boot is transferred to axe and smoke
under an attempt authority, whose three files (pending authority and its end, terminal
result, candidate) must agree. A seeded run has, per gate, a baseline, a mutation and a
trial. Everything that goes wrong, a command that fails, a server that exits, a write that
is refused, a crash, is a mishap, and mishaps are bounded together. Hashes are abstracted
to the run they bind; the text of mutations, templates and the redaction of paths are left
out, and generation and git are one step each that may fail. A process group that is not
proven absent is a member of `strays` until its lost lease reaps it (which is
`CommandSupervision`'s `LeaseBoundsGroup`).

### ProbeRunner

A process is one run of the tool. `rests` is what the verdict of the probe at work rests
on, the calls it made and the help text it took from the cache; it is a history variable,
everything else is in the code. A call is captured (`call`, then `killed` or `held` when
it timed out, the latter with a descendant on its pipe) or streamed. What a probe returns
is free: the model is of what the runner makes of it. Between a judgement of the lock and
its rename everybody may act. The auxiliary variables `judged` and `robbed`, which no action
reads, say which lock a process has judged and whether a rename has moved another one.
Not modelled: the probes' own code, redaction and the report's files, reuse of process
identifiers, failing file operations other than the write of the lock, and the age of a
lock, which only words a message. `release` reads and removes the lock in one step.

## The runs

| Run | Instance | What it shows |
|---|---|---|
| `lock_takeover` | three live calls, two ghosts of which one may not be recognised as dead, under fairness for one call; 840k states | `NoLitter`, `LiveGuardKept`, `AcquireSettles`, `DeadLockRecovered`, and the refinement `IsAuthority` |
| `lock_two_authorities` | the same | violation, see the findings |
| `lifecycle` | seven gates; 139 states, the whole space | `ResultAtRest`, `RetryResumes` |
| `orchestrator_crash` | two attempts, revisions to 8, two mishaps of which one may be a failed write, one gate, under fairness; 1,624k states | five invariants, `RecoveryFreezes`, `CompletionSurvives`, and the refinement `IsLifecycle` |
| `orchestrator_latch` | two attempts, no mishap | violation |
| `engine_session` | two turns, one other line, a pipe of two lines, at most one other member of each kind in the group, under fairness; 156k states | `NothingUnowned`, `WatchesSilence`, `ClosedIsLast`, `TurnEnds`, `CloseSettles` |
| `engine_paused_finish` | the same | violation |
| `cockpit` | two revisions, one lost connection, two recover() calls, under fairness; 951k states | `FeedComplete`, `NeverBack`, `ControlsWait`, `SettledIsFresh`, `EventuallyShown` |
| `command_supervision` | one command in both transports, one failing signal, under fairness; 556k states | `NobodyLeft`, `SuccessIsEarned`, `ReapedIsFinal`, `LeaseBoundsGroup`, `CallsReturn` |
| `harness` | two runs over one directory, normal or seeded, two mishaps; 831k states | `PassIsEarned`, `ExitTellsEvidence`, `NothingLeftBehind`, `SeedCounts`, `BootBehindAcceptance` |
| `probe_two_suites` | two processes, one probe | violation, see the findings |
| `probe_suite` | two processes, two probes, one call each, as long as they are `Apart`, under fairness; 1,109k states | `OneUnlessRobbed`, `CleanExit`, `NoVerdictFromSilence`, `GreenIsMeasured`, `SuiteEnds` |

Every module states a type invariant. No run checks it: all of them are proved. The same
holds of the properties that are proved and not run again: `HolderOwnsLock`,
`OneUnlessStolen` (which `IsAuthority` says, too),
`RecoveryLatched`, `FailureStaysInBuild`, `GateRefuses`, `FirstCauseStands`, and those the
proof modules state themselves as the safety halves of liveness properties
(`AcquireAdvances`, `NotOvertaken`, `CloseIsTrue`, `CloseStands`, `ClosedIsFinal`,
`PromisesSettle`, `PromisesStand`, `LossIsTold`, `RunsShrink`).

Bounds. Three live lock calls are what it takes for one to reclaim, one to hold and one to
steal; the two ghosts are a dead owner and a dead successor. The live calls are
interchangeable, so it is enough that one of them is fair and is followed to its end. A
revision per command leads from G0 to G6 in six publications, so eight revisions hold a
failed build and its retry or a change after a result; two mishaps are enough to crash
within the recovery from a crash, or to crash while the memory of a supervisor whose write
failed differs from the disk; a second attempt is what a retry adds. With `FreshIds` the
attempts that no record and no run names are interchangeable, and `Launch` takes one of
them. The gate count is 1 in `Orchestrator` because `lifecycle` checks all seven and only
the step from none to all matters to the disk. Two turns are the least that can be
pipelined, and a pipe of two lines lets a receipt and a result, or a result and anything
else, wait together. Two recover() calls are the least that overtake each other; a message
that finds both in flight waits, where the code would start a third. One failing signal is
enough to take the retry, at SIGTERM or at SIGKILL; everything else of a command is finite
by itself. Two runs of the harness are a run and one that finds its files; two mishaps are a
failure and one more in its handling. Two probes, of which the second needs a live call, are
one that may be skipped beside one that may not; one call each is enough to degrade a
verdict, and two processes are a holder and a rival. `MaxFaults`, `MaxMishaps`, `MaxRuns`,
`MaxCalls`, `MaxRevision`, `MaxDrops`, `MaxSent`, `MaxSaid` and `MaxPipe` are the only
bounds, and each is a conjunct of the guard it limits. `probe_suite` leaves the verdict
`"partial"` out, which the code treats as `"pass"`, and its constraint `Apart` cuts a
behaviour off once a lock that was not judged has been renamed, as what two suites do beside
each other is not what it asks; that it comes to this is what `probe_two_suites` shows, and
of what follows the theorems speak, all but `SuiteSafety`. A group has at most one other
member of each kind at a time, since members of a kind do not differ.

Deadlock is checked in every run of `Lifecycle`, `Orchestrator` and `Cockpit`. It is not
checked for the lock, whose calls end; for the session and for a command, which end; nor
for the harness and the probe suite, whose runs end.

Fairness. `ProjectLock`: the straight-line calls of acquire go on while the process lives.
`Lifecycle`: the user goes on answering and a build is launched. `Orchestrator`: an
operation in flight continues and a project that is closed is opened again; a crash owes
nothing. `EngineSession`: Node runs its callbacks, time passes, and SIGKILL ends every
member of a group; neither the engine, nor what it started, nor the supervisor owes a step.
`Cockpit`: the orchestrator and the server keep running, a request is answered or fails, and
the page handles responses, messages and a lost socket; the user owes nothing.
`CommandSupervision`: a process that neither stalls nor dies runs its callbacks and its
timers; nobody owes a stop, a signal, an exit of the target or a crash, and the reaping of a
group rests on its leader alone. `ProbeRunner`: some running process makes a step of its
own; no process is promised a turn before another. `Harness` states no liveness: each of its
steps is bounded by a timeout whose code is `CommandSupervision`'s.

## Findings

Four runs exhibit a disagreement between the code and what a comment, a test or a
decision record says of it; `PROJECT.json` quotes each.

* Two supervisors can hold one project: `removeExactGuard` unlinks what the path names by
  then (`lock_two_authorities`). Two processes reclaim the same stale guard; the slower one
  removes the guard that the faster one has signed since, and both rename. The acquire of
  the one that renamed last fails and its process ends, so its lock is taken over by a third
  while the other one holds.
* Two probe suites can run at once: the rename moves what has the name by then
  (`probe_two_suites`). The read-back and the rename that the comments of `runner.mjs`
  (768-771, 829-830) rely on do not close that: a process that has judged a lock stale moves
  the one that another has created, read back and works under.
* Reopening a retried build latches recovery over an attempt that was published
  (`orchestrator_latch`).
* A consumer that paused before finish() has no watchdog (`engine_paused_finish`).

More the models show of the code, which no run states.

*Lifecycle, session, cockpit.* A process of the engine's group that has let go of the
session's pipes and outlives the engine is in nobody's hands once `close` has come
(`session.ts` 584-593): the group leaves the registry without a signal, so that killAll()
no longer reaches it, though it is such grandchildren that the registry signals groups for
(`registry.ts` 14-16). `NothingUnowned` says who is reached, and leaves these out. A build
that a usage limit stopped has no command that leads out of it. A receipt that comes after
the init timer is still announced as ready (`session.ts` 618). stop() may signal a group
between its leader's exit and the `close` event, when nobody may be left in it. A response
served before recovery was latched may replace the recovery snapshot in the page until the
next recover().

*Command supervision.* A command behind a guardian whose target exits with 0 and leaves
nothing is reported as failed, since the guardian ends by its own SIGKILL and the
supervisor then exits with 1.

*Orchestrator.* A completed attempt's identity is accepted again if a caller supplies it
(`FreshIds` is the assumption that none does). The re-entry that resolveRecoveryExact
provides for (`artifacts.ts` 640-642) serves nobody: when the marker of a failure or of a
reconciliation could not be removed, the next reconcile() is refused and the project stays
in recovery. An ordinary publication whose manifest could not be written leaves its run
behind; the next publication, of another kind, takes the same revision, and the project that
is opened again has two runs there and stays in recovery for good, which is why the second
half of `ChainIntact` asks for `faults = 0`. A completion whose fixture, manifest or marker
could not be written leaves a fixture in need of recovery beside its completed run, which
open then refuses (`OpenRefusing`) and nothing resolves. A launch whose interruption could
not be recorded skips recovery.

*Harness.* In a seeded boot, axe or smoke a server that dies before it is ready makes the
seed count although the gate's command never ran (`harness.ts` 247-253, 845-849), and
runBrowserGate passes a server that exits with 0 before it is ready (436-461). After an
acceptance, two failing marks, or a directory that cannot be removed, leave the three
files accepted although the run returns 1 (296-297, 755). The record of a seed says that
its children were reaped when those of its baseline were not (819, 837). When the rewrite
of the boot evidence fails after a refused transfer, the earlier record that says passed
stays (409-424), and the failed record of a broken boot gate may be missing while its
seed counts, which is the exception in `SeedCounts`. A rerun that crashes leaves the older
summary beside newer gate records; `PassIsEarned` is about the run that wrote it.

*Probe suite.* A streamed child is tracked by its
number (614), which the sweep at exit cannot kill, and nothing listens for its error. The
lock is released before the report and the baseline are written. A retained child stays
tracked after a late close, and a group member that has let go of the pipes outlives a
call that closed. A partial run that was asked to update the baseline compares nothing,
and a complete one with inconclusive probes shrinks the expectation.

## The proofs

| Theorem | Says |
|---|---|
| `ProjectLockProofs!TypeCorrect`, `LitterSafety` | `TypeOK` and `NoLitter` |
| `ProjectLockProofs!HolderSafety`, `AuthoritySafety`, `LiveGuardSafety` | `HolderOwnsLock`, `OneUnlessStolen`, `LiveGuardKept`: up to the first unlink of a guard that was never compared |
| `ProjectLockProofs!LockImplementsAuthority` | the lock implements `Authority` (`IsAuthority`), as far as that |
| `ProjectLockProofs!ProgressSafety` | `AcquireAdvances`: each step of a call leads forward in the code, or uses up a guard |
| `LifecycleProofs!TypeCorrect`, `RestSafety`, `FailureSafety`, `RecoverySafety` | `TypeOK`, `ResultAtRest`, `FailureStaysInBuild`, `RecoveryLatched` |
| `EngineSessionProofs!TypeCorrect`, `OwnershipSafety`, `ClosedSafety`, `GateSafety`, `WatchSafety` | `TypeOK`, `NothingUnowned`, `ClosedIsLast`, `GateRefuses`, `WatchesSilence` |
| `EngineSessionProofs!EndSafety` | `CloseIsTrue`, `CloseStands`, `ClosedIsFinal`: close() resolves for a process that has exited and whose lines are read, once, and a closed session signals nobody |
| `CockpitProofs!TypeCorrect`, `ViewSafety`, `ControlSafety` | `TypeOK`, `NeverBack`, `ControlsWait` |
| `CockpitProofs!FeedSafety`, `FreshSafety` | `FeedComplete`, `SettledIsFresh` |
| `CommandSupervisionProofs!TypeCorrect`, `GroupSafety`, `CauseSafety`, `SuccessSafety`, `ReapedSafety` | `TypeOK`, `NobodyLeft`, `FirstCauseStands`, `SuccessIsEarned`, `ReapedIsFinal` |
| `CommandSupervisionProofs!PromiseSafety` | `PromisesSettle`, `PromisesStand`: a promise of the parent is settled by the time the lease is had, has failed or the child has closed, and once |
| `CommandSupervisionProofs!LossSafety` | `LossIsTold`: a lost lease is on its way to the leader, or it is cleaning up |
| `OrchestratorProofs!TypeCorrect`, `WorkIsAttributable`, `WorkIsReapable`, `FixtureIsExact`, `RecoveryIsFrozen` | `TypeOK`, `AttributableWork`, `ReapableWork`, `OneActiveFixture`, `RecoveryFreezes` |
| `OrchestratorProofs!Implements` | the orchestrator implements `Lifecycle` (`IsLifecycle`) |
| `OrchestratorProofs!ResultStandsAlone`, `ChainHolds` | `NoFixtureBesideResult`, `ChainIntact` |
| `OrchestratorProofs!SurvivalSafety` | `NotOvertaken`: a durable completion is not given up, and the next manifest is its result, if no write fails |
| `HarnessProofs!TypeCorrect`, `PassSafety`, `ExitSafety`, `ReapingSafety`, `SeedSafety`, `AcceptanceSafety` | `TypeOK`, `PassIsEarned`, `ExitTellsEvidence`, `NothingLeftBehind`, `SeedCounts`, `BootBehindAcceptance` |
| `ProbeRunnerProofs!TypeCorrect`, `ExitSafety`, `VerdictSafety`, `GreenSafety` | `TypeOK`, `CleanExit`, `NoVerdictFromSilence`, `GreenIsMeasured` |
| `ProbeRunnerProofs!SuiteSafety` | `OneUnlessRobbed`: one suite, up to the first rename of a lock that was not judged |
| `ProbeRunnerProofs!ShrinkSafety` | `RunsShrink`: each step of a process takes its run strictly nearer to its end |

They hold for any number of processes, calls, attempts, turns, lines, revisions, requests,
probes, runs, crashes, failed writes, mishaps and failing signals, and for any number of
gates where the number is a constant (the harness has its seven). None assumes anything
about timing.

*Lock.* `OneUnlessStolen` is not inductive: it needs that a call which may still rename owns
the guard, that what it read as the predecessor is dead and still named by the lock, that a
call which has removed its guard is the owner, and that a guard which a call has read in
order to reclaim it is bound to the dead (`AliveInv` to `SeenInv`, together `Sound`). The
invariant is `stolen \/ Sound`. Several calls may reclaim at once: of the one unlink that
each makes, either the path still names the guard that was compared, whose owners are dead,
or `stolen` becomes true, which is the race itself and not an assumption about it. The
refinement maps the receipt in the file to `owner` and the calls that returned to `holders`.
`NoLitter` needs none of this: a candidate, and a guard that names a call as its successor,
exist only while that call has its finally block before it, and there the guard's bytes are
the ones it compares (`Litter`). Nor does the retry loop: a call creates one guard at most,
and starts over only by removing one whose creator is past that (`Spent`), so the guards
there can still be (`Chances`) bound the rounds.

*Lifecycle.* The invariant adds `Publishable(snapshot)`: which states the store accepts at
all is what ties a failure code and a result to their stages.

*Orchestrator.* `OrchestratorProofs!IInv` has six parts, each with a lemma that goes
through the actions. `Flight` says which operation is at which step with what in hand;
`Authority` that at most one attempt is active and whose it is, at rest and in flight;
`Attribution` that a process group belongs to an active attempt and that nothing works
outside a build; `Latched` that a marker on disk is a latch in memory; `Held` that a
supervisor at rest accounts for what works. None is inductive alone: that a reopened
supervisor regains the attempt at work rests on there being one active record, which rests
on launches being latched out by a marker. `RInv` adds what the
refinement needs: that an operation's next manifest is still one that `Lifecycle` makes of
the manifest on disk when it is written (`Due`). The hard case is a reconciliation, which
publishes what the recovery overlay showed when it began; `Tracks` and `Accounted` say
that a marker is about the manifest on disk or an earlier one, and that whoever holds an
attempt outside a build holds it only under a marker that is out of date, whose run the
store refuses. `Chain` and `InBuild` are the two parts that need failed writes to be
absent. `NotOvertaken` adds to them that the manifest about to be written has its run on
disk, one of the operation's own kind (`Backed`): where a revision has one run, a completed
run there is the operation's.

*Probe suite.* The invariant ties the lock to the process that created it, the children that
are alive to those that are tracked, and every degraded call to the flag that turns a
verdict into `inconclusive`. `Owned` adds, as long as no lock that was not judged has been
renamed, that what a suite holds is the file and that the creator of a lock which was judged
stale is dead if the lock is whole. `RunsShrink` orders what is left to a run: how far its
main loop is from its end (`Stage`), the probes without a result (`Undone`), and what the
probe at work, its calls and their timeouts may still do (`Allowance`, with `MaxCalls` for
the calls a probe makes). It needs that the probe at work has no result yet (`Current`), and
nothing of the other processes, whose steps leave a run where it is.

*Engine session.* `ClosedIsLast` needs that a closed session has no timer, no process and
no unread line, and the types need that the engine owes no more turns than were sent.
stop() occurs in eight places and has a lemma of its own. `NothingUnowned` needs that a
group has other members only under a receipt: start() kills a group that has none in the
step that spawned it. `WatchesSilence` needs the lines
counted: a session that has not been stopped counts at least the turns that are owed and
the results still in the pipe, so that the result which takes its count to zero, and the
watchdog away, leaves no turn owed. Of the end of a session it is enough that a closed one
is out of the registry, whose groups are all that stop() and killAll() signal (`EndInv`).

*Cockpit.* There are two invariants. That of the view (`IInv`) adds that a served response
is a snapshot. It does not need the types of the feed: whatever a socket sends, the view
goes forward. That of the feed (`FInv`) follows an event from the store to the page. What
a connection counts from is what its client had seen (`Behind`, `Asks`), and the page has
seen nothing that is not published. The buffer holds what was emitted since the upgrade
(`Buffers`), and the answer of eventsSince the publications up to its own revision, of
which the last may not have been emitted yet; it says `snapshot_required` only where this
one is all there was (`Answers`). So history and buffer overlap or meet, and the flush
sends an interval; that `InOrder` enumerates an interval is a pigeonhole argument over its
positions. `Handles` closes the circle: what the page has handled it shows, or it waits for
a revision that is at least as high, so that a page with nothing in flight and nothing
unread shows what the store has.

*Command supervision.* `NobodyLeft` is not inductive: it needs that a leader still waiting
for ACK has no target and that only a target leaves a peer (`LeaderInv`). The ways out of a
leader each have a lemma; nothing is assumed of the parent, the supervisor or the pipes.
`SuccessIsEarned` and `ReapedIsFinal` tie those in. Whoever says 0 says it of the target,
unless a stop was sent, which the caller does only once it has given up the exit code
(`Claims`, `Halted`); a receipt in the parent's hands means that the leader was born, and
a group is reported reaped only once its leader is gone. `PromisesSettle` is an invariant of
the parent alone: each of its phases says what is settled, and its callbacks only go on from
there (`Onward`), whatever frames arrive. `LossIsTold` is one of the lease's pipe: an end of
file is written once behind whatever is under way, and the leader that reads it has already
begun its cleanup.

*Harness.* The process is sequential; what is hard is which of its files are its own. The
invariant says where each step belongs (`Places`) and who has a server (`Servers`), that
what memory says of a gate is on disk (`Evident`), that a run which has not failed has
recorded its earlier gates or seeds (`Normal`, `Seeds`), and that a process group not
proven absent has already failed the run or comes with a result that will (`Left`). With
`Numbered`, that nothing on disk is of a later run and that a working run has no summary,
each of the four properties follows, and each is disturbed by few of the actions.

Only model-checked: the liveness properties (`AcquireSettles`, `DeadLockRecovered`,
`RetryResumes`, `CompletionSurvives`, `TurnEnds`, `CloseSettles`, `EventuallyShown`,
`LeaseBoundsGroup`, `CallsReturn`, `SuiteEnds`), which TLAPS does not prove. For six of
them the part that is not fairness is proved, that nothing is lost, undone or done again on
the way and, for the lock's and the probe suite's, that only so many steps can be taken:
`AcquireAdvances`, `NotOvertaken`, the three of a session's end, `LossIsTold`,
`PromisesSettle` with `PromisesStand`, and `RunsShrink`. Every safety property that a
passing run checks is a theorem.

## Not modelled

* The environments, argument vectors and the event surface of the engine package, and the
  launch environment of the orchestrator: pure functions over names.
* The launch token, the session cookie and the HTTP routing of the loopback server; an
  expired session is a lost connection.
* Corrupted or hand-edited artifacts and the stage labels of legacy manifests.
* The messages and deadlines of the launch handshake (`orchestrator.ts` 190-217, 542-594;
  `attempt-wrapper.mjs`): `Orchestrator` has their outcomes, a wrapper that is armed, hears
  GO or fails at any point, and an engine that starts with nobody left to hear of it.
* The templates and mutations' texts of the local-web profile, and the probes' own code:
  what they compute is data to the harness and to the runner.
* The gate tooling, sequential scripts that publish the repository's own evidence, and the
  benchmarks, which are no part of the product.

## Plan

1. `ProjectLock`, `Authority`, `ProjectLockProofs`: done. The single writer is what all
   else rests on.
2. `Lifecycle`, `LifecycleProofs`: done. The abstract specification of the orchestrator.
3. `Orchestrator`, `OrchestratorProofs`: done, every safety property and the refinement
   proved.
4. `EventFeed`, `Cockpit`, `CockpitProofs`: done, every safety property proved.
5. `EngineSession`, `EngineSessionProofs`: done, every safety property proved.
6. `CommandSupervision`, `CommandSupervisionProofs`: done, every safety property proved.
7. `Harness`, `HarnessProofs`: done, every property proved.
8. `ProbeRunner`, `ProbeRunnerProofs`: done, every safety property proved.
9. A module for the launch handshake's messages and timers, refined into `Orchestrator`'s
   `HandshakeFails`, `SaveReceipt` and `SendGo`.
