--------------------------- MODULE EngineSession ---------------------------
(***************************************************************************)
(* One session of the engine command line as its supervisor drives it:     *)
(* EngineSession of packages/engine/src/session.ts and the SessionRegistry *)
(* of registry.ts.                                                         *)
(*                                                                         *)
(* Node runs one callback at a time, so a step is a call of the class' API *)
(* or one callback: a line read from stdout, a timer, the 'close' event.   *)
(* What interleaves is their order, and with them the engine, which writes *)
(* to a pipe of bounded size, blocks when the pipe is full, and may stop   *)
(* answering at any time.  The engine leads a process group: what it       *)
(* starts there (stdio MCP servers, tools) may outlive it, with the        *)
(* session's pipes in its hands or without.  A listener that calls the API *)
(* from within an event is a call right after the line that emitted it.    *)
(* The content of a line is abstracted to how #handle treats it.           *)
(***************************************************************************)
EXTENDS Naturals, Sequences

CONSTANTS
  MaxSent,  (* bound: the turns the supervisor sends                         *)
  MaxSaid,  (* bound: the lines besides the receipt and the results          *)
  MaxPipe   (* the lines a pipe holds before the engine blocks               *)

ASSUME BoundsAssumption == MaxSent \in Nat /\ MaxSaid \in Nat /\ MaxPipe \in Nat \ {0}

VARIABLES
  (* the engine *)
  child,       (* the process that spawn started, which leads the group       *)
  kin,         (* the other members of its group that run, by their stdio     *)
  owed,        (* the turns it was sent and has not answered                  *)
  spoke,       (* it has written its receipt                                  *)
  said,        (* the other lines it wrote                                    *)
  pipe,        (* the lines not yet read                                      *)
  signal,      (* SIGKILL was sent to its group                               *)
  (* the session's fields *)
  sent,        (* #sent                                                       *)
  pending,     (* #pendingTurns                                               *)
  expecting,   (* #expectingOutput                                            *)
  draining,    (* #draining                                                   *)
  initSeen,    (* #initSeen                                                   *)
  gateFailed,  (* #gateFailed                                                 *)
  finished,    (* #finished                                                   *)
  closed,      (* #closed                                                     *)
  quiet,       (* #lastEventAt is more than #stallMs ago                      *)
  watching,    (* #stallTimer is set                                          *)
  initTimer,   (* #initTimer is set                                           *)
  closing,     (* the promise of close() and its timer                        *)
  registered,  (* the group is in the registry                                *)
  emits        (* the events emitted by the last step                         *)

engine == <<child, kin, owed, spoke, said, pipe>>
fields == <<sent, pending, expecting, draining, initSeen, gateFailed, finished, closed>>
timers == <<quiet, watching, initTimer, closing>>
vars   == <<engine, signal, fields, timers, registered, emits>>

Lines  == {"init", "badInit", "result", "other", "unusable", "huge"}
Events == {"ready", "event", "turn", "dropped", "failure", "closed"}

(* "refused": the receipt could not be established and start() threw;      *)
(* "unborn": spawn reported no pid.                                        *)
Children == {"none", "refused", "unborn", "running", "gone"}

(* "piped": a member that has inherited the session's pipes, which stay    *)
(* open while it runs; "free": one whose stdio leads elsewhere.            *)
Kin == {"piped", "free"}

TypeOK ==
  /\ child \in Children /\ kin \subseteq Kin
  /\ owed \in 0 .. MaxSent /\ said \in 0 .. MaxSaid
  /\ pipe \in Seq(Lines) /\ Len(pipe) <= MaxPipe
  /\ signal \in {"none", "sent"}
  /\ sent \in 0 .. MaxSent /\ pending \in 0 .. sent
  /\ spoke \in BOOLEAN /\ expecting \in BOOLEAN /\ draining \in BOOLEAN
  /\ initSeen \in BOOLEAN /\ gateFailed \in BOOLEAN
  /\ finished \in BOOLEAN /\ closed \in BOOLEAN
  /\ quiet \in BOOLEAN /\ watching \in BOOLEAN /\ initTimer \in BOOLEAN
  /\ registered \in BOOLEAN
  /\ closing \in {"no", "stray", "waiting", "resolved", "rejected"}
  /\ emits \subseteq Events

Init ==
  /\ child = "none" /\ kin = {} /\ owed = 0 /\ spoke = FALSE /\ said = 0 /\ pipe = <<>>
  /\ signal = "none"
  /\ sent = 0 /\ pending = 0 /\ expecting = FALSE /\ draining = TRUE
  /\ initSeen = FALSE /\ gateFailed = FALSE /\ finished = FALSE /\ closed = FALSE
  /\ quiet = FALSE /\ watching = FALSE /\ initTimer = FALSE /\ closing = "no"
  /\ registered = FALSE
  /\ emits = {}

(* #receiptEstablished, and #pgid until 'close' *)
Receipt == child \in {"running", "gone"}

(* #armWatchdog without force, given the fields it finds *)
Armed(expects, drains) == ~closed /\ expects /\ drains

(* registry.kill: the signal reaches every member of the group, also when  *)
(* its leader has exited, and is lost on a group that is gone.  That the    *)
(* number of a group without members names another one before 'close' is   *)
(* outside the model.                                                      *)
Kill ==
  /\ registered' = FALSE
  /\ signal' = "sent"

(* Mutant: the registry forgets the group that nobody signalled. *)
StopForgets ==
  /\ watching' = FALSE /\ initTimer' = FALSE
  /\ registered' = FALSE
  /\ UNCHANGED signal

(* stop() *)
Stop ==
  /\ watching' = FALSE /\ initTimer' = FALSE
  /\ IF Receipt /\ ~closed THEN Kill ELSE UNCHANGED <<registered, signal>>

-----------------------------------------------------------------------------
(* The supervisor's calls *)

Start ==
  /\ child = "none"
  /\ \E outcome \in {"running", "refused", "unborn"} :
       /\ child' = outcome
       /\ registered' = (outcome = "running")
  /\ emits' = {}
  /\ UNCHANGED <<kin, owed, spoke, said, pipe, signal, fields, timers>>

(* Mutant: turns are counted as one. *)
SendOne ==
  /\ Receipt /\ ~gateFailed /\ ~closed /\ ~finished
  /\ initSeen \/ sent = 0
  /\ sent < MaxSent
  /\ sent' = sent + 1 /\ pending' = 1
  /\ owed' = IF child = "running" THEN owed + 1 ELSE owed
  /\ expecting' = TRUE /\ quiet' = FALSE
  /\ watching' = Armed(TRUE, draining)
  /\ initTimer' = (initTimer \/ ~initSeen)
  /\ emits' = {}
  /\ UNCHANGED <<child, kin, spoke, said, pipe, signal, draining, initSeen, gateFailed,
                 finished, closed, closing, registered>>

Send ==
  /\ Receipt /\ ~gateFailed /\ ~closed /\ ~finished
  /\ initSeen \/ sent = 0
  /\ sent < MaxSent
  /\ sent' = sent + 1 /\ pending' = pending + 1
  /\ owed' = IF child = "running" THEN owed + 1 ELSE owed
  /\ expecting' = TRUE /\ quiet' = FALSE
  /\ watching' = Armed(TRUE, draining)
  /\ initTimer' = (initTimer \/ ~initSeen)
  /\ emits' = {}
  /\ UNCHANGED <<child, kin, spoke, said, pipe, signal, draining, initSeen, gateFailed,
                 finished, closed, closing, registered>>

(* What finish() does, which a second call does not repeat. *)
Finishing ==
  IF finished THEN UNCHANGED <<finished, expecting, quiet, watching>>
  ELSE /\ finished' = TRUE /\ expecting' = TRUE /\ quiet' = FALSE
       /\ watching' = Armed(TRUE, draining)

Finish ==
  /\ Receipt /\ ~finished
  /\ Finishing
  /\ emits' = {}
  /\ UNCHANGED <<engine, signal, sent, pending, draining, initSeen, gateFailed, closed,
                 initTimer, closing, registered>>

(* close(): finish() may throw, but its timer is running by then. *)
Close ==
  /\ closing = "no"
  /\ \/ closed /\ closing' = "resolved" /\ UNCHANGED <<finished, expecting, quiet, watching>>
     \/ ~closed /\ Receipt /\ closing' = "waiting" /\ Finishing
     \/ /\ ~closed /\ ~Receipt /\ closing' = "stray"
        /\ UNCHANGED <<finished, expecting, quiet, watching>>
  /\ emits' = {}
  /\ UNCHANGED <<engine, signal, sent, pending, draining, initSeen, gateFailed, closed,
                 initTimer, registered>>

StopCalled ==
  /\ Receipt /\ ~closed
  /\ Stop
  /\ emits' = {}
  /\ UNCHANGED <<engine, fields, quiet, closing>>

(* Mutant: reading again does not start the watchdog. *)
ResumeUnwatched ==
  /\ ~draining
  /\ draining' = TRUE /\ quiet' = FALSE
  /\ emits' = {}
  /\ UNCHANGED <<engine, signal, sent, pending, expecting, initSeen, gateFailed, finished,
                 closed, watching, initTimer, closing, registered>>

(* setDraining(true); a supervisor that repeats it while it reads would    *)
(* postpone the watchdog each time, so only changes are modelled.          *)
Resume ==
  /\ ~draining
  /\ draining' = TRUE /\ quiet' = FALSE
  /\ watching' = Armed(expecting, TRUE)
  /\ emits' = {}
  /\ UNCHANGED <<engine, signal, sent, pending, expecting, initSeen, gateFailed, finished,
                 closed, initTimer, closing, registered>>

(* setDraining(false): a paused consumer suspends the watchdog, unless the  *)
(* input is closed.                                                        *)
Pause ==
  /\ draining
  /\ draining' = FALSE
  /\ watching' = (finished /\ ~closed)
  /\ emits' = {}
  /\ UNCHANGED <<engine, signal, sent, pending, expecting, initSeen, gateFailed, finished,
                 closed, quiet, initTimer, closing, registered>>

(* SessionRegistry.killAll *)
KillAll ==
  /\ registered
  /\ Kill
  /\ emits' = {}
  /\ UNCHANGED <<engine, fields, timers>>

-----------------------------------------------------------------------------
(* Reading stdout *)

(* A line that reaches no consumer field: #dropped, or an event *)
Passes(e) ==
  /\ emits' = e
  /\ UNCHANGED <<signal, fields, watching, initTimer, registered>>

FailGate ==
  /\ gateFailed' = TRUE
  /\ Stop
  /\ emits' = {"failure"}

(* What is delivered of an event: nothing once the gate has failed. *)
Delivered == IF gateFailed THEN {} ELSE {"event"}

HandleReceipt(line) ==
  /\ initSeen' = TRUE
  /\ IF line = "badInit"
       THEN FailGate
       ELSE /\ initTimer' = FALSE
            /\ emits' = {"ready"} \cup Delivered
            /\ UNCHANGED <<gateFailed, watching, registered, signal>>
  /\ UNCHANGED <<sent, pending, expecting, draining, finished, closed>>

HandleResult ==
  IF gateFailed THEN Passes({})
  ELSE /\ emits' = Delivered \cup {"turn"}
       /\ pending' = IF finished \/ pending = 0 THEN pending ELSE pending - 1
       /\ IF ~finished /\ pending' = 0 THEN expecting' = FALSE /\ watching' = FALSE
                                        ELSE UNCHANGED <<expecting, watching>>
       /\ UNCHANGED <<signal, sent, draining, initSeen, gateFailed, finished, closed,
                      initTimer, registered>>

(* A line beyond the limit, or a listener that throws: stop, then report. *)
ReadFails ==
  /\ Stop
  /\ emits' = {"failure"}
  /\ UNCHANGED fields

(* Node reads while the consumer lets it, and the rest once the child has  *)
(* exited.                                                                 *)
ReadLine ==
  /\ pipe # <<>> /\ ~closed
  /\ draining \/ child = "gone"
  /\ LET line == Head(pipe) IN
       \/ line \in {"init", "badInit"} /\ HandleReceipt(line)
       \/ line = "other" /\ Passes(Delivered)
       \/ line = "unusable" /\ Passes({"dropped"})
       \/ line = "result" /\ HandleResult
       \/ line = "huge" /\ ReadFails
  /\ quiet' = FALSE
  /\ pipe' = Tail(pipe)
  /\ UNCHANGED <<child, kin, owed, spoke, said, closing>>

-----------------------------------------------------------------------------
(* Timers and the end of the process *)

TimePasses ==
  /\ ~quiet /\ expecting /\ ~closed
  /\ quiet' = TRUE
  /\ emits' = {}
  /\ UNCHANGED <<engine, signal, fields, watching, initTimer, closing, registered>>

(* The watchdog stops the session, then reports. *)
Stall ==
  /\ watching /\ quiet
  /\ Stop
  /\ emits' = {"failure"}
  /\ UNCHANGED <<engine, fields, quiet, closing>>

InitTimeout ==
  /\ initTimer
  /\ FailGate
  /\ UNCHANGED <<engine, sent, pending, expecting, draining, initSeen, finished, closed,
                 quiet, closing>>

CloseTimeout ==
  /\ closing \in {"waiting", "stray"}
  /\ Stop
  /\ closing' = IF closing = "waiting" THEN "rejected" ELSE "no"
  /\ emits' = {}
  /\ UNCHANGED <<engine, fields, quiet>>

(* Node reports 'close' when the child has exited, or never was, and its    *)
(* pipes have ended: no member of the group holds them and they are read.   *)
PipesEnded == child \in {"unborn", "gone"} /\ "piped" \notin kin /\ pipe = <<>>

(* Mutant: the timers outlive the process. *)
OnCloseKeepsWatch ==
  /\ PipesEnded /\ ~closed
  /\ closed' = TRUE
  /\ registered' = FALSE
  /\ closing' = IF closing = "waiting" THEN "resolved" ELSE "no"
  /\ emits' = {"closed"}
  /\ UNCHANGED <<engine, signal, sent, pending, expecting, draining, initSeen, gateFailed,
                 finished, quiet, watching, initTimer>>

(* Mutant: the promise of close() is forgotten. *)
OnCloseDropsPromise ==
  /\ PipesEnded /\ ~closed
  /\ closed' = TRUE
  /\ watching' = FALSE /\ initTimer' = FALSE
  /\ registered' = FALSE
  /\ closing' = "no"
  /\ emits' = {"closed"}
  /\ UNCHANGED <<engine, signal, sent, pending, expecting, draining, initSeen, gateFailed,
                 finished, quiet>>

(* The listener of 'close' takes the group out of the registry and signals  *)
(* nobody: a free member that outlives the leader is left alone.            *)
OnClose ==
  /\ PipesEnded /\ ~closed
  /\ closed' = TRUE
  /\ watching' = FALSE /\ initTimer' = FALSE
  /\ registered' = FALSE
  /\ closing' = IF closing = "waiting" THEN "resolved"
                ELSE IF closing = "stray" THEN "no" ELSE closing
  /\ emits' = {"closed"}
  /\ UNCHANGED <<engine, signal, sent, pending, expecting, draining, initSeen, gateFailed,
                 finished, quiet>>

(* 'error' of a child that never launched, or of one of the three streams *)
ChildError ==
  /\ child \in {"unborn", "running", "gone"} /\ ~closed
  /\ emits' = {"failure"}
  /\ UNCHANGED <<engine, signal, fields, timers, registered>>

-----------------------------------------------------------------------------
(* The engine *)

Writes(line) ==
  /\ child = "running"
  /\ Len(pipe) < MaxPipe
  /\ pipe' = Append(pipe, line)
  /\ emits' = {}
  /\ UNCHANGED <<child, kin, signal, fields, timers, registered>>

(* It says nothing before its first turn. *)
EngineStarts ==
  /\ owed > 0 /\ ~spoke
  /\ spoke' = TRUE
  /\ \E line \in {"init", "badInit"} : Writes(line)
  /\ UNCHANGED <<owed, said>>

EngineAnswers ==
  /\ owed > 0
  /\ owed' = owed - 1
  /\ Writes("result")
  /\ UNCHANGED <<spoke, said>>

EngineSays ==
  /\ owed > 0 /\ said < MaxSaid
  /\ said' = said + 1
  /\ \E line \in {"other", "unusable", "huge"} : Writes(line)
  /\ UNCHANGED <<owed, spoke>>

EngineExits ==
  /\ child = "running"
  /\ child' = "gone"
  /\ emits' = {}
  /\ UNCHANGED <<kin, owed, spoke, said, pipe, signal, fields, timers, registered>>

(* It starts another process in its group; SIGKILL leaves it no time to. *)
EngineSpawns ==
  /\ child = "running" /\ signal = "none"
  /\ \E k \in Kin \ kin : kin' = kin \cup {k}
  /\ emits' = {}
  /\ UNCHANGED <<child, owed, spoke, said, pipe, signal, fields, timers, registered>>

KinEnds ==
  /\ \E k \in kin : kin' = kin \ {k}
  /\ emits' = {}
  /\ UNCHANGED <<child, owed, spoke, said, pipe, signal, fields, timers, registered>>

Call ==
  Start \/ Send \/ Finish \/ Close \/ StopCalled \/ Resume \/ Pause \/ KillAll

Next ==
  \/ Call
  \/ ReadLine \/ OnClose \/ ChildError
  \/ TimePasses \/ Stall \/ InitTimeout \/ CloseTimeout
  \/ EngineStarts \/ EngineAnswers \/ EngineSays \/ EngineExits
  \/ EngineSpawns \/ KinEnds

Spec == Init /\ [][Next]_vars

(* Node runs its callbacks, time passes, and SIGKILL ends every member of a *)
(* group.  Neither the engine, what it started nor the supervisor owes a    *)
(* step.                                                                    *)
FairSpec ==
  /\ Spec
  /\ WF_vars(ReadLine) /\ WF_vars(OnClose)
  /\ WF_vars(TimePasses) /\ WF_vars(Stall) /\ WF_vars(InitTimeout)
  /\ WF_vars(CloseTimeout)
  /\ WF_vars(signal = "sent" /\ (EngineExits \/ KinEnds))

-----------------------------------------------------------------------------
(* Properties *)

(* A failed gate accepts no claim: no event and no turn is delivered any    *)
(* more, and nothing is sent (ADR-009, decision 0).                         *)
GateRefuses ==
  [][ gateFailed => emits' \cap {"event", "turn"} = {} /\ sent' = sent ]_vars

(* The group as the session answers for it: the engine and the members that *)
(* hold its pipes, and before 'close' every other member too.               *)
GroupRuns == child = "running" \/ "piped" \in kin \/ (kin # {} /\ ~closed)

(* Whatever the order of stops, timers, spawns and ends, killAll reaches    *)
(* this group: it is in the registry, or its SIGKILL is on the way.  A free *)
(* member that the engine leaves behind is nobody's from 'close' on: the    *)
(* listener forgets the group and sends no signal.                          *)
NothingUnowned == GroupRuns => registered \/ signal = "sent"

(* The watchdog runs exactly when silence would be a stall: a turn is owed  *)
(* to a consumer that reads, or the input is closed.  An engine that has    *)
(* exited owes its turns until 'close', which a member of its group may     *)
(* hold up for ever.  A session that was stopped needs none.                *)
WatchesSilence ==
  /\ watching => ~closed /\ expecting /\ (draining \/ finished)
  /\ owed > 0 /\ draining /\ ~closed =>
       watching \/ signal # "none"

(* 'closed' is always the last event. *)
ClosedIsLast == [][ closed => emits' = {} ]_vars

(* No turn hangs in silence: it is answered, or the session ends, unless    *)
(* the consumer stops reading.                                              *)
TurnEnds == pending > 0 ~> (pending = 0 \/ closed \/ ~draining)

(* The promise of close() settles whatever the engine does.                 *)
CloseSettles == closing = "waiting" ~> closing \in {"resolved", "rejected"}

(* A session whose input is closed is watched until it ends, also when its  *)
(* consumer has paused.                                                     *)
FinishWatched ==
  finished /\ ~closed /\ child = "running" => watching \/ signal # "none"
=============================================================================
