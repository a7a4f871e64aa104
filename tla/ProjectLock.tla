---------------------------- MODULE ProjectLock ----------------------------
(***************************************************************************)
(* The project lock of packages/orchestrator/src/artifacts.ts: the file    *)
(* .project.lock, the takeover guard beside it, and the calls of           *)
(* ProjectLock.acquire and ProjectLock.release that contend for them from  *)
(* several supervisor processes.                                           *)
(*                                                                         *)
(* One system call is one step, so the calls of two processes interleave   *)
(* between a read and the write that depends on it.  A process may die     *)
(* between any two steps and leaves its files behind, half written ones    *)
(* included.  A receipt is abstracted to the acquire call that drew its    *)
(* nonce, a guard to the two receipts it binds: nonces are random and are  *)
(* never drawn twice, so equal bytes mean an equal origin.                 *)
(***************************************************************************)
EXTENDS Naturals, FiniteSets

CONSTANTS
  Claims,         (* calls of ProjectLock.acquire, each with its own nonce  *)
  Procs,          (* supervisor processes                                   *)
  HostOf,         (* the process that makes each call                       *)
  Ghosts,         (* calls made by processes that died before the model     *)
                  (* starts: they only appear in files they left behind     *)
  NoFile,         (* the content of a path that does not exist              *)
  Unobservable    (* processes that may not be recognised as dead: ps or    *)
                  (* kill fails on them, or their pid has been used again   *)

ASSUME HostAssumption == HostOf \in [Claims -> Procs]
ASSUME GhostAssumption ==
  /\ Ghosts \subseteq Claims
  /\ \A g \in Ghosts, c \in Claims \ Ghosts : HostOf[g] # HostOf[c]
ASSUME ObservationAssumption == Unobservable \subseteq Procs

(* A lock file is a receipt; until its bytes are written it is malformed. *)
LockFile == [owner : Claims, full : BOOLEAN]
(* A takeover guard binds a dead predecessor to the successor writing it. *)
GuardFile == [pred : Claims, succ : Claims, full : BOOLEAN]

ASSUME NoFileAssumption ==
  NoFile \notin Claims /\ NoFile \notin LockFile /\ NoFile \notin GuardFile

VARIABLES
  alive,   (* the processes that run                                        *)
  lock,    (* the content of .project.lock                                  *)
  guard,   (* the content of .project.lock.takeover                         *)
  cands,   (* the calls whose .project.lock.<nonce>.new exists              *)
  pc,      (* where each call stands                                        *)
  orig,    (* the receipt each call read from the lock                      *)
  seen,    (* the guard each call read while reclaiming                     *)
  won,     (* the calls that have removed their own guard and will return   *)
  stolen   (* auxiliary, read by no action: a reclaim has unlinked a guard  *)
           (* other than the one it had compared                            *)

vars == <<alive, lock, guard, cands, pc, orig, seen, won, stolen>>

Locals == {"idle", "create", "fill", "read", "probe", "guard", "fillGuard",
           "recheckLock", "recheckGuard", "finalLock", "finalGuard", "rename",
           "dropCheck", "dropUnlink", "cleanCheck", "cleanUnlink",
           "recGuard", "recLock", "recStable", "recCheck", "recUnlink",
           "held", "relUnlink", "released", "failed", "dead"}

Receipt(c)     == [owner |-> c, full |-> TRUE]
TornReceipt(c) == [owner |-> c, full |-> FALSE]
Guard(p, c)    == [pred |-> p, succ |-> c, full |-> TRUE]
TornGuard(p, c) == [pred |-> p, succ |-> c, full |-> FALSE]

(* What readLock and readTakeoverGuard accept: a file whose bytes are whole. *)
Readable(file) == file # NoFile /\ file.full

(* The guard bytes that call c signs for the predecessor it read. *)
OwnGuard(c) == Guard(orig[c], c)

(* ownerIdentityState: 'gone' is conclusive, and death is final. *)
Gone(c) == HostOf[c] \notin alive
(* A probe that demands 'gone' fails on a live owner, and on a dead one    *)
(* that is observed as a 'mismatch'.                                       *)
ProbeMayFail(owners) ==
  \E c \in owners : ~Gone(c) \/ HostOf[c] \in Unobservable
(* Mutant: one dead process of several is enough. *)
ProbePassesAny(owners) == \E c \in owners : Gone(c)
ProbePasses(owners)  == \A c \in owners : Gone(c)

TypeOK ==
  /\ alive \subseteq Procs
  /\ lock \in LockFile \cup {NoFile}
  /\ guard \in GuardFile \cup {NoFile}
  /\ cands \subseteq Claims
  /\ pc \in [Claims -> Locals]
  /\ orig \in [Claims -> Claims]
  /\ seen \in [Claims -> GuardFile \cup {NoFile}]
  /\ won \subseteq Claims
  /\ stolen \in BOOLEAN

(* What processes that died earlier left behind: no lock, a dead owner's     *)
(* lock, or that lock with the guard of a successor that died before or      *)
(* after its rename.                                                         *)
Init ==
  /\ alive = Procs \ {HostOf[g] : g \in Ghosts}
  /\ \/ lock = NoFile /\ guard = NoFile
     \/ \E g \in Ghosts : lock = Receipt(g) /\ guard = NoFile
     \/ \E p, s \in Ghosts : /\ p # s
                             /\ lock \in {Receipt(p), Receipt(s)}
                             /\ guard = Guard(p, s)
  /\ cands = {}
  /\ pc = [c \in Claims |-> IF c \in Ghosts THEN "dead" ELSE "idle"]
  /\ orig = [c \in Claims |-> c]
  /\ seen = [c \in Claims |-> NoFile]
  /\ won = {}
  /\ stolen = FALSE

At(c, label)   == pc[c] = label
Goto(c, label) == pc' = [pc EXCEPT ![c] = label]

-----------------------------------------------------------------------------
(* Creating the lock, or finding one *)

Start(c) ==
  /\ At(c, "idle")
  /\ HostOf[c] \in alive
  /\ Goto(c, "create")
  /\ UNCHANGED <<alive, lock, guard, cands, orig, seen, won, stolen>>

(* Mutant: the lock is opened without the exclusive flag. *)
CreateLockAlways(c) ==
  /\ At(c, "create")
  /\ Goto(c, "fill")
  /\ lock' = TornReceipt(c)
  /\ UNCHANGED <<alive, guard, cands, orig, seen, won, stolen>>

(* open(path, 'wx') *)
CreateLock(c) ==
  /\ At(c, "create")
  /\ lock = NoFile
  /\ Goto(c, "fill")
  /\ lock' = TornReceipt(c)
  /\ UNCHANGED <<alive, guard, cands, orig, seen, won, stolen>>

LockExists(c) ==
  /\ At(c, "create")
  /\ lock # NoFile
  /\ Goto(c, "read")
  /\ UNCHANGED <<alive, lock, guard, cands, orig, seen, won, stolen>>

(* The bytes reach the inode that open created, which the path may no      *)
(* longer name.                                                            *)
FillLock(c) ==
  /\ At(c, "fill")
  /\ Goto(c, "held")
  /\ lock' = IF lock = TornReceipt(c) THEN Receipt(c) ELSE lock
  /\ UNCHANGED <<alive, guard, cands, orig, seen, won, stolen>>

ReadLock(c) ==
  /\ At(c, "read")
  /\ Readable(lock)
  /\ Goto(c, "probe")
  /\ orig' = [orig EXCEPT ![c] = lock.owner]
  /\ UNCHANGED <<alive, lock, guard, cands, seen, won, stolen>>

(* ENOENT, or a malformed receipt *)
ReadLockFails(c) ==
  /\ At(c, "read")
  /\ ~Readable(lock)
  /\ Goto(c, "failed")
  /\ UNCHANGED <<alive, lock, guard, cands, orig, seen, won, stolen>>

ProbeOwner(c) ==
  /\ At(c, "probe")
  /\ \/ ProbePasses({orig[c]}) /\ Goto(c, "guard")
     \/ ProbeMayFail({orig[c]}) /\ Goto(c, "failed")
  /\ UNCHANGED <<alive, lock, guard, cands, orig, seen, won, stolen>>

-----------------------------------------------------------------------------
(* Taking over a dead owner's lock under an own guard *)

CreateGuard(c) ==
  /\ At(c, "guard")
  /\ guard = NoFile
  /\ Goto(c, "fillGuard")
  /\ guard' = TornGuard(orig[c], c)
  /\ UNCHANGED <<alive, lock, cands, orig, seen, won, stolen>>

GuardExists(c) ==
  /\ At(c, "guard")
  /\ guard # NoFile
  /\ Goto(c, "recGuard")
  /\ UNCHANGED <<alive, lock, guard, cands, orig, seen, won, stolen>>

FillGuard(c) ==
  /\ At(c, "fillGuard")
  /\ Goto(c, "recheckLock")
  /\ guard' = IF guard = TornGuard(orig[c], c) THEN OwnGuard(c) ELSE guard
  /\ UNCHANGED <<alive, lock, cands, orig, seen, won, stolen>>

(* Every failed check below leaves through the finally block. *)
RecheckLock(c) ==
  /\ At(c, "recheckLock")
  /\ \/ /\ lock = Receipt(orig[c]) /\ ProbePasses({orig[c]})
        /\ Goto(c, "recheckGuard")
     \/ /\ lock # Receipt(orig[c]) \/ ProbeMayFail({orig[c]})
        /\ Goto(c, "cleanCheck")
  /\ UNCHANGED <<alive, lock, guard, cands, orig, seen, won, stolen>>

(* ... and writing the candidate under a name nobody else uses *)
RecheckGuard(c) ==
  /\ At(c, "recheckGuard")
  /\ \/ /\ guard = OwnGuard(c)
        /\ Goto(c, "finalLock")
        /\ cands' = cands \cup {c}
     \/ /\ guard # OwnGuard(c)
        /\ Goto(c, "cleanCheck")
        /\ UNCHANGED cands
  /\ UNCHANGED <<alive, lock, guard, orig, seen, won, stolen>>

FinalLock(c) ==
  /\ At(c, "finalLock")
  /\ \/ lock = Receipt(orig[c]) /\ Goto(c, "finalGuard")
     \/ lock # Receipt(orig[c]) /\ Goto(c, "cleanCheck")
  /\ UNCHANGED <<alive, lock, guard, cands, orig, seen, won, stolen>>

FinalGuard(c) ==
  /\ At(c, "finalGuard")
  /\ \/ /\ guard = OwnGuard(c) /\ ProbePasses({orig[c]})
        /\ Goto(c, "rename")
     \/ /\ guard # OwnGuard(c) \/ ProbeMayFail({orig[c]})
        /\ Goto(c, "cleanCheck")
  /\ UNCHANGED <<alive, lock, guard, cands, orig, seen, won, stolen>>

(* rename(candidate, path) replaces whatever the path names by then. *)
Rename(c) ==
  /\ At(c, "rename")
  /\ Goto(c, "dropCheck")
  /\ lock' = Receipt(c)
  /\ cands' = cands \ {c}
  /\ UNCHANGED <<alive, guard, orig, seen, won, stolen>>

(* removeExactGuard reads and compares, then unlinks the path. *)
DropCheck(c) ==
  /\ At(c, "dropCheck")
  /\ \/ guard = OwnGuard(c) /\ Goto(c, "dropUnlink")
     \/ guard # OwnGuard(c) /\ Goto(c, "cleanCheck")
  /\ UNCHANGED <<alive, lock, guard, cands, orig, seen, won, stolen>>

(* An unlink that finds nothing throws, and acquire with it. *)
DropUnlink(c) ==
  /\ At(c, "dropUnlink")
  /\ Goto(c, "cleanCheck")
  /\ won' = IF guard # NoFile THEN won \cup {c} ELSE won
  /\ guard' = NoFile
  /\ UNCHANGED <<alive, lock, cands, orig, seen, stolen>>

(* How acquire ends once its finally block is through. *)
Outcome(c) == IF c \in won THEN "held" ELSE "failed"

(* Mutant: the candidate is not removed. *)
CleanCheckKeeps(c) ==
  /\ At(c, "cleanCheck")
  /\ \/ guard = OwnGuard(c) /\ Goto(c, "cleanUnlink")
     \/ guard # OwnGuard(c) /\ Goto(c, Outcome(c))
  /\ UNCHANGED <<alive, lock, guard, cands, orig, seen, won, stolen>>

(* finally: remove the candidate and an own guard that is still there. *)
CleanCheck(c) ==
  /\ At(c, "cleanCheck")
  /\ \/ guard = OwnGuard(c) /\ Goto(c, "cleanUnlink")
     \/ guard # OwnGuard(c) /\ Goto(c, Outcome(c))
  /\ cands' = cands \ {c}
  /\ UNCHANGED <<alive, lock, guard, orig, seen, won, stolen>>

CleanUnlink(c) ==
  /\ At(c, "cleanUnlink")
  /\ Goto(c, Outcome(c))
  /\ guard' = NoFile
  /\ UNCHANGED <<alive, lock, cands, orig, seen, won, stolen>>

-----------------------------------------------------------------------------
(* reclaimStaleTakeoverGuard *)

ReclaimReadGuard(c) ==
  /\ At(c, "recGuard")
  /\ \/ /\ Readable(guard)
        /\ Goto(c, "recLock")
        /\ seen' = [seen EXCEPT ![c] = guard]
     \/ /\ ~Readable(guard)
        /\ Goto(c, "failed")
        /\ UNCHANGED seen
  /\ UNCHANGED <<alive, lock, guard, cands, orig, won, stolen>>

(* Mutant: only a successor that died before its rename is recognised. *)
BoundToPred(g) == Readable(lock) /\ lock = Receipt(g.pred)

(* The guard is bound to a lock that names its predecessor (the successor  *)
(* died before its rename) or its successor (it died after it).            *)
Bound(g) == Readable(lock) /\ lock \in {Receipt(g.pred), Receipt(g.succ)}

ReclaimReadLock(c) ==
  LET g == seen[c] IN
  /\ At(c, "recLock")
  /\ \/ /\ Bound(g) /\ ProbePasses({g.pred, g.succ})
        /\ Goto(c, "recStable")
        /\ orig' = [orig EXCEPT ![c] = lock.owner]
     \/ /\ ~Bound(g) \/ ProbeMayFail({g.pred, g.succ})
        /\ Goto(c, "failed")
        /\ UNCHANGED orig
  /\ UNCHANGED <<alive, lock, guard, cands, seen, won, stolen>>

ReclaimStable(c) ==
  LET g == seen[c] IN
  /\ At(c, "recStable")
  /\ \/ /\ guard = g /\ lock = Receipt(orig[c]) /\ ProbePasses({g.pred, g.succ})
        /\ Goto(c, "recCheck")
     \/ /\ \/ guard # g
           \/ lock # Receipt(orig[c])
           \/ ProbeMayFail({g.pred, g.succ})
        /\ Goto(c, "failed")
  /\ UNCHANGED <<alive, lock, guard, cands, orig, seen, won, stolen>>

(* removeExactGuard: the read that compares ... *)
ReclaimCheck(c) ==
  /\ At(c, "recCheck")
  /\ \/ guard = seen[c] /\ Goto(c, "recUnlink")
     \/ guard # seen[c] /\ Goto(c, "failed")
  /\ UNCHANGED <<alive, lock, guard, cands, orig, seen, won, stolen>>

(* Mutant: acquire starts over although the guard is still there. *)
ReclaimKeeps(c) ==
  /\ At(c, "recUnlink")
  /\ Goto(c, "create")
  /\ UNCHANGED <<alive, lock, guard, cands, orig, seen, won, stolen>>

(* ... and the unlink of whatever the path names by then; acquire starts   *)
(* over.                                                                   *)
ReclaimUnlink(c) ==
  /\ At(c, "recUnlink")
  /\ \/ guard # NoFile /\ Goto(c, "create")
     \/ guard = NoFile /\ Goto(c, "failed")
  /\ guard' = NoFile
  /\ stolen' = (stolen \/ guard \notin {NoFile, seen[c]})
  /\ UNCHANGED <<alive, lock, cands, orig, seen, won>>

-----------------------------------------------------------------------------
(* Releasing the lock, and dying *)

(* readLock; anything but the own receipt ends the release. *)
ReleaseCheck(c) ==
  /\ At(c, "held")
  /\ \/ lock = Receipt(c) /\ Goto(c, "relUnlink")
     \/ lock # Receipt(c) /\ Goto(c, "released")
  /\ UNCHANGED <<alive, lock, guard, cands, orig, seen, won, stolen>>

ReleaseUnlink(c) ==
  /\ At(c, "relUnlink")
  /\ Goto(c, "released")
  /\ lock' = NoFile
  /\ UNCHANGED <<alive, guard, cands, orig, seen, won, stolen>>

(* A process dies, and what its calls knew with it. *)
Die(p) ==
  /\ p \in alive
  /\ alive' = alive \ {p}
  /\ pc' = [c \in Claims |-> IF HostOf[c] = p THEN "dead" ELSE pc[c]]
  /\ orig' = [c \in Claims |-> IF HostOf[c] = p THEN c ELSE orig[c]]
  /\ seen' = [c \in Claims |-> IF HostOf[c] = p THEN NoFile ELSE seen[c]]
  /\ won' = {c \in won : HostOf[c] # p}
  /\ UNCHANGED <<lock, guard, cands, stolen>>

(* The steps a call of acquire makes once it has begun. *)
AcquireStep(c) ==
  \/ CreateLock(c) \/ LockExists(c) \/ FillLock(c)
  \/ ReadLock(c) \/ ReadLockFails(c) \/ ProbeOwner(c)
  \/ CreateGuard(c) \/ GuardExists(c) \/ FillGuard(c)
  \/ RecheckLock(c) \/ RecheckGuard(c) \/ FinalLock(c) \/ FinalGuard(c)
  \/ Rename(c) \/ DropCheck(c) \/ DropUnlink(c) \/ CleanCheck(c) \/ CleanUnlink(c)
  \/ ReclaimReadGuard(c) \/ ReclaimReadLock(c) \/ ReclaimStable(c)
  \/ ReclaimCheck(c) \/ ReclaimUnlink(c)

ReleaseStep(c) == ReleaseCheck(c) \/ ReleaseUnlink(c)

Next ==
  \/ \E c \in Claims : Start(c) \/ AcquireStep(c) \/ ReleaseStep(c)
  \/ \E p \in Procs : Die(p)

Spec == Init /\ [][Next]_vars

(* acquire is a straight line of awaited calls with one retry loop: a      *)
(* process that does not die keeps making its steps.  Nothing makes a      *)
(* supervisor start, release or die, and no call depends on the steps of   *)
(* another.                                                                *)
Fairness(c) == WF_vars(AcquireStep(c))

-----------------------------------------------------------------------------
(* Properties *)

(* A supervisor whose acquire returned is named by the lock file until it   *)
(* releases or dies, nobody renames over it or unlinks it, as long as no    *)
(* reclaim has unlinked a guard it never compared.                          *)
HolderOwnsLock ==
  ~stolen => \A c \in Claims : pc[c] = "held" => lock = Receipt(c)

(* Two supervisors never both hold the authority over the project           *)
(* (ADR-010: the orchestrator is the sole state authority).                 *)
OneAuthority == \A c, d \in Claims : pc[c] = "held" /\ pc[d] = "held" => c = d

(* The one way to two authorities is such an unlink: as long as none has    *)
(* happened there is one.                                                   *)
OneUnlessStolen == ~stolen => OneAuthority

(* However an acquire ends, short of the death of its process, its finally  *)
(* block has left neither its candidate file nor its guard behind: either   *)
(* would wedge or mislead a later takeover.                                 *)
NoLitter ==
  \A c \in Claims : pc[c] \in {"held", "relUnlink", "released", "failed"} =>
    /\ c \notin cands
    /\ guard # NoFile => guard.succ # c

(* The guard of a live successor is removed by that successor alone         *)
(* (reclaiming asks for both bound identities to be gone), as long as no    *)
(* reclaim has unlinked a guard it never compared.                          *)
LiveGuardStep ==
  guard # NoFile /\ guard' # guard /\ ~Gone(guard.succ)
    => pc'[guard.succ] # pc[guard.succ]
LiveGuardKept == [][stolen' \/ LiveGuardStep]_vars

(* The retry loop ends: every acquire returns, throws, or dies trying.      *)
Settled == {"held", "failed", "dead"}
Settles(c) == pc[c] = "create" ~> pc[c] \in Settled

(* A supervisor alone with a dead owner's lock takes it over, whichever of  *)
(* the two exact crash states its dead predecessors left: a guard whose     *)
(* successor had not renamed yet, or one whose successor already had.  The  *)
(* dead must be recognisable as such.                                       *)
SeenGone(c) == Gone(c) /\ HostOf[c] \notin Unobservable
AloneWithDeadLock(c) ==
  /\ pc[c] = "create"
  /\ \A d \in Claims \ {c} : pc[d] \in {"dead", "failed", "released"}
  /\ Readable(lock) /\ SeenGone(lock.owner)
  /\ \/ guard = NoFile
     \/ /\ Readable(guard) /\ SeenGone(guard.pred) /\ SeenGone(guard.succ)
        /\ lock \in {Receipt(guard.pred), Receipt(guard.succ)}
Recovers(c) == AloneWithDeadLock(c) ~> pc[c] \in {"held", "dead"}

-----------------------------------------------------------------------------
(* The lock promises an Authority: the file names the owner, the calls that *)
(* returned hold it.                                                        *)
Abstract == INSTANCE Authority WITH
  None    <- NoFile,
  live    <- alive,
  owner   <- IF Readable(lock) THEN lock.owner ELSE NoFile,
  holders <- {c \in Claims : pc[c] = "held"}

(* The steps of the lock are steps of an Authority, up to the first unlink  *)
(* of a guard that was never compared: the owner changes only when nobody,  *)
(* or a dead process, owns the project, and only an owner holds it.         *)
IsAuthority ==
  Abstract!Init /\ [][stolen \/ Abstract!Next]_(Abstract!vars)
=============================================================================
