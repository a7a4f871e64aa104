------------------------- MODULE ProjectLockProofs -------------------------
(***************************************************************************)
(* What TLAPS proves about ProjectLock for any set of calls and processes. *)
(***************************************************************************)
EXTENDS ProjectLock, TLAPS

-----------------------------------------------------------------------------
(* File contents *)

(* Receipts and guards, whole or torn, are distinct file contents that name *)
(* the calls they were made from.                                           *)
LEMMA ReceiptContents ==
  ASSUME NEW c \in Claims
  PROVE  /\ Receipt(c) \in LockFile /\ TornReceipt(c) \in LockFile
         /\ Receipt(c).owner = c /\ TornReceipt(c).owner = c
         /\ Receipt(c).full = TRUE /\ TornReceipt(c).full = FALSE
         /\ Receipt(c) # NoFile /\ TornReceipt(c) # NoFile
<1>1. Receipt(c) \in LockFile /\ TornReceipt(c) \in LockFile
  BY DEF Receipt, TornReceipt, LockFile
<1>2. /\ Receipt(c).owner = c /\ TornReceipt(c).owner = c
      /\ Receipt(c).full = TRUE /\ TornReceipt(c).full = FALSE
  BY DEF Receipt, TornReceipt
<1> QED BY <1>1, <1>2, NoFileAssumption

(* Guards with equal bytes bind the same predecessor and successor.         *)
LEMMA GuardContents ==
  ASSUME NEW p \in Claims, NEW c \in Claims
  PROVE  /\ Guard(p, c) \in GuardFile /\ TornGuard(p, c) \in GuardFile
         /\ Guard(p, c).succ = c /\ TornGuard(p, c).succ = c
         /\ Guard(p, c).pred = p
         /\ Guard(p, c).full = TRUE /\ TornGuard(p, c).full = FALSE
         /\ Guard(p, c) # NoFile /\ TornGuard(p, c) # NoFile
<1>1. Guard(p, c) \in GuardFile /\ TornGuard(p, c) \in GuardFile
  BY DEF Guard, TornGuard, GuardFile
<1>2. /\ Guard(p, c).succ = c /\ TornGuard(p, c).succ = c
      /\ Guard(p, c).pred = p
      /\ Guard(p, c).full = TRUE /\ TornGuard(p, c).full = FALSE
  BY DEF Guard, TornGuard
<1> QED BY <1>1, <1>2, NoFileAssumption

(* A file names calls; a whole receipt is determined by its owner. *)
LEMMA FileFields ==
  /\ \A f \in LockFile : f.owner \in Claims /\ (f.full => f = Receipt(f.owner))
  /\ \A g \in GuardFile : g.pred \in Claims /\ g.succ \in Claims
  BY DEF LockFile, GuardFile, Receipt

-----------------------------------------------------------------------------
(* Type correctness *)

(* The labels, one by one: the steps below need no more of Locals. *)
LEMMA LabelsAreLocals ==
  /\ "idle" \in Locals /\ "create" \in Locals /\ "fill" \in Locals
  /\ "read" \in Locals /\ "probe" \in Locals /\ "guard" \in Locals
  /\ "fillGuard" \in Locals /\ "recheckLock" \in Locals
  /\ "recheckGuard" \in Locals /\ "finalLock" \in Locals
  /\ "finalGuard" \in Locals /\ "rename" \in Locals /\ "dropCheck" \in Locals
  /\ "dropUnlink" \in Locals /\ "cleanCheck" \in Locals
  /\ "cleanUnlink" \in Locals /\ "recGuard" \in Locals /\ "recLock" \in Locals
  /\ "recStable" \in Locals /\ "recCheck" \in Locals /\ "recUnlink" \in Locals
  /\ "held" \in Locals /\ "relUnlink" \in Locals /\ "released" \in Locals
  /\ "failed" \in Locals /\ "dead" \in Locals
  BY DEF Locals

(* Every variable of the lock stays within its type, whatever interleaving  *)
(* of system calls and deaths occurs.                                       *)
THEOREM TypeCorrect == Spec => []TypeOK
<1>1. Init => TypeOK
  <2> SUFFICES ASSUME Init PROVE TypeOK
    OBVIOUS
  <2>1. lock \in LockFile \cup {NoFile} /\ guard \in GuardFile \cup {NoFile}
    <3>1. CASE lock = NoFile /\ guard = NoFile
      BY <3>1
    <3>2. CASE \E g \in Ghosts : lock = Receipt(g) /\ guard = NoFile
      BY <3>2, ReceiptContents, GhostAssumption
    <3>3. ASSUME NEW p \in Ghosts, NEW s \in Ghosts,
                 lock \in {Receipt(p), Receipt(s)}, guard = Guard(p, s)
          PROVE  lock \in LockFile /\ guard \in GuardFile
      <4>1. p \in Claims /\ s \in Claims
        BY GhostAssumption
      <4> QED BY <3>3, <4>1, ReceiptContents, GuardContents
    <3> QED BY <3>1, <3>2, <3>3 DEF Init
  <2>2. pc \in [Claims -> Locals] /\ orig \in [Claims -> Claims]
    BY LabelsAreLocals DEF Init
  <2>3. seen \in [Claims -> GuardFile \cup {NoFile}]
    BY DEF Init
  <2>4. /\ alive \subseteq Procs /\ cands \subseteq Claims /\ won \subseteq Claims
        /\ stolen \in BOOLEAN
    BY DEF Init
  <2> QED BY <2>1, <2>2, <2>3, <2>4 DEF TypeOK
<1>2. TypeOK /\ [Next]_vars => TypeOK'
  <2> SUFFICES ASSUME TypeOK, [Next]_vars PROVE TypeOK'
    OBVIOUS
  <2> USE LabelsAreLocals DEF TypeOK, OwnGuard, At, Goto
  <2>1. ASSUME NEW c \in Claims, Start(c) PROVE TypeOK'
    BY <2>1 DEF Start
  <2>2. ASSUME NEW c \in Claims, AcquireStep(c) PROVE TypeOK'
    <3>1. CASE CreateLock(c)
      BY <3>1, ReceiptContents DEF CreateLock
    <3>2. CASE LockExists(c)
      BY <3>2 DEF LockExists
    <3>3. CASE FillLock(c)
      BY <3>3, ReceiptContents DEF FillLock
    <3>4. CASE ReadLock(c)
      BY <3>4, FileFields DEF ReadLock, Readable
    <3>5. CASE ReadLockFails(c)
      BY <3>5 DEF ReadLockFails
    <3>6. CASE ProbeOwner(c)
      BY <3>6 DEF ProbeOwner
    <3>7. CASE CreateGuard(c)
      BY <3>7, GuardContents DEF CreateGuard
    <3>8. CASE GuardExists(c)
      BY <3>8 DEF GuardExists
    <3>9. CASE FillGuard(c)
      BY <3>9, GuardContents DEF FillGuard
    <3>10. CASE RecheckLock(c)
      BY <3>10 DEF RecheckLock
    <3>11. CASE RecheckGuard(c)
      BY <3>11 DEF RecheckGuard
    <3>12. CASE FinalLock(c)
      BY <3>12 DEF FinalLock
    <3>13. CASE FinalGuard(c)
      BY <3>13 DEF FinalGuard
    <3>14. CASE Rename(c)
      BY <3>14, ReceiptContents DEF Rename
    <3>15. CASE DropCheck(c)
      BY <3>15 DEF DropCheck
    <3>16. CASE DropUnlink(c)
      BY <3>16 DEF DropUnlink
    <3>17. CASE CleanCheck(c)
      BY <3>17 DEF CleanCheck, Outcome
    <3>18. CASE CleanUnlink(c)
      BY <3>18 DEF CleanUnlink, Outcome
    <3>19. CASE ReclaimReadGuard(c)
      BY <3>19 DEF ReclaimReadGuard, Readable
    <3>20. CASE ReclaimReadLock(c)
      <4>1. lock.owner \in Claims \/ UNCHANGED orig
        BY <3>20, FileFields DEF ReclaimReadLock, Bound, Readable
      <4> QED BY <3>20, <4>1 DEF ReclaimReadLock
    <3>21. CASE ReclaimStable(c)
      BY <3>21 DEF ReclaimStable
    <3>22. CASE ReclaimCheck(c)
      BY <3>22 DEF ReclaimCheck
    <3>23. CASE ReclaimUnlink(c)
      BY <3>23 DEF ReclaimUnlink
    <3> QED
      BY <2>2, <3>1, <3>2, <3>3, <3>4, <3>5, <3>6, <3>7, <3>8, <3>9, <3>10, <3>11, <3>12, <3>13, <3>14, <3>15, <3>16, <3>17, <3>18, <3>19, <3>20, <3>21, <3>22, <3>23
      DEF AcquireStep
  <2>3. ASSUME NEW c \in Claims, ReleaseStep(c) PROVE TypeOK'
    BY <2>3 DEF ReleaseStep, ReleaseCheck, ReleaseUnlink
  <2>4. ASSUME NEW p \in Procs, Die(p) PROVE TypeOK'
    BY <2>4 DEF Die
  <2>5. CASE UNCHANGED vars
    BY <2>5 DEF vars
  <2> QED BY <2>1, <2>2, <2>3, <2>4, <2>5 DEF Next
<1> QED BY <1>1, <1>2, PTL DEF Spec

-----------------------------------------------------------------------------
(* What a call leaves behind, whatever other calls reclaim.                  *)

(* A call has its candidate, or the guard names it as the successor, only    *)
(* while it has its finally block before it; a guard that still names it     *)
(* there has the bytes that the finally block compares.                      *)
Sweeping == {"recheckLock", "recheckGuard", "finalLock", "finalGuard", "rename",
             "dropCheck", "dropUnlink", "cleanCheck", "cleanUnlink"}
Litter ==
  \A c \in Claims :
    /\ c \in cands => pc[c] \in {"finalLock", "finalGuard", "rename", "cleanCheck", "dead"}
    /\ guard # NoFile /\ guard.succ = c =>
         /\ pc[c] \in Sweeping \cup {"fillGuard", "dead"}
         /\ pc[c] = "fillGuard" => guard = TornGuard(orig[c], c)
         /\ pc[c] \in Sweeping => guard = OwnGuard(c)

(* Each step of a call of acquire keeps its litter in its own hands.         *)
LEMMA AcquireLitter ==
  ASSUME TypeOK, Litter, NEW c \in Claims, AcquireStep(c)
  PROVE  Litter'
<1> USE DEF TypeOK, Litter, Sweeping, OwnGuard, At, Goto
<1>0. orig[c] \in Claims
  OBVIOUS
<1>1. CASE CreateLock(c)
  BY <1>1 DEF CreateLock
<1>2. CASE LockExists(c)
  BY <1>2 DEF LockExists
<1>3. CASE FillLock(c)
  BY <1>3 DEF FillLock
<1>4. CASE ReadLock(c)
  BY <1>4 DEF ReadLock
<1>5. CASE ReadLockFails(c)
  BY <1>5 DEF ReadLockFails
<1>6. CASE ProbeOwner(c)
  BY <1>6 DEF ProbeOwner
<1>7. CASE CreateGuard(c)
  BY <1>7, <1>0, GuardContents DEF CreateGuard
<1>8. CASE GuardExists(c)
  BY <1>8 DEF GuardExists
<1>9. CASE FillGuard(c)
  <2> DEFINE torn == TornGuard(orig[c], c)
             own  == OwnGuard(c)
  <2>1. guard # NoFile /\ guard.succ = c => guard = torn
    <3>1. pc[c] = "fillGuard"
      BY <1>9 DEF FillGuard
    <3> QED
      BY <3>1 DEF Litter
  <2>2. guard' = IF guard = torn THEN own ELSE guard
    BY <1>9 DEF FillGuard
  <2>3. torn # NoFile /\ own # NoFile /\ torn.succ = c /\ own.succ = c
    BY <1>0, GuardContents
  <2>4. /\ pc' = [pc EXCEPT ![c] = "recheckLock"]
        /\ UNCHANGED <<cands, orig>>
        /\ own' = own
    BY <1>9 DEF FillGuard
  <2> HIDE DEF torn, own
  <2>5. guard' # NoFile /\ guard'.succ = c => guard' = own
    BY <2>1, <2>2, <2>3
  <2>6. ASSUME NEW d \in Claims \ {c}, guard' # NoFile, guard'.succ = d
        PROVE  guard' = guard
    BY <2>2, <2>3, <2>6
  <2> HIDE DEF OwnGuard
  <2>7. \A d \in Claims : OwnGuard(d)' = OwnGuard(d)
    BY <2>4 DEF OwnGuard
  <2>8. guard' # NoFile /\ guard'.succ = c => guard' = OwnGuard(c)'
    BY <2>4, <2>5 DEF own
  <2>9. ASSUME NEW d \in Claims, d # c, guard' # NoFile, guard'.succ = d
        PROVE  /\ guard' = guard /\ guard # NoFile /\ guard.succ = d
               /\ pc'[d] = pc[d] /\ orig'[d] = orig[d]
    BY <2>4, <2>6, <2>9
  <2>10. c \notin cands'
    BY <1>9, <2>4 DEF FillGuard
  <2>11. \A d \in Claims : d # c /\ d \in cands' => d \in cands /\ pc'[d] = pc[d]
    BY <2>4
  <2>12. pc'[c] = "recheckLock"
    BY <2>4
  <2> QED
    BY <2>7, <2>8, <2>9, <2>10, <2>11, <2>12
<1>10. CASE RecheckLock(c)
  BY <1>10 DEF RecheckLock
<1>11. CASE RecheckGuard(c)
  BY <1>11 DEF RecheckGuard
<1>12. CASE FinalLock(c)
  BY <1>12 DEF FinalLock
<1>13. CASE FinalGuard(c)
  BY <1>13 DEF FinalGuard
<1>14. CASE Rename(c)
  BY <1>14 DEF Rename
<1>15. CASE DropCheck(c)
  BY <1>15 DEF DropCheck
<1>16. CASE DropUnlink(c)
  BY <1>16 DEF DropUnlink
<1>17. CASE CleanCheck(c)
  BY <1>17 DEF CleanCheck, Outcome
<1>18. CASE CleanUnlink(c)
  BY <1>18 DEF CleanUnlink, Outcome
<1>19. CASE ReclaimReadGuard(c)
  BY <1>19 DEF ReclaimReadGuard
<1>20. CASE ReclaimReadLock(c)
  BY <1>20 DEF ReclaimReadLock
<1>21. CASE ReclaimStable(c)
  BY <1>21 DEF ReclaimStable
<1>22. CASE ReclaimCheck(c)
  BY <1>22 DEF ReclaimCheck
<1>23. CASE ReclaimUnlink(c)
  BY <1>23 DEF ReclaimUnlink
<1> QED
  BY <1>1, <1>2, <1>3, <1>4, <1>5, <1>6, <1>7, <1>8, <1>9, <1>10, <1>11, <1>12,
     <1>13, <1>14, <1>15, <1>16, <1>17, <1>18, <1>19, <1>20, <1>21, <1>22, <1>23
     DEF AcquireStep

LEMMA InitialLitter == Init => Litter
<1> SUFFICES ASSUME Init PROVE Litter
  OBVIOUS
<1>1. \A s \in Ghosts : s \in Claims
  BY GhostAssumption
<1>2. \A p, s \in Ghosts : Guard(p, s).succ = s
  BY <1>1, GuardContents
<1>3. guard # NoFile => guard.succ \in Ghosts
  BY <1>2 DEF Init
<1> QED
  BY <1>1, <1>3 DEF Init, Litter, Sweeping

(* NoLitter, without any assumption on who reclaims what: an acquire that    *)
(* returned or threw has left neither its candidate nor its guard behind.    *)
THEOREM LitterSafety == Spec => []NoLitter
<1>1. TypeOK /\ Litter /\ [Next]_vars => Litter'
  <2> SUFFICES ASSUME TypeOK, Litter, [Next]_vars PROVE Litter'
    OBVIOUS
  <2>1. ASSUME NEW c \in Claims, Start(c) PROVE Litter'
    BY <2>1 DEF Start, TypeOK, Litter, Sweeping, OwnGuard, At, Goto
  <2>2. ASSUME NEW c \in Claims, ReleaseStep(c) PROVE Litter'
    BY <2>2 DEF ReleaseStep, ReleaseCheck, ReleaseUnlink, TypeOK, Litter, Sweeping,
                OwnGuard, At, Goto
  <2>3. ASSUME NEW p \in Procs, Die(p) PROVE Litter'
    BY <2>3 DEF Die, TypeOK, Litter, Sweeping, OwnGuard
  <2>4. CASE UNCHANGED vars
    BY <2>4 DEF vars, Litter, OwnGuard
  <2> QED
    BY <2>1, <2>2, <2>3, <2>4, AcquireLitter DEF Next
<1>2. Litter => NoLitter
  BY DEF Litter, Sweeping, NoLitter
<1> QED
  BY <1>1, <1>2, InitialLitter, TypeCorrect, PTL DEF Spec

-----------------------------------------------------------------------------
(* The inductive invariant behind the authority of the lock, up to the first *)
(* unlink of a guard that was never compared.  HolderOwnsLock is not         *)
(* inductive: a holder is only safe because nobody else can be past its      *)
(* final check, which is so because whoever is has its guard on disk, which  *)
(* is so because the guards compared before a reclaim have dead successors.  *)

(* A call that has not died runs in a live process. *)
AliveInv == \A c \in Claims : pc[c] # "dead" => ~Gone(c)

(* Between filling its guard and removing it, a call finds it on disk. *)
OwnsGuard(c) ==
  \/ pc[c] \in {"recheckLock", "recheckGuard", "finalLock", "finalGuard",
                "rename", "dropCheck", "dropUnlink", "cleanUnlink"}
  \/ pc[c] = "cleanCheck" /\ c \notin won
GuardInv ==
  \A c \in Claims :
    /\ OwnsGuard(c) => guard = OwnGuard(c)
    /\ pc[c] = "fillGuard" => guard = TornGuard(orig[c], c)

(* The owner that a call takes over from is dead. *)
TakesOver(c) ==
  pc[c] \in {"guard", "fillGuard", "recheckLock", "recheckGuard", "finalLock",
            "finalGuard", "rename"}
GoneInv == \A c \in Claims : TakesOver(c) => Gone(orig[c])

(* The lock names whoever created it, renamed over it, or is about to. *)
OwnsLock(c) ==
  \/ pc[c] \in {"dropCheck", "dropUnlink", "held", "relUnlink"}
  \/ pc[c] \in {"cleanCheck", "cleanUnlink"} /\ c \in won
LockInv ==
  \A c \in Claims :
    /\ pc[c] = "fill" => lock = TornReceipt(c)
    /\ pc[c] \in {"finalGuard", "rename"} => lock = Receipt(orig[c])
    /\ OwnsLock(c) => lock = Receipt(c)

(* A call that has removed its guard is on its way out. *)
WonInv ==
  \A c \in won : pc[c] \in {"cleanCheck", "cleanUnlink", "held", "relUnlink",
                           "released", "dead"}

(* A guard is compared for its unlink once its successor is known to be     *)
(* dead, by any number of calls at a time.                                  *)
SeenInv ==
  \A c \in Claims :
    /\ pc[c] \in {"recLock", "recStable", "recCheck", "recUnlink"}
         => seen[c] \in GuardFile
    /\ pc[c] \in {"recStable", "recCheck", "recUnlink"} => Gone(seen[c].succ)

Sound == AliveInv /\ GuardInv /\ GoneInv /\ LockInv /\ WonInv /\ SeenInv

IInv == stolen \/ Sound

-----------------------------------------------------------------------------
(* Who may use the two files *)

UsesGuard(c) == OwnsGuard(c) \/ pc[c] = "fillGuard"
UsesLock(c)  == pc[c] \in {"fill", "finalGuard", "rename"} \/ OwnsLock(c)

(* The guard on disk names the one call that uses it. *)
LEMMA GuardUser ==
  ASSUME TypeOK, GuardInv, NEW c \in Claims, UsesGuard(c)
  PROVE  guard # NoFile /\ guard \in GuardFile /\ guard.succ = c
<1>1. orig[c] \in Claims
  BY DEF TypeOK
<1>2. guard = OwnGuard(c) \/ guard = TornGuard(orig[c], c)
  BY DEF GuardInv, UsesGuard
<1>3. /\ OwnGuard(c) # NoFile /\ OwnGuard(c) \in GuardFile /\ OwnGuard(c).succ = c
      /\ TornGuard(orig[c], c) # NoFile /\ TornGuard(orig[c], c) \in GuardFile
      /\ TornGuard(orig[c], c).succ = c
  BY <1>1, GuardContents DEF OwnGuard
<1> QED BY <1>2, <1>3

(* No call uses the guard that another has compared and is about to unlink. *)
LEMMA ReclaimedGuardIsUnused ==
  ASSUME TypeOK, Sound, NEW c \in Claims, pc[c] = "recUnlink", guard = seen[c],
         NEW d \in Claims
  PROVE  ~UsesGuard(d)
<1> SUFFICES ASSUME UsesGuard(d) PROVE FALSE
  OBVIOUS
<1>1. guard.succ = d
  BY GuardUser DEF Sound
<1>2. Gone(guard.succ)
  BY DEF Sound, SeenInv
<1>3. pc[d] # "dead"
  BY DEF UsesGuard, OwnsGuard
<1> QED BY <1>1, <1>2, <1>3 DEF Sound, AliveInv

(* The lock on disk: torn by the call that fills it, or a whole receipt.    *)
LEMMA LockUser ==
  ASSUME TypeOK, LockInv, NEW c \in Claims
  PROVE  /\ UsesLock(c) => lock # NoFile
         /\ pc[c] = "fill" => lock.owner = c /\ lock.full = FALSE
         /\ pc[c] \in {"finalGuard", "rename"} => lock.owner = orig[c] /\ lock.full = TRUE
         /\ OwnsLock(c) => lock.owner = c /\ lock.full = TRUE
<1>1. orig[c] \in Claims
  BY DEF TypeOK
<1>2. CASE pc[c] = "fill"
  BY <1>2, ReceiptContents DEF LockInv, OwnsLock
<1>3. CASE pc[c] \in {"finalGuard", "rename"}
  BY <1>1, <1>3, ReceiptContents DEF LockInv, OwnsLock
<1>4. CASE OwnsLock(c)
  BY <1>4, ReceiptContents DEF LockInv, OwnsLock
<1> QED BY <1>2, <1>3, <1>4 DEF UsesLock

(* A call that fills, owns, or is about to replace the lock is the only one. *)
LEMMA LockUserAlone ==
  ASSUME TypeOK, Sound, NEW c \in Claims, NEW d \in Claims, c # d,
         pc[c] \in {"fill", "rename"} \/ OwnsLock(c), UsesLock(d)
  PROVE  FALSE
<1> USE DEF Sound
<1>1. CASE pc[c] = "fill"
  BY <1>1, LockUser DEF UsesLock
<1>2. CASE pc[c] = "rename" /\ pc[d] \in {"finalGuard", "rename"}
  BY <1>2, GuardUser DEF UsesGuard, OwnsGuard
<1>3. CASE OwnsLock(c) /\ pc[d] \in {"finalGuard", "rename"}
  <2>1. orig[d] = c /\ Gone(orig[d])
    BY <1>3, LockUser DEF GoneInv, TakesOver
  <2>2. pc[c] # "dead"
    BY <1>3 DEF OwnsLock
  <2> QED BY <2>1, <2>2 DEF AliveInv
<1>4. CASE pc[c] = "rename" /\ OwnsLock(d)
  <2>1. orig[c] = d /\ Gone(orig[c])
    BY <1>4, LockUser DEF GoneInv, TakesOver
  <2>2. pc[d] # "dead"
    BY <1>4 DEF OwnsLock
  <2> QED BY <2>1, <2>2 DEF AliveInv
<1>5. CASE pc[d] = "fill" \/ (OwnsLock(c) /\ OwnsLock(d))
  BY <1>5, LockUser
<1> QED BY <1>1, <1>2, <1>3, <1>4, <1>5 DEF UsesLock

-----------------------------------------------------------------------------
(* Each step preserves the invariant *)

(* Every system call of ProjectLock.acquire preserves the invariant, but    *)
(* for an unlink of a guard that was never compared.                        *)
LEMMA AcquirePreserves ==
  ASSUME TypeOK, Sound, NEW c \in Claims, AcquireStep(c), ~stolen'
  PROVE  Sound'
<1> USE DEF TypeOK, Sound, At, Goto, Gone, ProbePasses
<1>1. CASE CreateLock(c)
  <2>1. AliveInv' /\ GoneInv' /\ WonInv'
    BY <1>1 DEF AliveInv, GoneInv, TakesOver, WonInv, CreateLock
  <2>2. GuardInv'
    BY <1>1 DEF GuardInv, OwnsGuard, OwnGuard, CreateLock
  <2>3. LockInv'
    BY <1>1, LockUser DEF LockInv, UsesLock, OwnsLock, CreateLock
  <2>4. SeenInv'
    BY <1>1 DEF SeenInv, CreateLock
  <2> QED BY <2>1, <2>2, <2>3, <2>4
<1>2. CASE LockExists(c)
  <2>1. AliveInv' /\ GoneInv' /\ WonInv'
    BY <1>2 DEF AliveInv, GoneInv, TakesOver, WonInv, LockExists
  <2>2. GuardInv'
    BY <1>2 DEF GuardInv, OwnsGuard, OwnGuard, LockExists
  <2>3. LockInv'
    BY <1>2 DEF LockInv, OwnsLock, WonInv, LockExists
  <2>4. SeenInv'
    BY <1>2 DEF SeenInv, LockExists
  <2> QED BY <2>1, <2>2, <2>3, <2>4
<1>3. CASE FillLock(c)
  <2>1. AliveInv' /\ GoneInv' /\ WonInv'
    BY <1>3 DEF AliveInv, GoneInv, TakesOver, WonInv, FillLock
  <2>2. GuardInv'
    BY <1>3 DEF GuardInv, OwnsGuard, OwnGuard, FillLock
  <2>3. LockInv'
    BY <1>3, LockUserAlone DEF LockInv, UsesLock, OwnsLock, FillLock
  <2>4. SeenInv'
    BY <1>3 DEF SeenInv, FillLock
  <2> QED BY <2>1, <2>2, <2>3, <2>4
<1>4. CASE ReadLock(c)
  <2>1. AliveInv' /\ GoneInv' /\ WonInv'
    BY <1>4 DEF AliveInv, GoneInv, TakesOver, WonInv, ReadLock, Readable
  <2>2. GuardInv'
    BY <1>4 DEF GuardInv, OwnsGuard, OwnGuard, ReadLock, Readable
  <2>3. LockInv'
    BY <1>4 DEF LockInv, OwnsLock, WonInv, ReadLock, Readable
  <2>4. SeenInv'
    BY <1>4 DEF SeenInv, ReadLock, Readable
  <2> QED BY <2>1, <2>2, <2>3, <2>4
<1>5. CASE ReadLockFails(c)
  <2>1. AliveInv' /\ GoneInv' /\ WonInv'
    BY <1>5 DEF AliveInv, GoneInv, TakesOver, WonInv, ReadLockFails
  <2>2. GuardInv'
    BY <1>5 DEF GuardInv, OwnsGuard, OwnGuard, ReadLockFails
  <2>3. LockInv'
    BY <1>5 DEF LockInv, OwnsLock, WonInv, ReadLockFails
  <2>4. SeenInv'
    BY <1>5 DEF SeenInv, ReadLockFails
  <2> QED BY <2>1, <2>2, <2>3, <2>4
<1>6. CASE ProbeOwner(c)
  <2>1. AliveInv' /\ GoneInv' /\ WonInv'
    BY <1>6 DEF AliveInv, GoneInv, TakesOver, WonInv, ProbeOwner
  <2>2. GuardInv'
    BY <1>6 DEF GuardInv, OwnsGuard, OwnGuard, ProbeOwner
  <2>3. LockInv'
    BY <1>6 DEF LockInv, OwnsLock, WonInv, ProbeOwner
  <2>4. SeenInv'
    BY <1>6 DEF SeenInv, ProbeOwner
  <2> QED BY <2>1, <2>2, <2>3, <2>4
<1>7. CASE CreateGuard(c)
  <2>1. AliveInv' /\ GoneInv' /\ WonInv'
    BY <1>7 DEF AliveInv, GoneInv, TakesOver, WonInv, CreateGuard
  <2>2. GuardInv'
    BY <1>7, GuardUser DEF GuardInv, UsesGuard, OwnsGuard, OwnGuard, CreateGuard
  <2>3. LockInv'
    BY <1>7 DEF LockInv, OwnsLock, WonInv, CreateGuard
  <2>4. SeenInv'
    BY <1>7 DEF SeenInv, CreateGuard
  <2> QED BY <2>1, <2>2, <2>3, <2>4
<1>8. CASE GuardExists(c)
  <2>1. AliveInv' /\ GoneInv' /\ WonInv'
    BY <1>8 DEF AliveInv, GoneInv, TakesOver, WonInv, GuardExists
  <2>2. GuardInv'
    BY <1>8 DEF GuardInv, OwnsGuard, OwnGuard, GuardExists
  <2>3. LockInv'
    BY <1>8 DEF LockInv, OwnsLock, WonInv, GuardExists
  <2>4. SeenInv'
    BY <1>8 DEF SeenInv, GuardExists
  <2> QED BY <2>1, <2>2, <2>3, <2>4
<1>9. CASE FillGuard(c)
  <2>1. AliveInv' /\ GoneInv' /\ WonInv'
    BY <1>9 DEF AliveInv, GoneInv, TakesOver, WonInv, FillGuard
  <2>2. GuardInv'
    BY <1>9, GuardUser DEF GuardInv, UsesGuard, OwnsGuard, OwnGuard, FillGuard
  <2>3. LockInv'
    BY <1>9 DEF LockInv, OwnsLock, WonInv, FillGuard
  <2>4. SeenInv'
    BY <1>9 DEF SeenInv, FillGuard
  <2> QED BY <2>1, <2>2, <2>3, <2>4
<1>10. CASE RecheckLock(c)
  <2>1. AliveInv' /\ GoneInv' /\ WonInv'
    BY <1>10 DEF AliveInv, GoneInv, TakesOver, WonInv, RecheckLock
  <2>2. GuardInv'
    BY <1>10 DEF GuardInv, OwnsGuard, OwnGuard, RecheckLock
  <2>3. LockInv'
    BY <1>10 DEF LockInv, OwnsLock, WonInv, RecheckLock
  <2>4. SeenInv'
    BY <1>10 DEF SeenInv, RecheckLock
  <2> QED BY <2>1, <2>2, <2>3, <2>4
<1>11. CASE RecheckGuard(c)
  <2>1. AliveInv' /\ GoneInv' /\ WonInv'
    BY <1>11 DEF AliveInv, GoneInv, TakesOver, WonInv, RecheckGuard
  <2>2. GuardInv'
    BY <1>11 DEF GuardInv, OwnsGuard, OwnGuard, RecheckGuard
  <2>3. LockInv'
    BY <1>11 DEF LockInv, OwnsLock, WonInv, RecheckGuard
  <2>4. SeenInv'
    BY <1>11 DEF SeenInv, RecheckGuard
  <2> QED BY <2>1, <2>2, <2>3, <2>4
<1>12. CASE FinalLock(c)
  <2>1. AliveInv' /\ GoneInv' /\ WonInv'
    BY <1>12 DEF AliveInv, GoneInv, TakesOver, WonInv, FinalLock
  <2>2. GuardInv'
    BY <1>12 DEF GuardInv, OwnsGuard, OwnGuard, FinalLock
  <2>3. LockInv'
    BY <1>12 DEF LockInv, OwnsLock, WonInv, FinalLock
  <2>4. SeenInv'
    BY <1>12 DEF SeenInv, FinalLock
  <2> QED BY <2>1, <2>2, <2>3, <2>4
<1>13. CASE FinalGuard(c)
  <2>1. AliveInv' /\ GoneInv' /\ WonInv'
    BY <1>13 DEF AliveInv, GoneInv, TakesOver, WonInv, FinalGuard
  <2>2. GuardInv'
    BY <1>13 DEF GuardInv, OwnsGuard, OwnGuard, FinalGuard
  <2>3. LockInv'
    BY <1>13 DEF LockInv, OwnsLock, WonInv, FinalGuard
  <2>4. SeenInv'
    BY <1>13 DEF SeenInv, FinalGuard
  <2> QED BY <2>1, <2>2, <2>3, <2>4
<1>14. CASE Rename(c)
  <2>1. AliveInv' /\ GoneInv' /\ WonInv'
    BY <1>14 DEF AliveInv, GoneInv, TakesOver, WonInv, Rename
  <2>2. GuardInv'
    BY <1>14 DEF GuardInv, OwnsGuard, OwnGuard, Rename
  <2>3. LockInv'
    BY <1>14, LockUserAlone DEF LockInv, UsesLock, OwnsLock, Rename
  <2>4. SeenInv'
    BY <1>14 DEF SeenInv, Rename
  <2> QED BY <2>1, <2>2, <2>3, <2>4
<1>15. CASE DropCheck(c)
  <2>1. AliveInv' /\ GoneInv' /\ WonInv'
    BY <1>15 DEF AliveInv, GoneInv, TakesOver, WonInv, DropCheck
  <2>2. GuardInv'
    BY <1>15 DEF GuardInv, OwnsGuard, OwnGuard, DropCheck
  <2>3. LockInv'
    BY <1>15 DEF LockInv, OwnsLock, GuardInv, OwnsGuard, DropCheck
  <2>4. SeenInv'
    BY <1>15 DEF SeenInv, DropCheck
  <2> QED BY <2>1, <2>2, <2>3, <2>4
<1>16. CASE DropUnlink(c)
  <2>1. AliveInv' /\ GoneInv' /\ WonInv'
    BY <1>16 DEF AliveInv, GoneInv, TakesOver, WonInv, DropUnlink
  <2>2. GuardInv'
    BY <1>16, GuardUser DEF GuardInv, UsesGuard, OwnsGuard, OwnGuard, DropUnlink
  <2>3. LockInv'
    BY <1>16, GuardUser DEF LockInv, OwnsLock, UsesGuard, OwnsGuard, DropUnlink
  <2>4. SeenInv'
    BY <1>16 DEF SeenInv, DropUnlink
  <2> QED BY <2>1, <2>2, <2>3, <2>4
<1>17. CASE CleanCheck(c)
  <2>1. AliveInv' /\ GoneInv' /\ WonInv'
    BY <1>17 DEF AliveInv, GoneInv, TakesOver, WonInv, CleanCheck, Outcome
  <2>2. GuardInv'
    BY <1>17 DEF GuardInv, OwnsGuard, OwnGuard, CleanCheck, Outcome
  <2>3. LockInv'
    BY <1>17 DEF LockInv, OwnsLock, WonInv, CleanCheck, Outcome
  <2>4. SeenInv'
    BY <1>17 DEF SeenInv, CleanCheck, Outcome
  <2> QED BY <2>1, <2>2, <2>3, <2>4
<1>18. CASE CleanUnlink(c)
  <2>1. AliveInv' /\ GoneInv' /\ WonInv'
    BY <1>18 DEF AliveInv, GoneInv, TakesOver, WonInv, CleanUnlink, Outcome
  <2>2. GuardInv'
    BY <1>18, GuardUser DEF GuardInv, UsesGuard, OwnsGuard, OwnGuard, CleanUnlink, Outcome
  <2>3. LockInv'
    BY <1>18 DEF LockInv, OwnsLock, WonInv, CleanUnlink, Outcome
  <2>4. SeenInv'
    BY <1>18 DEF SeenInv, CleanUnlink, Outcome
  <2> QED BY <2>1, <2>2, <2>3, <2>4
<1>19. CASE ReclaimReadGuard(c)
  <2>1. AliveInv' /\ GoneInv' /\ WonInv'
    BY <1>19 DEF AliveInv, GoneInv, TakesOver, WonInv, ReclaimReadGuard, Readable
  <2>2. GuardInv'
    BY <1>19 DEF GuardInv, OwnsGuard, OwnGuard, ReclaimReadGuard, Readable
  <2>3. LockInv'
    BY <1>19 DEF LockInv, OwnsLock, WonInv, ReclaimReadGuard, Readable
  <2>4. SeenInv'
    BY <1>19 DEF SeenInv, ReclaimReadGuard, Readable
  <2> QED BY <2>1, <2>2, <2>3, <2>4
<1>20. CASE ReclaimReadLock(c)
  <2>1. AliveInv' /\ GoneInv' /\ WonInv'
    BY <1>20 DEF AliveInv, GoneInv, TakesOver, WonInv, ReclaimReadLock, Bound, Readable
  <2>2. GuardInv'
    BY <1>20 DEF GuardInv, OwnsGuard, OwnGuard, ReclaimReadLock, Bound, Readable
  <2>3. LockInv'
    BY <1>20 DEF LockInv, OwnsLock, WonInv, ReclaimReadLock, Bound, Readable
  <2>4. SeenInv'
    BY <1>20 DEF SeenInv, ReclaimReadLock, Bound, Readable
  <2> QED BY <2>1, <2>2, <2>3, <2>4
<1>21. CASE ReclaimStable(c)
  <2>1. AliveInv' /\ GoneInv' /\ WonInv'
    BY <1>21 DEF AliveInv, GoneInv, TakesOver, WonInv, ReclaimStable
  <2>2. GuardInv'
    BY <1>21 DEF GuardInv, OwnsGuard, OwnGuard, ReclaimStable
  <2>3. LockInv'
    BY <1>21 DEF LockInv, OwnsLock, WonInv, ReclaimStable
  <2>4. SeenInv'
    BY <1>21 DEF SeenInv, ReclaimStable
  <2> QED BY <2>1, <2>2, <2>3, <2>4
<1>22. CASE ReclaimCheck(c)
  <2>1. AliveInv' /\ GoneInv' /\ WonInv'
    BY <1>22 DEF AliveInv, GoneInv, TakesOver, WonInv, ReclaimCheck
  <2>2. GuardInv'
    BY <1>22 DEF GuardInv, OwnsGuard, OwnGuard, ReclaimCheck
  <2>3. LockInv'
    BY <1>22 DEF LockInv, OwnsLock, WonInv, ReclaimCheck
  <2>4. SeenInv'
    BY <1>22 DEF SeenInv, ReclaimCheck
  <2> QED BY <2>1, <2>2, <2>3, <2>4
<1>23. CASE ReclaimUnlink(c)
  <2>1. AliveInv' /\ GoneInv' /\ WonInv'
    BY <1>23 DEF AliveInv, GoneInv, TakesOver, WonInv, ReclaimUnlink
  <2>2. GuardInv'
    <3>1. CASE guard = NoFile
      BY <1>23, <3>1 DEF GuardInv, OwnsGuard, OwnGuard, ReclaimUnlink
    <3>2. CASE guard = seen[c]
      BY <1>23, <3>2, ReclaimedGuardIsUnused
      DEF GuardInv, UsesGuard, OwnsGuard, OwnGuard, ReclaimUnlink
    <3> QED BY <1>23, <3>1, <3>2 DEF ReclaimUnlink
  <2>3. LockInv'
    BY <1>23 DEF LockInv, OwnsLock, WonInv, ReclaimUnlink
  <2>4. SeenInv'
    BY <1>23 DEF SeenInv, ReclaimUnlink
  <2> QED BY <2>1, <2>2, <2>3, <2>4
<1> QED
  BY <1>1, <1>2, <1>3, <1>4, <1>5, <1>6, <1>7, <1>8, <1>9, <1>10, <1>11, <1>12, <1>13, <1>14, <1>15, <1>16, <1>17, <1>18, <1>19, <1>20, <1>21, <1>22, <1>23
  DEF AcquireStep

(* Beginning a call of acquire preserves the invariant.                     *)
LEMMA StartPreserves ==
  ASSUME TypeOK, Sound, NEW c \in Claims, Start(c)
  PROVE  Sound'
<1> USE DEF TypeOK, Sound, At, Goto, Gone, Start
<1>1. AliveInv' /\ GoneInv' /\ WonInv'
  BY DEF AliveInv, GoneInv, TakesOver, WonInv
<1>2. GuardInv' /\ LockInv'
  BY DEF GuardInv, OwnsGuard, OwnGuard, LockInv, OwnsLock
<1>3. SeenInv'
  BY DEF SeenInv
<1> QED BY <1>1, <1>2, <1>3

(* Both system calls of ProjectLock.release preserve the invariant.         *)
LEMMA ReleasePreserves ==
  ASSUME TypeOK, Sound, NEW c \in Claims, ReleaseStep(c)
  PROVE  Sound'
<1> USE DEF TypeOK, Sound, At, Goto, Gone, ReleaseCheck, ReleaseUnlink
<1>1. ReleaseCheck(c) \/ ReleaseUnlink(c)
  BY DEF ReleaseStep
<1>2. AliveInv' /\ GoneInv' /\ WonInv'
  BY <1>1 DEF AliveInv, GoneInv, TakesOver, WonInv
<1>3. GuardInv' /\ SeenInv'
  BY <1>1 DEF GuardInv, OwnsGuard, OwnGuard, SeenInv
<1>4. LockInv'
  <2>1. CASE ReleaseCheck(c)
    BY <2>1 DEF LockInv, OwnsLock
  <2>2. CASE ReleaseUnlink(c)
    <3>1. \A d \in Claims \ {c} : ~UsesLock(d)
      BY <2>2, LockUserAlone DEF OwnsLock
    <3> QED BY <2>2, <3>1 DEF LockInv, UsesLock, OwnsLock
  <2> QED BY <1>1, <2>1, <2>2
<1> QED BY <1>2, <1>3, <1>4

(* The death of a process preserves the invariant: it owns nothing any more. *)
LEMMA DiePreserves ==
  ASSUME TypeOK, Sound, NEW p \in Procs, Die(p)
  PROVE  Sound'
<1> USE DEF TypeOK, Sound, Gone, Die
<1>1. \A c \in Claims : pc'[c] = pc[c] \/ pc'[c] = "dead"
  OBVIOUS
<1>2. AliveInv' /\ GoneInv' /\ WonInv'
  BY DEF AliveInv, GoneInv, TakesOver, WonInv
<1>3. GuardInv' /\ LockInv'
  BY <1>1 DEF GuardInv, OwnsGuard, OwnGuard, LockInv, OwnsLock
<1>4. SeenInv'
  BY <1>1 DEF SeenInv
<1> QED BY <1>2, <1>3, <1>4

(* What dead processes left behind satisfies the invariant.                 *)
LEMMA InitialInvariant == Init => IInv
<1> SUFFICES ASSUME Init PROVE IInv
  OBVIOUS
<1>1. \A c \in Claims : pc[c] \in {"idle", "dead"}
  BY DEF Init
<1>2. AliveInv
  BY HostAssumption, GhostAssumption DEF Init, AliveInv, Gone
<1> QED
  BY <1>1, <1>2
  DEF Init, IInv, Sound, GuardInv, OwnsGuard, GoneInv, TakesOver, LockInv, OwnsLock,
      WonInv, SeenInv

(* No step takes back that a guard was stolen. *)
LEMMA StolenStays ==
  ASSUME TypeOK, [Next]_vars, stolen
  PROVE  stolen'
<1> USE DEF TypeOK
<1>1. ASSUME NEW c \in Claims, AcquireStep(c) PROVE stolen'
  BY <1>1
  DEF AcquireStep, CreateLock, LockExists, FillLock, ReadLock, ReadLockFails,
      ProbeOwner, CreateGuard, GuardExists, FillGuard, RecheckLock, RecheckGuard,
      FinalLock, FinalGuard, Rename, DropCheck, DropUnlink, CleanCheck, CleanUnlink,
      ReclaimReadGuard, ReclaimReadLock, ReclaimStable, ReclaimCheck, ReclaimUnlink
<1>2. ASSUME NEW c \in Claims, Start(c) \/ ReleaseStep(c) PROVE stolen'
  BY <1>2 DEF Start, ReleaseStep, ReleaseCheck, ReleaseUnlink
<1>3. ASSUME NEW p \in Procs, Die(p) PROVE stolen'
  BY <1>3 DEF Die
<1>4. CASE UNCHANGED vars
  BY <1>4 DEF vars
<1> QED BY <1>1, <1>2, <1>3, <1>4 DEF Next

(* One step of any process preserves the invariant. *)
LEMMA InvariantStep ==
  ASSUME TypeOK, IInv, [Next]_vars
  PROVE  IInv'
<1> SUFFICES ASSUME ~stolen' PROVE Sound'
  BY DEF IInv
<1>1. Sound
  BY StolenStays DEF IInv
<1>2. CASE UNCHANGED vars
  BY <1>1, <1>2
  DEF vars, Sound, AliveInv, GuardInv, OwnsGuard, OwnGuard, GoneInv, TakesOver,
      LockInv, OwnsLock, WonInv, SeenInv, Gone
<1> QED
  BY <1>1, <1>2, StartPreserves, AcquirePreserves, ReleasePreserves, DiePreserves DEF Next

(* Up to the first unlink of a guard that was never compared, the invariant *)
(* holds whatever the number of supervisors, calls, deaths and concurrent   *)
(* reclaims.                                                                *)
THEOREM Invariant == Spec => []IInv
<1>1. Init => IInv
  BY InitialInvariant
<1>2. TypeOK /\ IInv /\ [Next]_vars => IInv'
  BY InvariantStep
<1> QED BY <1>1, <1>2, TypeCorrect, PTL DEF Spec

(* ... and so the supervisor that holds the project is the one its lock     *)
(* names ...                                                                *)
THEOREM HolderSafety == Spec => []HolderOwnsLock
<1>1. IInv => HolderOwnsLock
  BY DEF IInv, Sound, LockInv, OwnsLock, HolderOwnsLock
<1> QED BY <1>1, Invariant, PTL

(* ... and there is only one of it: that unlink is the only way to two.     *)
THEOREM AuthoritySafety == Spec => []OneUnlessStolen
<1>1. TypeOK /\ IInv => OneUnlessStolen
  <2> SUFFICES ASSUME TypeOK, Sound, NEW c \in Claims, NEW d \in Claims,
                      pc[c] = "held", pc[d] = "held"
               PROVE  c = d
    BY DEF IInv, OneUnlessStolen, OneAuthority
  <2> QED BY LockUserAlone DEF OwnsLock, UsesLock
<1> QED BY <1>1, TypeCorrect, Invariant, PTL

(* A step that changes the guard of a live successor is a step of that      *)
(* successor, or unlinks a guard it never compared.                         *)
THEOREM LiveGuardSafety == Spec => LiveGuardKept
<1>1. TypeOK /\ IInv /\ [Next]_vars => [stolen' \/ LiveGuardStep]_vars
  <2> SUFFICES ASSUME TypeOK, IInv, Next, ~stolen', guard # NoFile, guard' # guard,
                      ~Gone(guard.succ)
               PROVE  pc'[guard.succ] # pc[guard.succ]
    BY DEF LiveGuardStep
  <2>0. Sound
    BY StolenStays DEF IInv
  <2>1. ASSUME NEW c \in Claims,
               FillGuard(c) \/ DropUnlink(c) \/ CleanUnlink(c)
        PROVE  pc'[guard.succ] # pc[guard.succ]
    <3>1. UsesGuard(c)
      BY <2>1 DEF UsesGuard, OwnsGuard, FillGuard, DropUnlink, CleanUnlink, At
    <3>2. guard.succ = c
      BY <2>0, <3>1, GuardUser DEF Sound
    <3>3. pc'[c] # pc[c]
      BY <2>1 DEF TypeOK, FillGuard, DropUnlink, CleanUnlink, At, Goto, Outcome
    <3> QED BY <3>2, <3>3
  <2>2. ASSUME NEW c \in Claims, ReclaimUnlink(c) PROVE FALSE
    BY <2>0, <2>2 DEF Sound, SeenInv, ReclaimUnlink, At
  <2>3. ASSUME NEW c \in Claims, AcquireStep(c)
        PROVE  FillGuard(c) \/ DropUnlink(c) \/ CleanUnlink(c) \/ ReclaimUnlink(c)
    BY <2>3
    DEF AcquireStep, CreateLock, LockExists, FillLock, ReadLock, ReadLockFails,
        ProbeOwner, CreateGuard, GuardExists, RecheckLock, RecheckGuard,
        FinalLock, FinalGuard, Rename, DropCheck, CleanCheck, ReclaimReadGuard,
        ReclaimReadLock, ReclaimStable, ReclaimCheck
  <2>4. ASSUME NEW c \in Claims, Start(c) \/ ReleaseStep(c) PROVE FALSE
    BY <2>4 DEF Start, ReleaseStep, ReleaseCheck, ReleaseUnlink
  <2>5. ASSUME NEW p \in Procs, Die(p) PROVE FALSE
    BY <2>5 DEF Die
  <2> QED BY <2>1, <2>2, <2>3, <2>4, <2>5 DEF Next
<1> QED BY <1>1, TypeCorrect, Invariant, PTL DEF Spec, LiveGuardKept

-----------------------------------------------------------------------------
(* The lock implements an Authority *)

owner   == IF Readable(lock) THEN lock.owner ELSE NoFile
holders == {c \in Claims : pc[c] = "held"}

(* A step that leaves the lock and the processes alone is seen by the       *)
(* authority only if its call begins or ceases to hold.                     *)
LEMMA QuietStep ==
  ASSUME TypeOK, NEW c \in Claims, UNCHANGED <<alive, lock>>,
         NEW l, pc' = [pc EXCEPT ![c] = l], pc[c] # "held", l # "held"
  PROVE  UNCHANGED <<alive, owner, holders>>
BY DEF owner, holders, TypeOK, Readable

(* A step of acquire installs an owner, makes the owner a holder, or is unseen. *)
LEMMA AcquireImplements ==
  ASSUME TypeOK, Sound, NEW c \in Claims, AcquireStep(c)
  PROVE  Abstract!Install(c) \/ Abstract!Hold(c) \/ UNCHANGED <<alive, owner, holders>>
<1> USE DEF TypeOK, At, Goto
<1>1. CASE FillLock(c)
  <2>1. lock = TornReceipt(c) /\ lock' = Receipt(c) /\ pc' = [pc EXCEPT ![c] = "held"]
    BY <1>1 DEF FillLock, Sound, LockInv
  <2>2. owner = NoFile /\ owner' = c
    BY <2>1, ReceiptContents DEF owner, Readable
  <2>3. holders' = holders \cup {c}
    BY <2>1 DEF holders
  <2>4. ~Gone(c) /\ alive' = alive
    BY <1>1 DEF FillLock, Sound, AliveInv
  <2> QED BY <2>2, <2>3, <2>4 DEF Abstract!Install, Abstract!Supersedable, owner, holders, Gone
<1>2. CASE Rename(c)
  <2>1. /\ lock = Receipt(orig[c]) /\ lock' = Receipt(c) /\ Gone(orig[c]) /\ ~Gone(c)
        /\ orig[c] \in Claims /\ alive' = alive
    BY <1>2 DEF Rename, Sound, LockInv, GoneInv, TakesOver, AliveInv
  <2>2. owner = orig[c] /\ owner' = c
    BY <2>1, ReceiptContents DEF owner, Readable
  <2>3. holders' = holders
    BY <1>2 DEF holders, Rename
  <2> QED BY <2>1, <2>2, <2>3 DEF Abstract!Install, Abstract!Supersedable, owner, holders, Gone
<1>3. CASE (CleanCheck(c) \/ CleanUnlink(c)) /\ c \in won
  <2>1. lock = Receipt(c) /\ UNCHANGED <<alive, lock>>
    BY <1>3 DEF Sound, LockInv, OwnsLock, CleanCheck, CleanUnlink
  <2>2. owner = c /\ owner' = c
    BY <2>1, ReceiptContents DEF owner, Readable
  <2>3. CASE pc' = [pc EXCEPT ![c] = "held"]
    <3>1. holders' = holders \cup {c}
      BY <2>3 DEF holders
    <3> QED BY <2>1, <2>2, <3>1 DEF Abstract!Hold, owner, holders
  <2>4. CASE pc' = [pc EXCEPT ![c] = "cleanUnlink"]
    BY <1>3, <2>1, <2>4, QuietStep DEF CleanCheck, CleanUnlink
  <2> QED BY <1>3, <2>3, <2>4 DEF CleanCheck, CleanUnlink, Outcome
<1>4. CASE (CleanCheck(c) \/ CleanUnlink(c)) /\ c \notin won
  BY <1>4, QuietStep DEF CleanCheck, CleanUnlink, Outcome
<1>5. CASE CreateLock(c)
  <2>1. owner = NoFile /\ owner' = NoFile
    BY <1>5, ReceiptContents DEF CreateLock, owner, Readable
  <2>2. holders' = holders /\ alive' = alive
    BY <1>5 DEF CreateLock, holders
  <2> QED BY <2>1, <2>2
<1>6. CASE LockExists(c) \/ ReadLock(c) \/ ReadLockFails(c) \/ ProbeOwner(c)
  BY <1>6, QuietStep DEF LockExists, ReadLock, ReadLockFails, ProbeOwner
<1>7. CASE CreateGuard(c) \/ GuardExists(c) \/ FillGuard(c)
  BY <1>7, QuietStep DEF CreateGuard, GuardExists, FillGuard
<1>8. CASE RecheckLock(c) \/ RecheckGuard(c) \/ FinalLock(c) \/ FinalGuard(c)
  BY <1>8, QuietStep DEF RecheckLock, RecheckGuard, FinalLock, FinalGuard
<1>9. CASE DropCheck(c) \/ DropUnlink(c)
  BY <1>9, QuietStep DEF DropCheck, DropUnlink
<1>10. CASE ReclaimReadGuard(c) \/ ReclaimReadLock(c)
  BY <1>10, QuietStep DEF ReclaimReadGuard, ReclaimReadLock
<1>11. CASE ReclaimStable(c) \/ ReclaimCheck(c) \/ ReclaimUnlink(c)
  BY <1>11, QuietStep DEF ReclaimStable, ReclaimCheck, ReclaimUnlink
<1> QED
  BY <1>1, <1>2, <1>3, <1>4, <1>5, <1>6, <1>7, <1>8, <1>9, <1>10, <1>11
  DEF AcquireStep

(* A step of release resigns, vacates the lock, or is unseen.               *)
LEMMA ReleaseImplements ==
  ASSUME TypeOK, Sound, NEW c \in Claims, ReleaseStep(c)
  PROVE  Abstract!Resign(c) \/ Abstract!Vacate(c) \/ UNCHANGED <<alive, owner, holders>>
<1> USE DEF TypeOK, At, Goto
<1>1. CASE ReleaseCheck(c)
  <2>1. c \in holders /\ holders' = holders \ {c}
    BY <1>1 DEF ReleaseCheck, holders
  <2>2. UNCHANGED <<alive, owner>>
    BY <1>1 DEF ReleaseCheck, owner, Readable
  <2> QED BY <2>1, <2>2 DEF Abstract!Resign, owner, holders
<1>2. CASE ReleaseUnlink(c)
  <2>1. lock = Receipt(c) /\ lock' = NoFile /\ ~Gone(c) /\ alive' = alive
    BY <1>2 DEF ReleaseUnlink, Sound, LockInv, OwnsLock, AliveInv
  <2>2. owner = c /\ owner' = NoFile
    BY <2>1, ReceiptContents DEF owner, Readable
  <2>3. c \notin holders /\ holders' = holders
    BY <1>2 DEF ReleaseUnlink, holders
  <2> QED BY <2>1, <2>2, <2>3 DEF Abstract!Vacate, owner, holders, Gone
<1> QED BY <1>1, <1>2 DEF ReleaseStep

(* The files dead processes left behind are an initial authority.           *)
LEMMA InitImplements == Init => Abstract!Init
<1> SUFFICES ASSUME Init PROVE Abstract!Init
  OBVIOUS
<1>1. holders = {}
  BY DEF Init, holders
<1>2. owner \in Ghosts \cup {NoFile}
  <2>1. lock = NoFile \/ \E g \in Ghosts : lock = Receipt(g)
    BY DEF Init
  <2>2. CASE lock = NoFile
    BY <2>2 DEF owner, Readable
  <2>3. ASSUME NEW g \in Ghosts, lock = Receipt(g) PROVE owner = g
    BY <2>3, GhostAssumption, ReceiptContents DEF owner, Readable
  <2> QED BY <2>1, <2>2, <2>3
<1> QED BY <1>1, <1>2 DEF Init, Abstract!Init, owner, holders

(* Up to the first unlink of a guard that was never compared the lock is an *)
(* Authority: every step that changes who owns or who holds the project is  *)
(* one the abstract specification allows, the others leave both alone.      *)
THEOREM LockImplementsAuthority == Spec => IsAuthority
<1>1. Init => Abstract!Init
  BY InitImplements
<1>2. TypeOK /\ IInv /\ [Next]_vars => [stolen \/ Abstract!Next]_(Abstract!vars)
  <2> SUFFICES ASSUME TypeOK, Sound, [Next]_vars
               PROVE  Abstract!Next \/ UNCHANGED <<alive, owner, holders>>
    BY DEF IInv, Abstract!vars, owner, holders
  <2>1. ASSUME NEW c \in Claims, Start(c) PROVE UNCHANGED <<alive, owner, holders>>
    BY <2>1, QuietStep DEF Start, At, Goto
  <2>2. ASSUME NEW p \in Procs, Die(p) PROVE Abstract!Die(p)
    <3>1. owner' = owner
      BY <2>2 DEF Die, owner, Readable
    <3>2. holders' = {c \in holders : HostOf[c] # p}
      BY <2>2 DEF Die, holders, TypeOK
    <3> QED BY <2>2, <3>1, <3>2 DEF Die, Abstract!Die, owner, holders
  <2>3. CASE UNCHANGED vars
    BY <2>3 DEF vars, owner, holders, Readable
  <2> QED
    BY <2>1, <2>2, <2>3, AcquireImplements, ReleaseImplements DEF Next, Abstract!Next
<1> QED BY <1>1, <1>2, TypeCorrect, Invariant, PTL DEF Spec, IsAuthority

-----------------------------------------------------------------------------
(* The retry loop of acquire *)

(* The labels of reclaimStaleTakeoverGuard. *)
Reclaiming == {"recGuard", "recLock", "recStable", "recCheck", "recUnlink"}

(* Where a call may still create its guard; it never comes back to here. *)
Early == {"idle", "create", "read", "probe", "guard"} \cup Reclaiming

(* The calls whose guard is still to be spent: created, or to be created. *)
Chances ==
  {c \in Claims : pc[c] \in Early} \cup (IF guard = NoFile THEN {} ELSE {guard.succ})

Place ==
  [idle |-> 0, create |-> 1, fill |-> 2, read |-> 2, probe |-> 3, guard |-> 4,
   recGuard |-> 5, recLock |-> 6, recStable |-> 7, recCheck |-> 8, recUnlink |-> 9,
   fillGuard |-> 5, recheckLock |-> 6, recheckGuard |-> 7, finalLock |-> 8,
   finalGuard |-> 9, rename |-> 10, dropCheck |-> 11, dropUnlink |-> 12,
   cleanCheck |-> 13, cleanUnlink |-> 14, held |-> 15, failed |-> 15,
   relUnlink |-> 16, released |-> 17, dead |-> 18]

(* A call goes forward in the code, and starts over only by removing a guard *)
(* whose creator will never create another; no step adds a chance to do so.  *)
Advances ==
  /\ Chances' \subseteq Chances
  /\ \A c \in Claims :
       pc'[c] # pc[c] => Place[pc'[c]] > Place[pc[c]] \/ Chances' # Chances
AcquireAdvances == [][Advances]_vars

Spent == guard # NoFile => guard.succ \in Claims /\ pc[guard.succ] \notin Early

(* The way from one label to the next leads forward, but for the retry.     *)
LEMMA Forward ==
  /\ Place["create"] > Place["idle"] /\ Place["fill"] > Place["create"]
  /\ Place["read"] > Place["create"] /\ Place["held"] > Place["fill"]
  /\ Place["probe"] > Place["read"] /\ Place["failed"] > Place["read"]
  /\ Place["guard"] > Place["probe"] /\ Place["failed"] > Place["probe"]
  /\ Place["fillGuard"] > Place["guard"] /\ Place["recGuard"] > Place["guard"]
  /\ Place["recheckLock"] > Place["fillGuard"] /\ Place["recheckGuard"] > Place["recheckLock"]
  /\ Place["cleanCheck"] > Place["recheckLock"] /\ Place["finalLock"] > Place["recheckGuard"]
  /\ Place["cleanCheck"] > Place["recheckGuard"] /\ Place["finalGuard"] > Place["finalLock"]
  /\ Place["cleanCheck"] > Place["finalLock"] /\ Place["rename"] > Place["finalGuard"]
  /\ Place["cleanCheck"] > Place["finalGuard"] /\ Place["dropCheck"] > Place["rename"]
  /\ Place["dropUnlink"] > Place["dropCheck"] /\ Place["cleanCheck"] > Place["dropCheck"]
  /\ Place["cleanCheck"] > Place["dropUnlink"] /\ Place["cleanUnlink"] > Place["cleanCheck"]
  /\ Place["held"] > Place["cleanCheck"] /\ Place["failed"] > Place["cleanCheck"]
  /\ Place["held"] > Place["cleanUnlink"] /\ Place["failed"] > Place["cleanUnlink"]
  /\ Place["recLock"] > Place["recGuard"] /\ Place["failed"] > Place["recGuard"]
  /\ Place["recStable"] > Place["recLock"] /\ Place["failed"] > Place["recLock"]
  /\ Place["recCheck"] > Place["recStable"] /\ Place["failed"] > Place["recStable"]
  /\ Place["recUnlink"] > Place["recCheck"] /\ Place["failed"] > Place["recCheck"]
  /\ Place["failed"] > Place["recUnlink"] /\ Place["relUnlink"] > Place["held"]
  /\ Place["released"] > Place["held"] /\ Place["released"] > Place["relUnlink"]
  /\ \A l \in Locals \ {"dead"} : Place["dead"] > Place[l]
  BY DEF Place, Locals

(* A step forward that creates no guard. *)
LEMMA MoveAdvances ==
  ASSUME TypeOK, Spent, NEW c \in Claims, NEW l,
         pc' = [pc EXCEPT ![c] = l], Place[l] > Place[pc[c]],
         l \in Early => pc[c] \in Early, guard' = guard \/ guard' = NoFile
  PROVE  Spent' /\ Advances
<1>1. /\ pc'[c] = l /\ \A d \in Claims : d # c => pc'[d] = pc[d]
      /\ \A d \in Claims : pc'[d] \in Early => pc[d] \in Early
  BY DEF TypeOK
<1>2. Spent'
  BY <1>1 DEF Spent
<1>3. Chances' \subseteq Chances
  BY <1>1 DEF Chances
<1> QED
  BY <1>1, <1>2, <1>3 DEF Advances

LEMMA AcquireStepAdvances ==
  ASSUME TypeOK, Spent, NEW c \in Claims, AcquireStep(c)
  PROVE  Spent' /\ Advances
<1> USE Forward DEF At, Goto, Early, Reclaiming
<1>1. CASE CreateLock(c)
  BY <1>1, MoveAdvances DEF CreateLock
<1>2. CASE LockExists(c)
  BY <1>2, MoveAdvances DEF LockExists
<1>3. CASE FillLock(c)
  BY <1>3, MoveAdvances DEF FillLock
<1>4. CASE ReadLock(c)
  BY <1>4, MoveAdvances DEF ReadLock
<1>5. CASE ReadLockFails(c)
  BY <1>5, MoveAdvances DEF ReadLockFails
<1>6. CASE ProbeOwner(c)
  BY <1>6, MoveAdvances DEF ProbeOwner
<1>8. CASE GuardExists(c)
  BY <1>8, MoveAdvances DEF GuardExists
<1>10. CASE RecheckLock(c)
  BY <1>10, MoveAdvances DEF RecheckLock
<1>11. CASE RecheckGuard(c)
  BY <1>11, MoveAdvances DEF RecheckGuard
<1>12. CASE FinalLock(c)
  BY <1>12, MoveAdvances DEF FinalLock
<1>13. CASE FinalGuard(c)
  BY <1>13, MoveAdvances DEF FinalGuard
<1>14. CASE Rename(c)
  BY <1>14, MoveAdvances DEF Rename
<1>15. CASE DropCheck(c)
  BY <1>15, MoveAdvances DEF DropCheck
<1>16. CASE DropUnlink(c)
  BY <1>16, MoveAdvances DEF DropUnlink
<1>17. CASE CleanCheck(c)
  BY <1>17, MoveAdvances DEF CleanCheck, Outcome
<1>18. CASE CleanUnlink(c)
  BY <1>18, MoveAdvances DEF CleanUnlink, Outcome
<1>19. CASE ReclaimReadGuard(c)
  BY <1>19, MoveAdvances DEF ReclaimReadGuard
<1>20. CASE ReclaimReadLock(c)
  BY <1>20, MoveAdvances DEF ReclaimReadLock
<1>21. CASE ReclaimStable(c)
  BY <1>21, MoveAdvances DEF ReclaimStable
<1>22. CASE ReclaimCheck(c)
  BY <1>22, MoveAdvances DEF ReclaimCheck
<1>7. CASE CreateGuard(c)
  <2>1. guard' # NoFile /\ guard'.succ = c
    <3>1. orig[c] \in Claims /\ guard' = TornGuard(orig[c], c)
      BY <1>7 DEF CreateGuard, TypeOK
    <3> QED
      BY <3>1, GuardContents
  <2>2. pc'[c] = "fillGuard" /\ \A d \in Claims : d # c => pc'[d] = pc[d]
    BY <1>7 DEF CreateGuard, TypeOK
  <2>3. guard = NoFile /\ pc[c] = "guard"
    BY <1>7 DEF CreateGuard
  <2> QED
    BY <2>1, <2>2, <2>3 DEF Spent, Advances, Chances
<1>9. CASE FillGuard(c)
  <2>1. guard' = guard \/ (guard # NoFile /\ guard.succ = c /\ guard' # NoFile /\ guard'.succ = c)
    <3>1. /\ orig[c] \in Claims
          /\ \/ guard' = guard
             \/ guard = TornGuard(orig[c], c) /\ guard' = Guard(orig[c], c)
      BY <1>9 DEF FillGuard, OwnGuard, TypeOK
    <3>2. /\ Guard(orig[c], c).succ = c /\ Guard(orig[c], c) # NoFile
          /\ TornGuard(orig[c], c).succ = c /\ TornGuard(orig[c], c) # NoFile
      BY <3>1, GuardContents
    <3> QED
      BY <3>1, <3>2
  <2>2. pc'[c] = "recheckLock" /\ \A d \in Claims : d # c => pc'[d] = pc[d]
    BY <1>9 DEF FillGuard, TypeOK
  <2>3. pc[c] = "fillGuard"
    BY <1>9 DEF FillGuard
  <2> QED
    BY <2>1, <2>2, <2>3 DEF Spent, Advances, Chances
<1>23. CASE ReclaimUnlink(c)
  <2>1. CASE guard = NoFile
    BY <1>23, <2>1, MoveAdvances DEF ReclaimUnlink
  <2>2. CASE guard # NoFile
    <3>1. pc[c] = "recUnlink" /\ guard' = NoFile
      BY <1>23 DEF ReclaimUnlink
    <3>2. \A d \in Claims : pc'[d] \in Early <=> pc[d] \in Early
      BY <1>23, <2>2 DEF ReclaimUnlink, TypeOK
    <3>3. guard.succ \notin Chances' /\ guard.succ \in Chances
      BY <2>2, <3>1, <3>2 DEF Spent, Chances
    <3>4. Chances' \subseteq Chances
      BY <3>1, <3>2 DEF Chances
    <3> QED
      BY <3>1, <3>3, <3>4 DEF Spent, Advances
  <2> QED
    BY <2>1, <2>2
<1> QED
  BY <1>1, <1>2, <1>3, <1>4, <1>5, <1>6, <1>7, <1>8, <1>9, <1>10, <1>11, <1>12, <1>13, <1>14,
     <1>15, <1>16, <1>17, <1>18, <1>19, <1>20, <1>21, <1>22, <1>23 DEF AcquireStep

(* The retry loop of acquire cannot go on for ever, however calls contend,   *)
(* die or reclaim, and without any assumption on timing: whatever a call     *)
(* does takes it forward, or uses up one of the guards there will ever be.   *)
THEOREM ProgressSafety == Spec => AcquireAdvances
<1>1. Init => Spent
  <2> SUFFICES ASSUME Init, guard # NoFile PROVE guard.succ \in Claims /\ pc[guard.succ] \notin Early
    BY DEF Spent
  <2>1. PICK p \in Ghosts, s \in Ghosts : guard = Guard(p, s)
    BY DEF Init
  <2>2. s \in Claims /\ pc[s] = "dead" /\ guard.succ = s
    <3>1. p \in Claims /\ s \in Claims
      BY GhostAssumption
    <3>2. pc[s] = "dead"
      BY <3>1 DEF Init
    <3> QED
      BY <2>1, <3>1, <3>2, GuardContents
  <2> QED
    BY <2>2 DEF Early, Reclaiming
<1>2. TypeOK /\ Spent /\ [Next]_vars => Spent' /\ [Advances]_vars
  <2> SUFFICES ASSUME TypeOK, Spent, [Next]_vars PROVE Spent' /\ [Advances]_vars
    OBVIOUS
  <2>1. ASSUME NEW c \in Claims, Start(c) PROVE Spent' /\ Advances
    BY <2>1, Forward, MoveAdvances DEF Start, At, Goto, Early, Reclaiming
  <2>2. ASSUME NEW c \in Claims, AcquireStep(c) PROVE Spent' /\ Advances
    BY <2>2, AcquireStepAdvances
  <2>3. ASSUME NEW c \in Claims, ReleaseStep(c) PROVE Spent' /\ Advances
    BY <2>3, Forward, MoveAdvances
      DEF ReleaseStep, ReleaseCheck, ReleaseUnlink, At, Goto, Early, Reclaiming
  <2>4. ASSUME NEW p \in Procs, Die(p) PROVE Spent' /\ Advances
    <3>1. \A c \in Claims : pc'[c] = IF HostOf[c] = p THEN "dead" ELSE pc[c]
      BY <2>4 DEF Die
    <3>2. guard' = guard
      BY <2>4 DEF Die
    <3>3. \A c \in Claims : pc'[c] \in Early => pc[c] \in Early
      BY <3>1 DEF Early, Reclaiming
    <3>4. \A l \in Locals \ {"dead"} : Place["dead"] > Place[l]
      BY Forward
    <3>5. \A c \in Claims : pc'[c] # pc[c] => Place[pc'[c]] > Place[pc[c]]
      BY <3>1, <3>4 DEF TypeOK
    <3>6. Spent' /\ Chances' \subseteq Chances
      BY <3>2, <3>3 DEF Spent, Chances
    <3> QED
      BY <3>5, <3>6 DEF Advances
  <2>5. CASE UNCHANGED vars
    BY <2>5 DEF vars, Spent
  <2> QED
    BY <2>1, <2>2, <2>3, <2>4, <2>5 DEF Next
<1> QED
  BY <1>1, <1>2, TypeCorrect, PTL DEF Spec, AcquireAdvances
=============================================================================
