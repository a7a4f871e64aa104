--------------------------- MODULE MCProjectLock ---------------------------
(***************************************************************************)
(* Instances of ProjectLock for TLC.  a, b and e are live calls, d and s   *)
(* calls of processes that died before the model starts.  The three live   *)
(* calls are interchangeable: what holds of a holds of each.               *)
(***************************************************************************)
EXTENDS ProjectLock, TLC

CONSTANTS a, b, d, e, s   \* calls
CONSTANTS p, q, r, x, y   \* processes

MCClaims == {a, b, e, d, s}
MCGhosts == {d, s}
MCProcs  == {p, q, r, x, y}
MCHost   == a :> p @@ b :> q @@ e :> r @@ d :> x @@ s :> y

(* A dead process that may be taken for somebody else, e.g. because its    *)
(* pid is in use again.                                                    *)
MCUnobservable == {x}

(* Only a itself has to go on. *)
MCFairSpec == Spec /\ Fairness(a)

(* The retry loop of an acquire ends, by its own steps (see Settles).      *)
AcquireSettles == Settles(a)

(* A dead owner's lock is taken over (see Recovers).                       *)
DeadLockRecovered == Recovers(a)
=============================================================================
