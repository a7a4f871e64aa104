----------------------------- MODULE Authority -----------------------------
(***************************************************************************)
(* What the project lock promises its users: at any time at most one call  *)
(* of one live supervisor process holds the authority over the project.    *)
(* The owner is a durable fact, which outlives the process that owns; it   *)
(* is superseded only once that process is dead.                           *)
(***************************************************************************)
CONSTANTS
  Claims,  (* the calls that ask for the authority            *)
  Procs,   (* the processes that make them                    *)
  HostOf,  (* the process of each call                        *)
  Ghosts,  (* calls of processes that were dead from the start *)
  None     (* nobody                                          *)

VARIABLES
  live,    (* the processes that run                *)
  owner,   (* the call on record as the owner       *)
  holders  (* the calls that act as the authority   *)

vars == <<live, owner, holders>>

Init ==
  /\ live = Procs \ {HostOf[g] : g \in Ghosts}
  /\ owner \in Ghosts \cup {None}
  /\ holders = {}

Supersedable == owner = None \/ (owner \in Claims /\ HostOf[owner] \notin live)

Install(c) ==
  /\ HostOf[c] \in live
  /\ Supersedable
  /\ owner' = c
  /\ holders' \in {holders, holders \cup {c}}
  /\ UNCHANGED live

Hold(c) ==
  /\ owner = c
  /\ holders' = holders \cup {c}
  /\ UNCHANGED <<live, owner>>

Resign(c) ==
  /\ c \in holders
  /\ holders' = holders \ {c}
  /\ UNCHANGED <<live, owner>>

(* Only the owner itself takes its record away, and only after resigning. *)
Vacate(c) ==
  /\ owner = c
  /\ HostOf[c] \in live
  /\ c \notin holders
  /\ owner' = None
  /\ UNCHANGED <<live, holders>>

Die(p) ==
  /\ p \in live
  /\ live' = live \ {p}
  /\ holders' = {c \in holders : HostOf[c] # p}
  /\ UNCHANGED owner

Next ==
  \/ \E c \in Claims : Install(c) \/ Hold(c) \/ Resign(c) \/ Vacate(c)
  \/ \E p \in Procs : Die(p)

Spec == Init /\ [][Next]_vars
=============================================================================
