------------------------------ MODULE Cockpit ------------------------------
(***************************************************************************)
(* The cockpit (apps/cockpit/src/main.tsx) over the event feed: recover(), *)
(* which fetches the snapshot, onmessage and onclose of the event socket,  *)
(* and the view they keep.                                                 *)
(*                                                                         *)
(* Several recover() calls may be in flight; the server reads the snapshot *)
(* when a request arrives and the responses come back in any order, or not *)
(* at all.  A snapshot is abstracted to its revision and to whether it is  *)
(* the recovery overlay, which keeps the revision it covers.  The semantic *)
(* activity line is left out: it is only worded after the view.            *)
(***************************************************************************)
EXTENDS EventFeed

CONSTANTS
  NoView,    (* no snapshot has been installed                               *)
  Fetches    (* recover() calls in flight at the same time                   *)

VARIABLES
  view,         (* the installed snapshot; lastRevision is its revision      *)
  required,     (* requiredRevision; 0: undefined                            *)
  loading,      (* the view says that it loads                               *)
  unavailable,  (* ... or that the current state is unavailable              *)
  fetch,        (* the recover() calls in flight                             *)
  read          (* the messages of the connection that were handled          *)

client == <<view, required, loading, unavailable, fetch, read>>
vars   == <<feed, client>>

Snapshots == [rev : Nat, latched : BOOLEAN]

ASSUME NoViewAssumption == NoView \notin Snapshots

Current   == [rev |-> rev, latched |-> latched]

(* A call of recover(): its state, the response, and whether the socket    *)
(* reconnects afterwards.                                                  *)
Calls == [at : {"idle", "asked", "served", "failed"}, reply : Snapshots \cup {NoView},
          reconnects : BOOLEAN]
Idle  == [at |-> "idle", reply |-> NoView, reconnects |-> FALSE]
Asked(reconnects) == [at |-> "asked", reply |-> NoView, reconnects |-> reconnects]

TypeOK ==
  /\ FeedTypeOK
  /\ view \in Snapshots \cup {NoView}
  /\ required \in Nat
  /\ loading \in BOOLEAN /\ unavailable \in BOOLEAN
  /\ fetch \in [Fetches -> Calls]
  /\ read \in 0 .. Len(stream)

(* The first recover() is on its way as soon as the page is. *)
Init ==
  /\ FeedInit
  /\ view = NoView /\ required = 0
  /\ loading = TRUE /\ unavailable = FALSE
  /\ \E f \in Fetches : fetch = [g \in Fetches |-> IF g = f THEN Asked(FALSE) ELSE Idle]
  /\ read = 0

LastRevision == IF view = NoView THEN 0 ELSE view.rev

-----------------------------------------------------------------------------
(* recover() *)

(* A further call begins; unavailability is not cleared by asking. *)
Recover(f, reconnects) ==
  /\ fetch[f].at = "idle"
  /\ fetch' = [fetch EXCEPT ![f] = Asked(reconnects)]
  /\ loading' = TRUE

Serve(f) ==
  /\ fetch[f].at = "asked"
  /\ fetch' = [fetch EXCEPT ![f] =
                 [at |-> "served", reply |-> Current, reconnects |-> @.reconnects]]
  /\ UNCHANGED <<feed, view, required, loading, unavailable, read>>

FetchFails(f) ==
  /\ fetch[f].at = "asked"
  /\ fetch' = [fetch EXCEPT ![f].at = "failed"]
  /\ UNCHANGED <<feed, view, required, loading, unavailable, read>>

(* Mutant: a response is installed whatever is on view. *)
InstallAny(reply) ==
  /\ unavailable' = FALSE
  /\ required' = 0
  /\ view' = reply

(* Mutant: a response below the minimum revision clears the warning. *)
InstallClears(reply) ==
  IF reply.rev < required
    THEN unavailable' = FALSE /\ UNCHANGED <<view, required>>
    ELSE /\ unavailable' = FALSE
         /\ required' = 0
         /\ view' = IF view # NoView /\ reply.rev < view.rev THEN view ELSE reply

(* Mutant: ... or the minimum revision itself. *)
InstallForgets(reply) ==
  /\ unavailable' = FALSE
  /\ required' = 0
  /\ view' = IF view # NoView /\ reply.rev < view.rev THEN view ELSE reply

(* What a response does to the view: below the required revision nothing,  *)
(* below the last one it only clears the warning.                          *)
Install(reply) ==
  IF reply.rev < required
    THEN unavailable' = TRUE /\ UNCHANGED <<view, required>>
    ELSE /\ unavailable' = FALSE
         /\ required' = 0
         /\ view' = IF view # NoView /\ reply.rev < view.rev THEN view ELSE reply

(* The first snapshot on view opens the event socket, and so does the end  *)
(* of the recover() that a lost socket called for.                         *)
Connects(f) == fetch[f].reconnects \/ (conn = "none" /\ view' # NoView)

Reconnect(f) ==
  IF Connects(f)
    THEN /\ conn' = "connecting" /\ read' = 0
         /\ after' = IF view' = NoView THEN 0 ELSE view'.rev
         /\ stream' = <<>>
    ELSE UNCHANGED <<conn, after, stream, read>>

Recovered(f) ==
  /\ fetch[f].at \in {"served", "failed"}
  /\ IF fetch[f].at = "served"
       THEN Install(fetch[f].reply)
       ELSE unavailable' = TRUE /\ UNCHANGED <<view, required>>
  /\ loading' = FALSE
  /\ fetch' = [fetch EXCEPT ![f] = Idle]
  /\ Reconnect(f)
  /\ UNCHANGED <<store, snap, history, buffered, drops>>

(* The refresh button, and the recover() after a command was accepted *)
UserRecovers(f) ==
  /\ Recover(f, FALSE)
  /\ UNCHANGED <<feed, view, required, unavailable, read>>

-----------------------------------------------------------------------------
(* The event socket *)

Message == stream[read + 1]

(* Mutant: only the next revision is fetched. *)
NewsNextOnly == Message = LastRevision + 1

(* A frame that makes the view fetch: an event of a later revision, or the *)
(* demand for a snapshot                                                   *)
News == Message > LastRevision

OnMessage(f) ==
  /\ conn = "live" /\ read < Len(stream)
  /\ read' = read + 1
  /\ IF Message = SnapshotRequired
       THEN Recover(f, FALSE) /\ UNCHANGED <<required, unavailable>>
       ELSE IF News
              THEN /\ Recover(f, FALSE)
                   /\ required' = IF required > Message THEN required ELSE Message
                   /\ unavailable' = TRUE
              ELSE UNCHANGED <<fetch, loading, required, unavailable>>
  /\ UNCHANGED <<feed, view>>

(* onclose, 350 ms later *)
OnClose(f) ==
  /\ conn = "lost"
  /\ conn' = "retrying"
  /\ Recover(f, TRUE)
  /\ UNCHANGED <<store, after, snap, history, buffered, stream, drops,
                 view, required, unavailable, read>>

ClientStep(f) ==
  \/ Serve(f) \/ FetchFails(f) \/ Recovered(f) \/ OnMessage(f) \/ OnClose(f)

CockpitNext ==
  \/ FeedStep /\ UNCHANGED client
  \/ \E f \in Fetches : ClientStep(f) \/ UserRecovers(f)

CockpitSpec == Init /\ [][CockpitNext]_vars

(* A request is served or fails and its response is handled; a message and  *)
(* a lost socket are handled.  The user owes nothing.                       *)
FairSpec ==
  /\ CockpitSpec
  /\ FeedFairness
  /\ \A f \in Fetches : WF_vars(Serve(f) \/ FetchFails(f)) /\ WF_vars(Recovered(f))
  /\ WF_vars(\E f \in Fetches : OnMessage(f)) /\ WF_vars(\E f \in Fetches : OnClose(f))

-----------------------------------------------------------------------------
(* Properties *)

(* The cockpit never shows an older revision after a newer one, in whatever *)
(* order the responses come.                                                *)
NeverBack == [][ view # NoView => view'.rev >= view.rev ]_vars

(* A received event sets the minimum revision: until a response reaches it, *)
(* the state on view is declared unavailable and offers no decision         *)
(* (ADR-010, Final-55).                                                     *)
ControlsWait == required # 0 => unavailable /\ required > LastRevision

(* Once everything in flight has arrived, a view that is not declared       *)
(* unavailable is the published revision.                                   *)
Settled ==
  /\ conn = "live" /\ read = Len(stream) /\ emitted = rev
  /\ \A f \in Fetches : fetch[f].at = "idle"
SettledIsFresh == Settled /\ ~unavailable => view # NoView /\ view.rev = rev

(* A view that does not warn gets every published revision, unless a        *)
(* request fails; only then may the user have to press the refresh button.  *)
EventuallyShown ==
  \A r \in 1 .. MaxRevision :
    (view # NoView /\ rev >= r /\ ~unavailable) ~>
      (LastRevision >= r \/ \E f \in Fetches : fetch[f].at = "failed")
=============================================================================
