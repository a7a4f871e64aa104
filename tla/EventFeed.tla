----------------------------- MODULE EventFeed -----------------------------
(***************************************************************************)
(* How a published revision reaches a cockpit: the orchestrator's list of  *)
(* semantic events (subscribe, eventsSince and #emit of orchestrator.ts)   *)
(* and the event socket of packages/orchestrator/src/server.ts, which      *)
(* subscribes first, then asks for the events it missed.                   *)
(*                                                                         *)
(* A publication, the emission of its event, the answer of eventsSince and *)
(* the flush of a socket are continuations of one event loop, so they are  *)
(* atomic and interleave.  One client is modelled: sockets share nothing   *)
(* but the orchestrator.  An event is its revision.                        *)
(***************************************************************************)
EXTENDS Naturals, SequencesExt

CONSTANTS
  MaxRevision,  (* bound: the revisions published                            *)
  MaxDrops      (* bound: the connections lost                               *)

ASSUME BoundsAssumption == MaxRevision \in Nat /\ MaxDrops \in Nat

VARIABLES
  first,     (* the revision at which this supervisor opened the project: it *)
             (* has no event of that one or of any before                    *)
  rev,       (* the revision that snapshot() returns                         *)
  latched,   (* ... with the recovery overlay                                *)
  emitted,   (* #events: first + 1 .. emitted                                *)
  conn,      (* the event socket                                             *)
  after,     (* its afterRevision                                            *)
  snap,      (* the revision eventsSince read                                *)
  history,   (* what eventsSince returned                                    *)
  buffered,  (* the events that came before the socket was live              *)
  stream,    (* everything sent on this connection                           *)
  drops      (* the connections lost so far                                  *)

store  == <<first, rev, latched, emitted>>
socket == <<conn, after, snap, history, buffered, stream>>
feed   == <<store, socket, drops>>

(* The frame that tells a client to fetch the snapshot; events are > 0. *)
SnapshotRequired == 0

FeedTypeOK ==
  /\ first \in Nat /\ rev \in Nat /\ emitted \in Nat
  /\ first <= emitted /\ emitted <= rev /\ rev <= emitted + 1
  /\ latched \in BOOLEAN
  /\ conn \in {"none", "connecting", "asking", "answered", "live", "lost", "retrying"}
  /\ after \in Nat /\ snap \in Nat
  /\ {history, buffered, stream} \subseteq Seq(Nat)
  /\ drops \in 0 .. MaxDrops

FeedInit ==
  /\ first \in {0, 1}
  /\ rev = first /\ emitted = first /\ latched = FALSE
  /\ conn = "none" /\ after = 0 /\ snap = 0
  /\ history = <<>> /\ buffered = <<>> /\ stream = <<>>
  /\ drops = 0

-----------------------------------------------------------------------------
(* The orchestrator *)

(* #mutate serialises: the event of a publication is emitted before the    *)
(* next one.  A publication out of recovery ends it.                       *)
Publish ==
  /\ emitted = rev /\ rev < MaxRevision
  /\ rev' = rev + 1
  /\ latched' = FALSE
  /\ UNCHANGED <<first, emitted, socket, drops>>

(* requireRecovery publishes nothing and emits nothing. *)
Latch ==
  /\ emitted = rev /\ ~latched
  /\ latched' = TRUE
  /\ UNCHANGED <<first, rev, emitted, socket, drops>>

(* Mutant: what comes before the socket is live is lost. *)
NotifyLive(e) ==
  /\ stream' = IF conn = "live" THEN Append(stream, e) ELSE stream
  /\ UNCHANGED buffered

(* The listener of the socket *)
Notify(e) ==
  /\ buffered' = IF conn \in {"asking", "answered"} THEN Append(buffered, e) ELSE buffered
  /\ stream' = IF conn = "live" THEN Append(stream, e) ELSE stream

Emit ==
  /\ emitted < rev
  /\ emitted' = rev
  /\ Notify(rev)
  /\ UNCHANGED <<first, rev, latched, conn, after, snap, history, drops>>

-----------------------------------------------------------------------------
(* The event socket *)

(* The upgrade subscribes and calls eventsSince, whose snapshot() is read  *)
(* at once.                                                                *)
Upgrade ==
  /\ conn = "connecting"
  /\ conn' = "asking"
  /\ snap' = rev
  /\ buffered' = <<>> /\ history' = <<>> /\ stream' = <<>>
  /\ UNCHANGED <<store, after, drops>>

(* The events after + 1 .. snap if all of them are known *)
History ==
  IF after <= snap /\ first <= after /\ snap <= emitted
    THEN [i \in 1 .. snap - after |-> after + i]
    ELSE <<SnapshotRequired>>

Answer ==
  /\ conn = "asking"
  /\ conn' = "answered"
  /\ history' = History
  /\ UNCHANGED <<store, after, snap, buffered, stream, drops>>

(* Events in the order of their revisions, each once *)
InOrder(events) ==
  CHOOSE s \in [1 .. Cardinality(events) -> events] :
    \A i, j \in DOMAIN s : i < j => s[i] < s[j]

(* The buffer is sorted, and sendIfNew skips what was sent already. *)
BufferedNew == InOrder({e \in Range(buffered) : e > after /\ ~Contains(history, e)})

Flush ==
  /\ conn = "answered"
  /\ conn' = "live"
  /\ stream' = history \o BufferedNew
  /\ UNCHANGED <<store, after, snap, history, buffered, drops>>

(* The connection is lost, the session expires, or the upgrade is refused. *)
Drop ==
  /\ conn \in {"connecting", "asking", "answered", "live"}
  /\ drops < MaxDrops
  /\ conn' = "lost" /\ drops' = drops + 1
  /\ UNCHANGED <<store, after, snap, history, buffered, stream>>

FeedStep == Publish \/ Latch \/ Emit \/ Upgrade \/ Answer \/ Flush \/ Drop

(* The orchestrator and the server keep running. *)
FeedFairness ==
  /\ WF_feed(Emit) /\ WF_feed(Upgrade) /\ WF_feed(Answer) /\ WF_feed(Flush)

-----------------------------------------------------------------------------
(* Properties *)

(* A live socket has sent each revision at most once and in order.  It has  *)
(* sent all that were emitted since the client's last one, without a hole   *)
(* and nothing else, unless it told the client to fetch the snapshot; and   *)
(* nothing that was emitted since the upgrade read the revision is missing  *)
(* even then.                                                               *)
FeedComplete ==
  conn = "live" =>
    /\ \A i, j \in 1 .. Len(stream) :
         i < j /\ SnapshotRequired \notin {stream[i], stream[j]} => stream[i] < stream[j]
    /\ SnapshotRequired \notin Range(stream) => Range(stream) = after + 1 .. emitted
    /\ \A e \in snap .. emitted : e > after => e \in Range(stream)
=============================================================================
