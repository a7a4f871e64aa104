--------------------------- MODULE CockpitProofs ---------------------------
(***************************************************************************)
(* What the cockpit shows, and what the event socket sends it, whatever    *)
(* the number of revisions, of lost connections and of responses in        *)
(* flight.  Two inductive invariants: IInv is of the view alone and adds   *)
(* to its minimum revision what a response carries, a snapshot once it is  *)
(* served; FInv relates the view to the feed: what the client has seen to  *)
(* what its connection counts from, that to the history and the buffer,    *)
(* those to what is sent, and what was handled to what is waited for.      *)
(***************************************************************************)
EXTENDS Cockpit, FiniteSetTheorems, SequenceTheorems, TLAPS

ViewTypes == rev \in Nat /\ latched \in BOOLEAN /\ view \in Snapshots \cup {NoView}

Replies ==
  /\ fetch = [f \in Fetches |-> fetch[f]]
  /\ \A f \in Fetches :
       /\ fetch[f] = [at |-> fetch[f].at, reply |-> fetch[f].reply,
                      reconnects |-> fetch[f].reconnects]
       /\ fetch[f].at = "served" => fetch[f].reply \in Snapshots

IInv == ViewTypes /\ Replies /\ ControlsWait

(* A call of recover() that begins carries no response yet. *)
LEMMA RecoverKeeps ==
  ASSUME NEW f \in Fetches, NEW r \in BOOLEAN, Replies, Recover(f, r)
  PROVE  Replies'
  BY DEF Replies, Recover, Asked

(* The store and the event socket know nothing of the view. *)
LEMMA FeedKeeps ==
  ASSUME IInv, FeedStep, UNCHANGED client
  PROVE  IInv' /\ view' = view
<1>1. rev' \in Nat /\ latched' \in BOOLEAN
  <2>1. rev \in Nat /\ latched \in BOOLEAN
    BY DEF IInv, ViewTypes
  <2>2. CASE Publish
    <3>1. rev' \in Nat
      BY <2>1, <2>2 DEF Publish
    <3>2. latched' \in BOOLEAN
      BY <2>2 DEF Publish
    <3> QED
      BY <3>1, <3>2
  <2>3. CASE Latch
    BY <2>1, <2>3 DEF Latch
  <2>4. CASE rev' = rev /\ latched' = latched
    BY <2>1, <2>4
  <2> QED
    BY <2>2, <2>3, <2>4 DEF FeedStep, Emit, Upgrade, Answer, Flush, Drop, store
<1>2. view' = view /\ required' = required /\ unavailable' = unavailable /\ fetch' = fetch
  BY DEF client
<1>3. Replies'
  BY <1>2 DEF IInv, Replies
<1>4. ControlsWait'
  BY <1>2 DEF IInv, ControlsWait, LastRevision
<1> QED
  BY <1>1, <1>2, <1>3, <1>4 DEF IInv, ViewTypes

(* What a response does to the view: it goes forward, and the minimum      *)
(* revision is forgotten only when the response reaches it.                *)
LEMMA InstallKeeps ==
  ASSUME IInv, NEW reply \in Snapshots, Install(reply)
  PROVE  /\ view' \in Snapshots \cup {NoView}
         /\ ControlsWait'
         /\ view # NoView => view' # NoView /\ view'.rev >= view.rev
<1>1. reply.rev \in Nat /\ (view # NoView => view.rev \in Nat)
  BY DEF IInv, ViewTypes, Snapshots
<1>2. CASE reply.rev < required
  BY <1>1, <1>2 DEF Install, IInv, ViewTypes, ControlsWait, LastRevision
<1>3. CASE ~(reply.rev < required)
  BY <1>1, <1>3, NoViewAssumption DEF Install, IInv, ViewTypes, ControlsWait
<1> QED
  BY <1>2, <1>3

LEMMA RecoveredKeeps ==
  ASSUME IInv, NEW f \in Fetches, Recovered(f)
  PROVE  IInv' /\ (view # NoView => view' # NoView /\ view'.rev >= view.rev)
<1>1. rev' = rev /\ latched' = latched
  BY DEF Recovered, store
<1>2. Replies'
  BY DEF IInv, Replies, Recovered, Idle
<1>3. CASE fetch[f].at = "served"
  <2>1. fetch[f].reply \in Snapshots /\ Install(fetch[f].reply)
    BY <1>3 DEF IInv, Replies, Recovered
  <2> QED
    BY <1>1, <1>2, <2>1, InstallKeeps DEF IInv, ViewTypes
<1>4. CASE fetch[f].at # "served"
  <2>1. unavailable' = TRUE /\ view' = view /\ required' = required
    BY <1>4 DEF Recovered
  <2>2. view # NoView => view.rev \in Nat
    BY DEF IInv, ViewTypes, Snapshots
  <2> QED
    BY <1>1, <1>2, <2>1, <2>2 DEF IInv, ViewTypes, ControlsWait, LastRevision
<1> QED
  BY <1>3, <1>4

LEMMA OnMessageKeeps ==
  ASSUME IInv, NEW f \in Fetches, OnMessage(f)
  PROVE  IInv' /\ view' = view
<1>1. view' = view /\ rev' = rev /\ latched' = latched
  BY DEF OnMessage, feed, store
<1>2. Replies'
  BY RecoverKeeps DEF OnMessage, IInv, Replies
<1>3. ControlsWait'
  <2>1. CASE required' = required /\ unavailable' = unavailable
    BY <1>1, <2>1 DEF IInv, ControlsWait, LastRevision
  <2>2. CASE /\ News /\ unavailable' = TRUE
             /\ required' = IF required > Message THEN required ELSE Message
    <3>1. Message > LastRevision
      BY <2>2 DEF News
    <3>2. required # 0 => required > LastRevision
      BY DEF IInv, ControlsWait
    <3>3. LastRevision' = LastRevision
      BY <1>1 DEF LastRevision
    <3> QED
      BY <2>2, <3>1, <3>2, <3>3 DEF ControlsWait
  <2> QED
    BY <2>1, <2>2 DEF OnMessage
<1> QED
  BY <1>1, <1>2, <1>3 DEF IInv, ViewTypes

(* The steps that leave the view as it is *)
LEMMA AskingKeeps ==
  ASSUME IInv, NEW f \in Fetches,
         Serve(f) \/ FetchFails(f) \/ OnClose(f) \/ UserRecovers(f)
  PROVE  IInv' /\ view' = view
<1>1. /\ view' = view /\ rev' = rev /\ latched' = latched
      /\ required' = required /\ unavailable' = unavailable
  BY DEF Serve, FetchFails, OnClose, UserRecovers, feed, store
<1>2. Current \in Snapshots
  BY DEF IInv, ViewTypes, Current, Snapshots
<1>3. Replies'
  <2>1. CASE Serve(f)
    <3>1. fetch' = [fetch EXCEPT ![f] =
                      [at |-> "served", reply |-> Current, reconnects |-> fetch[f].reconnects]]
      BY <2>1 DEF Serve
    <3> QED
      BY <1>2, <3>1 DEF IInv, Replies
  <2>2. CASE FetchFails(f)
    BY <2>2 DEF FetchFails, IInv, Replies
  <2>3. CASE OnClose(f) \/ UserRecovers(f)
    BY <2>3, RecoverKeeps DEF OnClose, UserRecovers, IInv
  <2> QED
    BY <2>1, <2>2, <2>3
<1> QED
  BY <1>1, <1>3 DEF IInv, ViewTypes, ControlsWait, LastRevision

(* Every step keeps the invariant and moves the view forward. *)
LEMMA Inductive ==
  IInv /\ [CockpitNext]_vars =>
    IInv' /\ [view # NoView => view'.rev >= view.rev]_vars
<1> SUFFICES ASSUME IInv, [CockpitNext]_vars
             PROVE  IInv' /\ [view # NoView => view'.rev >= view.rev]_vars
  OBVIOUS
<1>1. view # NoView => view.rev \in Nat
  BY DEF IInv, ViewTypes, Snapshots
<1>2. CASE FeedStep /\ UNCHANGED client
  BY <1>1, <1>2, FeedKeeps
<1>3. CASE \E f \in Fetches : Recovered(f)
  BY <1>3, RecoveredKeeps
<1>4. CASE \E f \in Fetches : OnMessage(f)
  BY <1>1, <1>4, OnMessageKeeps
<1>5. CASE \E f \in Fetches : Serve(f) \/ FetchFails(f) \/ OnClose(f) \/ UserRecovers(f)
  BY <1>1, <1>5, AskingKeeps
<1>6. CASE UNCHANGED vars
  BY <1>6 DEF vars, feed, store, client, IInv, ViewTypes, Replies, ControlsWait, LastRevision
<1> QED
  BY <1>2, <1>3, <1>4, <1>5, <1>6 DEF CockpitNext, ClientStep

(* The inductive invariant holds in every state. *)
THEOREM Invariant == CockpitSpec => []IInv
<1>1. Init => IInv
  <2> SUFFICES ASSUME Init PROVE IInv
    OBVIOUS
  <2>1. Replies
    <3>1. PICK f \in Fetches : fetch = [g \in Fetches |-> IF g = f THEN Asked(FALSE) ELSE Idle]
      BY DEF Init
    <3> QED
      BY <3>1 DEF Replies, Asked, Idle
  <2>2. rev \in Nat
    BY DEF Init, FeedInit
  <2>3. latched \in BOOLEAN
    BY DEF Init, FeedInit
  <2> QED
    BY <2>1, <2>2, <2>3 DEF Init, IInv, ViewTypes, ControlsWait
<1> QED
  BY <1>1, Inductive, PTL DEF CockpitSpec

(* Responses may come in any order: the cockpit never shows an older       *)
(* revision after a newer one.                                             *)
THEOREM ViewSafety == CockpitSpec => NeverBack
  BY Invariant, Inductive, PTL DEF CockpitSpec, NeverBack

(* No decision is offered while a newer revision is known to exist. *)
THEOREM ControlSafety == CockpitSpec => []ControlsWait
<1>1. IInv => ControlsWait
  BY DEF IInv
<1> QED
  BY <1>1, Invariant, PTL

-----------------------------------------------------------------------------
(* What a socket sends.  No step of the feed depends on the view, but that   *)
(* nothing is missing does: the feed counts from what the client has seen,   *)
(* which no supervisor of this project has yet to publish.                   *)

Rising(s) ==
  \A i, j \in 1 .. Len(s) :
    i < j /\ SnapshotRequired \notin {s[i], s[j]} => s[i] < s[j]

Open == {"connecting", "asking", "answered", "live"}

(* What the client knows lies between the first and the current revision,    *)
(* and it connects only once it has seen one.                                *)
Behind ==
  /\ view # NoView => first <= view.rev /\ view.rev <= rev
  /\ \A f \in Fetches :
       /\ fetch[f].at = "served" => fetch[f].reply \in Snapshots
                                    /\ first <= fetch[f].reply.rev /\ fetch[f].reply.rev <= rev
       /\ fetch[f].reconnects => view # NoView
  /\ conn # "none" => view # NoView

(* A connection counts from what the client had seen when it was opened.     *)
Asks ==
  /\ conn \in Open => first <= after /\ after <= LastRevision
  /\ conn \in Open \ {"connecting"} => after <= snap /\ snap <= rev
  /\ conn \in Open \ {"live"} => stream = <<>> /\ read = 0

(* The buffer has the events since the upgrade, which read a revision whose  *)
(* own event was there already or was the next.                              *)
Buffers ==
  conn \in {"asking", "answered"} =>
    \E b \in Nat : /\ b <= snap /\ snap <= b + 1 /\ b <= emitted
                   /\ Range(buffered) = b + 1 .. emitted

(* The history is whole, or the event it lacked is the first in the buffer.  *)
Answers ==
  conn = "answered" =>
    \/ snap <= emitted /\ history = [i \in 1 .. snap - after |-> after + i]
    \/ history = <<SnapshotRequired>> /\ Range(buffered) = snap .. emitted /\ snap > 0

Sends ==
  /\ FeedComplete
  /\ conn = "live" => /\ Range(stream) \subseteq 0 .. emitted
                      /\ SnapshotRequired \in Range(stream) \/ after <= emitted

(* What the client has handled it has seen, or it waits for it.              *)
Handles ==
  conn = "live" => \A i \in 1 .. read : stream[i] <= LastRevision \/ stream[i] <= required

FInv == TypeOK /\ Behind /\ Asks /\ Buffers /\ Answers /\ Sends /\ Handles

-----------------------------------------------------------------------------
(* Appending an event adds it.                                               *)
LEMMA AppendRange ==
  ASSUME NEW s \in Seq(Nat), NEW e \in Nat
  PROVE  /\ Append(s, e) \in Seq(Nat)
         /\ Range(Append(s, e)) = Range(s) \cup {e}
<1> DEFINE t == Append(s, e)
<1>1. /\ t \in Seq(Nat) /\ Len(t) = Len(s) + 1 /\ Len(s) \in Nat
      /\ \A i \in 1 .. Len(s) : t[i] = s[i]
      /\ t[Len(s) + 1] = e
  BY AppendProperties, LenProperties
<1>2. Range(s) = {s[i] : i \in 1 .. Len(s)} /\ Range(t) = {t[i] : i \in 1 .. Len(t)}
  BY <1>1, RangeEquality
<1>3. 1 .. Len(t) = (1 .. Len(s)) \cup {Len(s) + 1}
  BY <1>1
<1> HIDE DEF t
<1>4. Range(t) = Range(s) \cup {e}
  BY <1>1, <1>2, <1>3
<1> QED
  BY <1>1, <1>4 DEF t

(* An event later than all before it keeps the order.                        *)
LEMMA AppendRising ==
  ASSUME NEW s \in Seq(Nat), NEW e \in Nat, Rising(s), \A x \in Range(s) : x < e
  PROVE  Rising(Append(s, e))
<1> DEFINE t == Append(s, e)
<1>1. /\ Len(t) = Len(s) + 1 /\ Len(s) \in Nat
      /\ \A i \in 1 .. Len(s) : t[i] = s[i]
      /\ t[Len(s) + 1] = e
  BY AppendProperties, LenProperties
<1>2. \A i \in 1 .. Len(s) : s[i] < e
  BY RangeEquality
<1> HIDE DEF t
<1>3. Rising(t)
  BY <1>1, <1>2 DEF Rising
<1> QED
  BY <1>3 DEF t

(* So does what follows a sequence and is later than all of it.              *)
LEMMA ConcatRising ==
  ASSUME NEW s \in Seq(Nat), NEW t \in Seq(Nat), Rising(s), Rising(t),
         \A x \in Range(s), y \in Range(t) : x < y
  PROVE  Rising(s \o t)
<1> DEFINE u == s \o t
<1>1. /\ Len(u) = Len(s) + Len(t) /\ Len(s) \in Nat /\ Len(t) \in Nat
      /\ \A i \in 1 .. Len(s) + Len(t) :
           u[i] = IF i <= Len(s) THEN s[i] ELSE t[i - Len(s)]
  BY ConcatProperties, LenProperties
<1>2. \A i \in 1 .. Len(s), j \in 1 .. Len(t) : s[i] < t[j]
  BY RangeEquality
<1> HIDE DEF u
<1> SUFFICES ASSUME NEW i \in 1 .. Len(u), NEW j \in 1 .. Len(u), i < j,
                    SnapshotRequired \notin {u[i], u[j]}
             PROVE  u[i] < u[j]
  BY DEF Rising, u
<1>3. CASE j <= Len(s)
  BY <1>1, <1>3 DEF Rising
<1>4. CASE i <= Len(s) /\ j > Len(s)
  <2>1. u[i] = s[i] /\ u[j] = t[j - Len(s)] /\ j - Len(s) \in 1 .. Len(t) /\ i \in 1 .. Len(s)
    BY <1>1, <1>4
  <2> QED
    BY <1>2, <2>1
<1>5. CASE i > Len(s)
  <2> DEFINE k == i - Len(s)
             l == j - Len(s)
  <2>1. u[i] = t[k] /\ u[j] = t[l] /\ k \in 1 .. Len(t) /\ l \in 1 .. Len(t) /\ k < l
    BY <1>1, <1>5
  <2> QED
    BY <2>1 DEF Rising
<1> QED
  BY <1>1, <1>3, <1>4, <1>5

(* The history is the events from one revision to another, in order.         *)
LEMMA RunOfEvents ==
  ASSUME NEW a \in Nat, NEW n \in Nat, NEW s, s = [i \in 1 .. n |-> a + i]
  PROVE  s \in Seq(Nat) /\ Len(s) = n /\ Range(s) = a + 1 .. a + n /\ Rising(s)
<1>1. s \in [1 .. n -> Nat]
  OBVIOUS
<1>2. s \in Seq(Nat) /\ Len(s) = n
  BY <1>1
<1>3. Range(s) = {s[i] : i \in 1 .. n}
  BY <1>2, RangeEquality
<1>4. Range(s) \subseteq a + 1 .. a + n
  BY <1>3
<1>5. ASSUME NEW e \in a + 1 .. a + n PROVE e \in Range(s)
  <2>1. e - a \in 1 .. n /\ s[e - a] = e
    OBVIOUS
  <2> QED
    BY <1>3, <2>1
<1>6. Rising(s)
  BY <1>2 DEF Rising
<1> QED
  BY <1>2, <1>4, <1>5, <1>6

(* Sorting an interval enumerates it.                                        *)
LEMMA IntervalInOrder ==
  ASSUME NEW a \in Nat, NEW n \in Nat
  PROVE  LET s == InOrder(a + 1 .. a + n) IN
         s \in Seq(Nat) /\ Range(s) = a + 1 .. a + n /\ Rising(s)
<1> DEFINE S == a + 1 .. a + n
           s == InOrder(S)
           t == [i \in 1 .. n |-> a + i]
<1>1. IsFiniteSet(S) /\ Cardinality(S) = n
  BY FS_Interval
<1>2. t \in [1 .. n -> S] /\ \A i, j \in DOMAIN t : i < j => t[i] < t[j]
  OBVIOUS
<1>3. s \in [1 .. n -> S] /\ \A i, j \in DOMAIN s : i < j => s[i] < s[j]
  BY <1>1, <1>2, Zenon DEF InOrder
<1> HIDE DEF s, t
<1>4. s \in Seq(Nat) /\ Len(s) = n /\ DOMAIN s = 1 .. n
  <2>1. s \in [1 .. n -> Nat]
    BY <1>3
  <2> QED
    BY <2>1, <1>3
<1>5. Range(s) = {s[i] : i \in 1 .. n} /\ Rising(s)
  BY <1>3, <1>4, RangeEquality DEF Rising
<1>6. ASSUME NEW e \in S PROVE e \in Range(s)
  <2> SUFFICES ASSUME e \notin Range(s) PROVE FALSE
    OBVIOUS
  <2>1. s \in [1 .. n -> S \ {e}]
    BY <1>3, <1>5
  <2>2. IsFiniteSet(S \ {e}) /\ Cardinality(S \ {e}) = n - 1
    BY <1>1, FS_RemoveElement
  <2>3. IsFiniteSet(1 .. n) /\ Cardinality(1 .. n) = n
    BY FS_Interval
  <2>4. \E x, y \in 1 .. n : x # y /\ s[x] = s[y]
    BY <2>1, <2>2, <2>3, FS_PigeonHole
  <2> QED
    BY <1>3, <1>4, <2>4
<1> QED
  BY <1>3, <1>4, <1>5, <1>6 DEF s

-----------------------------------------------------------------------------
(* The steps                                                                 *)

LEMMA Bounds == ASSUME FInv PROVE
  /\ first \in Nat /\ rev \in Nat /\ emitted \in Nat /\ after \in Nat /\ snap \in Nat
  /\ first <= emitted /\ emitted <= rev /\ rev <= emitted + 1
  /\ history \in Seq(Nat) /\ buffered \in Seq(Nat) /\ stream \in Seq(Nat)
  /\ Len(stream) \in Nat /\ read \in 0 .. Len(stream)
  /\ required \in Nat /\ LastRevision \in Nat
  /\ view # NoView => view.rev \in Nat
<1>1. view # NoView => view.rev \in Nat
  BY DEF FInv, TypeOK, Snapshots
<1> QED
  BY <1>1, LenProperties DEF FInv, TypeOK, FeedTypeOK, LastRevision

(* The first socket of the page, and the next after a lost one, count from   *)
(* the view; a response never takes the view back.                           *)
LEMMA RecoveredFacts ==
  ASSUME IInv, FInv, NEW f \in Fetches, Recovered(f)
  PROVE  /\ UNCHANGED <<first, rev, latched, emitted, snap, history, buffered, drops>>
         /\ fetch' = [fetch EXCEPT ![f] = Idle]
         /\ loading' = FALSE /\ unavailable' \in BOOLEAN
         /\ view' \in Snapshots \cup {NoView}
         /\ view' # NoView => first <= view'.rev /\ view'.rev <= rev
         /\ view # NoView => view' # NoView
         /\ LastRevision' \in Nat /\ LastRevision <= LastRevision'
         /\ required' = required \/ (required' = 0 /\ required <= LastRevision')
         /\ \/ UNCHANGED <<conn, after, stream, read>>
            \/ /\ conn' = "connecting" /\ read' = 0 /\ stream' = <<>>
               /\ view' # NoView /\ after' = LastRevision'
<1>1. /\ UNCHANGED <<first, rev, latched, emitted, snap, history, buffered, drops>>
      /\ fetch' = [fetch EXCEPT ![f] = Idle]
      /\ loading' = FALSE
  BY DEF Recovered, store
<1>2. /\ view' \in Snapshots \cup {NoView}
      /\ view' # NoView => first <= view'.rev /\ view'.rev <= rev
      /\ view # NoView => view' # NoView
      /\ view # NoView => view.rev <= view'.rev
      /\ \/ required' = required
         \/ required' = 0 /\ view' # NoView /\ required <= view'.rev
  <2>0. /\ view \in Snapshots \cup {NoView}
        /\ view # NoView => view.rev \in Nat /\ first <= view.rev /\ view.rev <= rev
    BY Bounds DEF FInv, TypeOK, Behind
  <2>1. CASE fetch[f].at # "served"
    BY <2>0, <2>1 DEF Recovered
  <2>2. CASE fetch[f].at = "served"
    <3> DEFINE r == fetch[f].reply
    <3>1. /\ r \in Snapshots /\ r.rev \in Nat /\ r # NoView
          /\ first <= r.rev /\ r.rev <= rev /\ Install(r)
      BY <2>2, NoViewAssumption DEF Recovered, FInv, Behind, Snapshots
    <3> HIDE DEF r
    <3>2. CASE r.rev < required
      BY <2>0, <3>1, <3>2 DEF Install
    <3>3. CASE ~(r.rev < required)
      <4>1. /\ unavailable' = FALSE /\ required' = 0
            /\ view' = IF view # NoView /\ r.rev < view.rev THEN view ELSE r
        BY <3>1, <3>3 DEF Install
      <4>2. required <= r.rev
        BY <3>1, <3>3, Bounds
      <4>3. CASE view # NoView /\ r.rev < view.rev
        BY <2>0, <3>1, <4>1, <4>2, <4>3, Bounds
      <4>4. CASE ~(view # NoView /\ r.rev < view.rev)
        BY <2>0, <3>1, <4>1, <4>2, <4>4, Bounds
      <4> QED
        BY <4>3, <4>4
    <3> QED
      BY <3>2, <3>3
  <2> QED
    BY <2>1, <2>2
<1>3. LastRevision' \in Nat /\ LastRevision <= LastRevision'
  <2>1. view' # NoView => view'.rev \in Nat
    BY <1>2 DEF Snapshots
  <2> QED
    BY <1>2, <2>1, Bounds DEF LastRevision
<1>4. required' = required \/ (required' = 0 /\ required <= LastRevision')
  BY <1>2 DEF LastRevision
<1>5. \/ UNCHANGED <<conn, after, stream, read>>
      \/ /\ conn' = "connecting" /\ read' = 0 /\ stream' = <<>>
         /\ view' # NoView /\ after' = LastRevision'
  <2>1. Reconnect(f)
    BY DEF Recovered
  <2>2. CASE Connects(f)
    <3>1. view' # NoView
      BY <1>2, <2>2 DEF Connects, FInv, Behind
    <3> QED
      BY <2>1, <2>2, <3>1 DEF Reconnect, LastRevision
  <2>3. CASE ~Connects(f)
    BY <2>1, <2>3 DEF Reconnect
  <2> QED
    BY <2>2, <2>3
<1>6. unavailable' \in BOOLEAN
  BY Zenon DEF Recovered, Install
<1> QED
  BY <1>1, <1>2, <1>3, <1>4, <1>5, <1>6

(* The steps of the client that leave the feed alone, but for a lost socket. *)
LEMMA ClientFacts ==
  ASSUME IInv, FInv, NEW f \in Fetches,
         Serve(f) \/ FetchFails(f) \/ UserRecovers(f) \/ OnClose(f)
  PROVE  /\ UNCHANGED <<store, after, snap, history, buffered, stream, drops,
                        view, required, unavailable, read>>
         /\ loading' \in BOOLEAN
         /\ conn' = conn \/ (conn = "lost" /\ conn' = "retrying")
  BY DEF Serve, FetchFails, UserRecovers, OnClose, Recover, FInv, TypeOK, feed, socket

LEMMA MessageFacts ==
  ASSUME IInv, FInv, NEW f \in Fetches, OnMessage(f)
  PROVE  /\ UNCHANGED feed /\ UNCHANGED view
         /\ conn = "live" /\ read < Len(stream) /\ read' = read + 1
         /\ Message \in Nat /\ required' \in Nat /\ required <= required'
         /\ Message <= LastRevision \/ Message <= required'
         /\ loading' \in BOOLEAN /\ unavailable' \in BOOLEAN
         /\ fetch' = fetch \/ fetch' = [fetch EXCEPT ![f] = Asked(FALSE)]
<1>1. Message \in Nat
  BY Bounds, ElementOfSeq DEF OnMessage, Message
<1>2. LastRevision \in Nat /\ required \in Nat
  BY Bounds
<1>3. ~News \/ Message = SnapshotRequired => Message <= LastRevision
  BY <1>1, <1>2 DEF News, SnapshotRequired
<1>4. loading' \in BOOLEAN /\ unavailable' \in BOOLEAN
  BY Zenon DEF OnMessage, Recover, FInv, TypeOK
<1>5. fetch' = fetch \/ fetch' = [fetch EXCEPT ![f] = Asked(FALSE)]
  BY DEF OnMessage, Recover
<1>6. /\ required' \in Nat /\ required <= required'
      /\ Message <= LastRevision \/ Message <= required'
  <2>1. CASE required' = required /\ (~News \/ Message = SnapshotRequired)
    BY <1>2, <1>3, <2>1
  <2>2. CASE required' = IF required > Message THEN required ELSE Message
    BY <1>1, <1>2, <2>2
  <2> QED
    BY <2>1, <2>2 DEF OnMessage
<1> QED
  BY <1>1, <1>4, <1>5, <1>6 DEF OnMessage

(* How a further call changes the calls.                                     *)
LEMMA FetchFacts ==
  ASSUME IInv, FInv, NEW f \in Fetches, ClientStep(f) \/ UserRecovers(f)
  PROVE  /\ fetch' \in [Fetches -> Calls]
         /\ \A g \in Fetches :
              /\ fetch'[g].at = "served" =>
                   \/ fetch'[g].reply = fetch[g].reply /\ fetch[g].at = "served"
                   \/ fetch'[g].reply = Current
              /\ fetch'[g].reconnects => fetch[g].reconnects \/ conn # "none"
<1>0. fetch \in [Fetches -> Calls]
  BY DEF FInv, TypeOK
<1>1. /\ Idle \in Calls /\ Idle.at = "idle" /\ Idle.reconnects = FALSE
      /\ \A r \in BOOLEAN : /\ Asked(r) \in Calls /\ Asked(r).at = "asked"
                            /\ Asked(r).reconnects = r
  BY DEF Idle, Asked, Calls
<1>2. Current \in Snapshots
  BY DEF FInv, TypeOK, FeedTypeOK, Current, Snapshots
<1>3. CASE fetch' = fetch
  BY <1>0, <1>3
<1>4. CASE fetch' = [fetch EXCEPT ![f] = Idle] \/ fetch' = [fetch EXCEPT ![f] = Asked(FALSE)]
  <2>1. fetch'[f] \in {Idle, Asked(FALSE)}
    BY <1>0, <1>4
  <2> QED
    BY <1>0, <1>1, <1>4, <2>1
<1>5. CASE OnClose(f)
  <2>1. fetch' = [fetch EXCEPT ![f] = Asked(TRUE)] /\ conn # "none"
    BY <1>5 DEF OnClose, Recover
  <2> QED
    BY <1>0, <1>1, <2>1
<1>6. CASE Serve(f)
  <2> DEFINE n == [at |-> "served", reply |-> Current, reconnects |-> fetch[f].reconnects]
  <2>1. fetch' = [fetch EXCEPT ![f] = n]
    BY <1>6 DEF Serve
  <2>2. n \in Calls /\ n.reply = Current /\ n.reconnects = fetch[f].reconnects
    BY <1>0, <1>2 DEF Calls
  <2> HIDE DEF n
  <2> QED
    BY <1>0, <2>1, <2>2
<1>7. CASE FetchFails(f)
  BY <1>0, <1>7 DEF FetchFails, Calls
<1> QED
  BY <1>3, <1>4, <1>5, <1>6, <1>7, MessageFacts DEF ClientStep, UserRecovers, Recover, Recovered

(* What a socket has sent once it is live: the history, then what the buffer *)
(* adds to it.                                                               *)
LEMMA FlushSends ==
  ASSUME FInv, conn = "answered"
  PROVE  LET s == history \o BufferedNew IN
         /\ s \in Seq(Nat) /\ Rising(s) /\ Range(s) \subseteq 0 .. emitted
         /\ SnapshotRequired \notin Range(s) => Range(s) = after + 1 .. emitted
         /\ SnapshotRequired \in Range(s) \/ after <= emitted
         /\ \A e \in snap .. emitted : e > after => e \in Range(s)
<1> DEFINE E == {e \in Range(buffered) : e > after /\ ~Contains(history, e)}
           New(t) == t \in Seq(Nat) /\ Range(t) = E /\ Rising(t)
<1>1. \A e : Contains(history, e) <=> e \in Range(history)
  BY Bounds, RangeEquality DEF Contains
<1>2. PICK b \in Nat : /\ b <= snap /\ snap <= b + 1 /\ b <= emitted
                       /\ Range(buffered) = b + 1 .. emitted
  BY DEF FInv, Buffers
<1>3. after <= snap
  BY DEF FInv, Asks, Open
<1>4. ASSUME NEW m \in Nat, E = m + 1 .. emitted
      PROVE  New(BufferedNew)
  <2> DEFINE n == IF m <= emitted THEN emitted - m ELSE 0
  <2>1. n \in Nat /\ E = m + 1 .. m + n
    BY <1>4, Bounds
  <2> HIDE DEF n, E
  <2>2. InOrder(m + 1 .. m + n) \in Seq(Nat) /\ Range(InOrder(m + 1 .. m + n)) = m + 1 .. m + n
        /\ Rising(InOrder(m + 1 .. m + n))
    BY <2>1, IntervalInOrder
  <2>3. BufferedNew = InOrder(E)
    BY DEF BufferedNew, E
  <2> QED
    BY <2>1, <2>2, <2>3
<1>5. CASE snap <= emitted /\ history = [i \in 1 .. snap - after |-> after + i]
  <2>2. history \in Seq(Nat) /\ Range(history) = after + 1 .. snap /\ Rising(history)
    <3> DEFINE n == snap - after
    <3>1. n \in Nat /\ after + n = snap
      BY <1>3, Bounds
    <3>2. history = [i \in 1 .. n |-> after + i]
      BY <1>5
    <3> HIDE DEF n
    <3>3. /\ history \in Seq(Nat) /\ Range(history) = after + 1 .. after + n
          /\ Rising(history)
      BY <3>1, <3>2, Bounds, RunOfEvents
    <3> QED
      BY <3>1, <3>3
  <2>3. E = snap + 1 .. emitted
    <3>1. ASSUME NEW e \in E PROVE e \in snap + 1 .. emitted
      <4>1. e \in b + 1 .. emitted /\ e > after /\ e \notin after + 1 .. snap
        BY <1>1, <1>2, <2>2
      <4> QED
        BY <4>1, Bounds
    <3>2. ASSUME NEW e \in snap + 1 .. emitted PROVE e \in E
      <4>1. e \in b + 1 .. emitted /\ e > after /\ e \notin after + 1 .. snap
        BY <1>2, <1>3, Bounds
      <4> QED
        BY <1>1, <1>2, <2>2, <4>1
    <3> QED
      BY <3>1, <3>2
  <2>4. New(BufferedNew)
    BY <1>4, <2>3, Bounds
  <2> DEFINE t == BufferedNew
             s == history \o t
  <2> HIDE DEF t, E
  <2>5. t \in Seq(Nat) /\ Range(t) = snap + 1 .. emitted /\ Rising(t)
    BY <2>3, <2>4 DEF t
  <2>6. s \in Seq(Nat) /\ Range(s) = Range(history) \cup Range(t)
    BY <2>2, <2>5, ConcatProperties, RangeConcatenation
  <2>7. Rising(s)
    <3>1. \A x \in Range(history), y \in Range(t) : x < y
      BY <2>2, <2>5, Bounds
    <3> QED
      BY <2>2, <2>5, <3>1, ConcatRising
  <2> HIDE DEF s
  <2>8. Range(s) = after + 1 .. emitted
    BY <1>3, <1>5, <2>2, <2>5, <2>6, Bounds
  <2>9. /\ Range(s) \subseteq 0 .. emitted
        /\ \A e \in snap .. emitted : e > after => e \in Range(s)
    BY <2>8, Bounds
  <2>10. after <= emitted
    BY <1>3, <1>5, Bounds
  <2> QED
    BY <2>6, <2>7, <2>8, <2>9, <2>10 DEF s, t
<1>6. CASE history = <<SnapshotRequired>> /\ Range(buffered) = snap .. emitted /\ snap > 0
  <2> DEFINE m == IF after = snap THEN snap ELSE snap - 1
  <2>1. history \in Seq(Nat) /\ Len(history) = 1 /\ history[1] = 0
    BY <1>6 DEF SnapshotRequired
  <2>2. Range(history) = {0}
    BY <2>1, RangeEquality
  <2>3. Rising(history)
    BY <2>1 DEF Rising
  <2>4. m \in Nat /\ E = m + 1 .. emitted
    <3>1. m \in Nat
      BY <1>6, Bounds
    <3>2. ASSUME NEW e \in E PROVE e \in m + 1 .. emitted
      <4>1. e \in snap .. emitted /\ e > after
        BY <1>6
      <4> QED
        BY <1>3, <4>1, Bounds
    <3>3. ASSUME NEW e \in m + 1 .. emitted PROVE e \in E
      <4>1. e \in snap .. emitted /\ e > after /\ e # 0
        BY <1>3, <1>6, Bounds
      <4> QED
        BY <1>1, <1>6, <2>2, <4>1
    <3> HIDE DEF m, E
    <3> QED
      BY <3>1, <3>2, <3>3
  <2>5. New(BufferedNew)
    BY <1>4, <2>4
  <2> DEFINE t == BufferedNew
             s == history \o t
  <2>0. \A e \in snap .. emitted : e > after => e \in m + 1 .. emitted
    BY <1>3, Bounds
  <2> HIDE DEF t, E, m
  <2>6. t \in Seq(Nat) /\ Range(t) = m + 1 .. emitted /\ Rising(t)
    BY <2>4, <2>5 DEF t
  <2>7. s \in Seq(Nat) /\ Range(s) = {0} \cup Range(t)
    <3>1. history \in Seq(Nat) /\ t \in Seq(Nat)
      BY <2>1, <2>6
    <3>2. s \in Seq(Nat) /\ Range(s) = Range(history) \cup Range(t)
      BY <3>1, ConcatProperties, RangeConcatenation
    <3> HIDE DEF s
    <3> QED
      BY <2>2, <3>2
  <2>8. Rising(s)
    <3>1. \A x \in Range(history), y \in Range(t) : x < y
      BY <2>2, <2>4, <2>6, Bounds
    <3> QED
      BY <2>1, <2>3, <2>6, <3>1, ConcatRising
  <2> HIDE DEF s
  <2>9. /\ Range(s) \subseteq 0 .. emitted /\ SnapshotRequired \in Range(s)
        /\ \A e \in snap .. emitted : e > after => e \in Range(s)
    BY <2>0, <2>4, <2>6, <2>7, Bounds DEF SnapshotRequired
  <2> QED
    BY <2>7, <2>8, <2>9 DEF s, t
<1> QED
  BY <1>5, <1>6 DEF FInv, Answers

(* An emission, whose event is the next one.                                 *)
LEMMA EmitFacts ==
  ASSUME FInv, Emit
  PROVE  /\ emitted' = emitted + 1 /\ emitted' = rev
         /\ UNCHANGED <<first, rev, latched, conn, after, snap, history, drops>>
         /\ buffered' \in Seq(Nat) /\ stream' \in Seq(Nat)
         /\ \/ conn \in {"asking", "answered"} /\ Range(buffered') = Range(buffered) \cup {emitted'}
            \/ conn \notin {"asking", "answered"} /\ buffered' = buffered
         /\ \/ conn = "live" /\ stream' = Append(stream, emitted')
               /\ Range(stream') = Range(stream) \cup {emitted'}
            \/ conn # "live" /\ stream' = stream
<1>1. /\ emitted' = emitted + 1 /\ emitted' = rev
      /\ UNCHANGED <<first, rev, latched, conn, after, snap, history, drops>>
      /\ Notify(rev)
  BY Bounds DEF Emit
<1>2. /\ buffered' = IF conn \in {"asking", "answered"} THEN Append(buffered, rev) ELSE buffered
      /\ stream' = IF conn = "live" THEN Append(stream, rev) ELSE stream
  BY <1>1 DEF Notify
<1>3. /\ Append(buffered, rev) \in Seq(Nat)
      /\ Range(Append(buffered, rev)) = Range(buffered) \cup {rev}
      /\ Append(stream, rev) \in Seq(Nat)
      /\ Range(Append(stream, rev)) = Range(stream) \cup {rev}
  BY Bounds, AppendRange
<1>4. /\ buffered' \in Seq(Nat) /\ stream' \in Seq(Nat)
  BY <1>2, <1>3, Bounds
<1> QED
  BY <1>1, <1>2, <1>3, <1>4

LEMMA TypeStep == ASSUME IInv, FInv, CockpitNext PROVE TypeOK'
<1>1. ASSUME FeedStep, UNCHANGED client PROVE TypeOK'
  <2>0. UNCHANGED <<view, required, loading, unavailable, fetch, read>>
    BY <1>1 DEF client
  <2>1. ASSUME FeedTypeOK', read \in 0 .. Len(stream') PROVE TypeOK'
    BY <2>0, <2>1 DEF FInv, TypeOK
  <2>2. CASE Publish
    <3>1. rev' \in Nat /\ rev' = emitted' + 1 /\ first' <= emitted'
      BY <2>2, Bounds DEF Publish
    <3>3. latched' \in BOOLEAN
      BY <2>2, Zenon DEF Publish
    <3>4. UNCHANGED <<first, emitted, conn, after, snap, history, buffered, stream, drops>>
      BY <2>2 DEF Publish, socket
    <3>5. rev' <= emitted' + 1 /\ emitted' <= rev'
      BY <2>2, Bounds DEF Publish
    <3>2. FeedTypeOK'
      BY <3>1, <3>3, <3>4, <3>5 DEF FInv, TypeOK, FeedTypeOK
    <3> QED
      BY <2>1, <2>2, <3>2 DEF Publish, socket, FInv, TypeOK
  <2>3. CASE Latch
    BY <2>1, <2>3 DEF Latch, FInv, TypeOK, FeedTypeOK, socket
  <2>4. CASE Emit
    <3>1. FeedTypeOK'
      BY <2>4, EmitFacts, Bounds DEF FInv, TypeOK, FeedTypeOK
    <3>2. read \in 0 .. Len(stream')
      <4>1. Len(Append(stream, emitted')) = Len(stream) + 1
        BY <2>4, EmitFacts, Bounds, AppendProperties
      <4> QED
        BY <2>4, <4>1, EmitFacts, Bounds
    <3> QED
      BY <2>1, <3>1, <3>2
  <2>5. CASE Upgrade
    BY <2>0, <2>1, <2>5 DEF Upgrade, FInv, TypeOK, FeedTypeOK, store, Asks, Open
  <2>6. CASE Answer
    <3>1. History \in Seq(Nat)
      <4>1. CASE after <= snap /\ first <= after /\ snap <= emitted
        <5> DEFINE n == snap - after
        <5>1. n \in Nat
          BY <4>1, Bounds
        <5>2. History = [i \in 1 .. n |-> after + i]
          BY <4>1 DEF History
        <5> HIDE DEF n
        <5> QED
          BY <5>1, <5>2, Bounds, RunOfEvents
      <4> QED
        BY <4>1 DEF History, SnapshotRequired
    <3>2. FeedTypeOK'
      BY <2>6, <3>1 DEF Answer, FInv, TypeOK, FeedTypeOK, store
    <3> QED
      BY <2>1, <2>6, <3>2 DEF Answer, FInv, TypeOK
  <2>7. CASE Flush
    <3>1. stream' \in Seq(Nat) /\ read = 0
      BY <2>7, FlushSends DEF Flush, FInv, Asks, Open
    <3>2. FeedTypeOK'
      BY <2>7, <3>1 DEF Flush, FInv, TypeOK, FeedTypeOK, store
    <3> QED
      BY <2>1, <3>1, <3>2, LenProperties
  <2>8. CASE Drop
    <3>1. drops' \in 0 .. MaxDrops
      BY <2>8, BoundsAssumption DEF Drop, FInv, TypeOK, FeedTypeOK
    <3> QED
      BY <2>1, <2>8, <3>1 DEF Drop, FInv, TypeOK, FeedTypeOK, store
  <2> QED
    BY <1>1, <2>2, <2>3, <2>4, <2>5, <2>6, <2>7, <2>8 DEF FeedStep
<1>2. ASSUME NEW f \in Fetches, ClientStep(f) \/ UserRecovers(f) PROVE TypeOK'
  <2>1. fetch' \in [Fetches -> Calls]
    BY <1>2, FetchFacts
  <2>2. CASE Serve(f) \/ FetchFails(f) \/ UserRecovers(f) \/ OnClose(f)
    BY <2>1, <2>2, ClientFacts DEF FInv, TypeOK, FeedTypeOK, store
  <2>3. CASE OnMessage(f)
    <3>1. read' \in 0 .. Len(stream)
      <4>1. read' = read + 1 /\ read < Len(stream)
        BY <2>3, MessageFacts
      <4> QED
        BY <4>1, Bounds
    <3> QED
      BY <2>1, <2>3, <3>1, MessageFacts DEF FInv, TypeOK, FeedTypeOK, feed, store, socket
  <2>4. CASE Recovered(f)
    <3>1. required' \in Nat /\ after' \in Nat /\ stream' \in Seq(Nat) /\ read' \in 0 .. Len(stream')
      <4>0. required' \in Nat
        <5>1. required' = required \/ required' = 0
          BY <2>4, RecoveredFacts
        <5> QED
          BY <5>1, Bounds
      <4>1. CASE UNCHANGED <<conn, after, stream, read>>
        BY <4>0, <4>1, Bounds
      <4>2. CASE read' = 0 /\ stream' = <<>> /\ after' = LastRevision'
        <5>1. LastRevision' \in Nat
          BY <2>4, RecoveredFacts
        <5>2. stream' \in Seq(Nat) /\ read' \in 0 .. Len(stream')
          BY <4>2
        <5> HIDE DEF LastRevision
        <5> QED
          BY <4>0, <4>2, <5>1, <5>2
      <4> QED
        BY <2>4, <4>1, <4>2, RecoveredFacts
    <3>2. FeedTypeOK'
      BY <2>4, <3>1, RecoveredFacts DEF FInv, TypeOK, FeedTypeOK
    <3> QED
      BY <2>1, <2>4, <3>1, <3>2, RecoveredFacts DEF TypeOK
  <2> QED
    BY <1>2, <2>2, <2>3, <2>4 DEF ClientStep
<1> QED
  BY <1>1, <1>2 DEF CockpitNext

(* What a step of the feed leaves alone.                                     *)
LEMMA FeedFacts ==
  ASSUME IInv, FInv, FeedStep, UNCHANGED client
  PROVE  /\ UNCHANGED <<first, view, required, loading, unavailable, fetch, read, after>>
         /\ LastRevision' = LastRevision
         /\ rev' \in Nat /\ rev <= rev' /\ emitted' \in Nat /\ emitted <= emitted'
         /\ conn' = "none" <=> conn = "none"
         /\ conn' = "connecting" => conn = "connecting"
         /\ conn' \in Open => conn \in Open
<1>1. UNCHANGED <<first, view, required, loading, unavailable, fetch, read, after>>
  BY DEF client, FeedStep, Publish, Latch, Emit, Upgrade, Answer, Flush, Drop, store, socket
<1>2. rev' \in Nat /\ rev <= rev' /\ emitted' \in Nat /\ emitted <= emitted'
  BY Bounds DEF FeedStep, Publish, Latch, Emit, Upgrade, Answer, Flush, Drop, store, socket
<1>3. /\ conn' = "none" <=> conn = "none"
      /\ conn' = "connecting" => conn = "connecting"
      /\ conn' \in Open => conn \in Open
  BY DEF FeedStep, Publish, Latch, Emit, Upgrade, Answer, Flush, Drop, store, socket, Open
<1> QED
  BY <1>1, <1>2, <1>3 DEF LastRevision

LEMMA BehindStep == ASSUME IInv, FInv, CockpitNext PROVE Behind'
<1>1. ASSUME FeedStep, UNCHANGED client PROVE Behind'
  <2>1. ASSUME NEW r \in Snapshots, r.rev <= rev PROVE r.rev <= rev'
    BY <1>1, <2>1, FeedFacts, Bounds DEF Snapshots
  <2>2. view # NoView => view \in Snapshots
    BY DEF FInv, TypeOK
  <2> QED
    BY <1>1, <2>1, <2>2, FeedFacts DEF FInv, Behind
<1>2. ASSUME NEW f \in Fetches, ClientStep(f) \/ UserRecovers(f) PROVE Behind'
  <2>1. UNCHANGED <<first, rev>>
    BY <1>2, ClientFacts, MessageFacts, RecoveredFacts DEF ClientStep, feed, store
  <2>2. /\ view' # NoView => first <= view'.rev /\ view'.rev <= rev
        /\ view # NoView => view' # NoView
    BY <1>2, ClientFacts, MessageFacts, RecoveredFacts DEF ClientStep, FInv, Behind
  <2>3. conn' # "none" => conn # "none" \/ view' # NoView
    BY <1>2, ClientFacts, MessageFacts, RecoveredFacts DEF ClientStep, feed, socket
  <2>4. Current \in Snapshots /\ Current.rev = rev /\ first <= rev /\ rev <= rev
    BY Bounds DEF Current, Snapshots, FInv, TypeOK, FeedTypeOK
  <2>5. \A g \in Fetches : fetch'[g].at = "served" =>
          fetch'[g].reply \in Snapshots
          /\ first <= fetch'[g].reply.rev /\ fetch'[g].reply.rev <= rev
    BY <1>2, <2>4, FetchFacts DEF FInv, Behind
  <2>6. \A g \in Fetches : fetch'[g].reconnects => view' # NoView
    BY <1>2, <2>2, FetchFacts DEF FInv, Behind
  <2> QED
    BY <2>1, <2>2, <2>3, <2>5, <2>6 DEF FInv, Behind
<1> QED
  BY <1>1, <1>2 DEF CockpitNext

LEMMA AsksStep == ASSUME IInv, FInv, CockpitNext PROVE Asks'
<1>1. ASSUME FeedStep, UNCHANGED client PROVE Asks'
  <2>1. conn' \in Open => first' <= after' /\ after' <= LastRevision'
    BY <1>1, FeedFacts DEF FInv, Asks
  <2>2. conn' \in Open \ {"connecting"} => after' <= snap' /\ snap' <= rev'
    <3>1. CASE Upgrade
      <4>1. view # NoView /\ first <= after /\ after <= LastRevision /\ LastRevision <= rev
        BY <3>1 DEF Upgrade, FInv, Asks, Behind, Open, LastRevision
      <4> QED
        BY <3>1, <4>1, Bounds DEF Upgrade, store
    <3>2. CASE ~Upgrade
      <4>1. snap' = snap /\ (conn' \in Open \ {"connecting"} => conn \in Open \ {"connecting"})
        BY <1>1, <3>2 DEF FeedStep, Publish, Latch, Emit, Answer, Flush, Drop, socket, Open
      <4> QED
        BY <1>1, <4>1, FeedFacts, Bounds DEF FInv, Asks
    <3> QED
      BY <3>1, <3>2
  <2>3. conn' \in Open \ {"live"} => stream' = <<>> /\ read' = 0
    BY <1>1, FeedFacts, EmitFacts
      DEF FInv, Asks, FeedStep, Publish, Latch, Upgrade, Answer, Flush, Drop, socket, Open
  <2> QED
    BY <2>1, <2>2, <2>3 DEF Asks
<1>2. ASSUME NEW f \in Fetches, ClientStep(f) \/ UserRecovers(f) PROVE Asks'
  <2>1. CASE Serve(f) \/ FetchFails(f) \/ UserRecovers(f) \/ OnClose(f)
    BY <2>1, ClientFacts DEF FInv, Asks, Open, store, LastRevision
  <2>2. CASE OnMessage(f)
    BY <2>2, MessageFacts DEF FInv, Asks, Open, feed, store, socket, LastRevision
  <2>3. CASE Recovered(f)
    <3>1. CASE UNCHANGED <<conn, after, stream, read>>
      <4>1. LastRevision' \in Nat /\ LastRevision <= LastRevision'
            /\ UNCHANGED <<first, rev, snap>>
        BY <2>3, RecoveredFacts
      <4>2. conn' = conn /\ after' = after /\ stream' = stream /\ read' = read
        BY <3>1
      <4>3. Asks /\ LastRevision \in Nat /\ after \in Nat
        BY Bounds DEF FInv
      <4>4. conn \in Open => after <= LastRevision'
        BY <4>1, <4>3 DEF Asks
      <4> QED
        BY <4>1, <4>2, <4>3, <4>4 DEF Asks, Open
    <3>2. CASE conn' = "connecting" /\ read' = 0 /\ stream' = <<>>
               /\ view' # NoView /\ after' = LastRevision'
      <4>1. first' <= after'
        BY <2>3, <3>2, RecoveredFacts DEF LastRevision
      <4>2. LastRevision' \in Nat
        BY <2>3, RecoveredFacts
      <4>3. after' <= LastRevision'
        BY <3>2, <4>2
      <4> QED
        BY <3>2, <4>1, <4>3 DEF Asks, Open
    <3> QED
      BY <2>3, <3>1, <3>2, RecoveredFacts
  <2> QED
    BY <1>2, <2>1, <2>2, <2>3 DEF ClientStep
<1> QED
  BY <1>1, <1>2 DEF CockpitNext

(* A run of events grows by the next one.                                    *)
LEMMA NextEvent ==
  ASSUME NEW a \in Nat, NEW n \in Nat, a <= n + 1
  PROVE  (a .. n) \cup {n + 1} = a .. n + 1
  OBVIOUS

LEMMA BuffersStep == ASSUME IInv, FInv, CockpitNext PROVE Buffers'
<1>1. ASSUME FeedStep, UNCHANGED client PROVE Buffers'
  <2>1. CASE Emit
    <3>1. SUFFICES ASSUME conn \in {"asking", "answered"}
                   PROVE  \E b \in Nat : /\ b <= snap /\ snap <= b + 1 /\ b <= emitted'
                                         /\ Range(buffered') = b + 1 .. emitted'
      BY <2>1, EmitFacts DEF Buffers
    <3>2. PICK b \in Nat : /\ b <= snap /\ snap <= b + 1 /\ b <= emitted
                           /\ Range(buffered) = b + 1 .. emitted
      BY <3>1 DEF FInv, Buffers
    <3>3. Range(buffered') = Range(buffered) \cup {emitted'} /\ emitted' = emitted + 1
      BY <2>1, <3>1, EmitFacts
    <3>4. b <= emitted' /\ Range(buffered') = b + 1 .. emitted'
      <4>1. (b + 1 .. emitted) \cup {emitted + 1} = b + 1 .. emitted + 1
        <5>1. b + 1 \in Nat /\ b + 1 <= emitted + 1
          BY <3>2, Bounds
        <5> QED
          BY <5>1, Bounds, NextEvent
      <4> QED
        BY <3>2, <3>3, <4>1, Bounds
    <3> QED
      BY <3>2, <3>4
  <2>2. CASE Upgrade
    <3>1. buffered' = <<>> /\ snap' = rev /\ emitted' = emitted
      BY <2>2 DEF Upgrade, store
    <3>2. Range(buffered') = {}
      BY <3>1 DEF Range
    <3>3. emitted <= snap' /\ snap' <= emitted + 1 /\ emitted \in Nat
          /\ Range(buffered') = emitted + 1 .. emitted
      <4>1. emitted + 1 .. emitted = {}
        BY Bounds
      <4> QED
        BY <3>1, <3>2, <4>1, Bounds
    <3> QED
      BY <3>1, <3>3 DEF Buffers
  <2>3. CASE Publish \/ Latch \/ Answer \/ Flush \/ Drop
    <3>1. /\ UNCHANGED <<snap, emitted, buffered>>
          /\ conn' \in {"asking", "answered"} => conn \in {"asking", "answered"}
      BY <2>3 DEF Publish, Latch, Answer, Flush, Drop, store, socket
    <3> QED
      BY <3>1 DEF FInv, Buffers
  <2> QED
    BY <1>1, <2>1, <2>2, <2>3 DEF FeedStep
<1>2. ASSUME NEW f \in Fetches, ClientStep(f) \/ UserRecovers(f) PROVE Buffers'
  <2>1. /\ UNCHANGED <<snap, emitted, buffered>>
        /\ conn' \in {"asking", "answered"} => conn \in {"asking", "answered"}
    <3>1. CASE Serve(f) \/ FetchFails(f) \/ UserRecovers(f) \/ OnClose(f)
      BY <3>1, ClientFacts DEF store
    <3>2. CASE OnMessage(f)
      BY <3>2, MessageFacts DEF feed, store, socket
    <3>3. CASE Recovered(f)
      BY <3>3, RecoveredFacts
    <3> QED
      BY <1>2, <3>1, <3>2, <3>3 DEF ClientStep
  <2> QED
    BY <2>1 DEF FInv, Buffers
<1> QED
  BY <1>1, <1>2 DEF CockpitNext

LEMMA AnswersStep == ASSUME IInv, FInv, CockpitNext PROVE Answers'
<1>1. ASSUME FeedStep, UNCHANGED client PROVE Answers'
  <2>1. CASE Emit
    <3>1. SUFFICES ASSUME conn = "answered"
                   PROVE  \/ snap <= emitted' /\ history = [i \in 1 .. snap - after |-> after + i]
                          \/ /\ history = <<SnapshotRequired>>
                             /\ Range(buffered') = snap .. emitted' /\ snap > 0
      BY <2>1, EmitFacts DEF Answers
    <3>2. Range(buffered') = Range(buffered) \cup {emitted'} /\ emitted' = emitted + 1
      BY <2>1, <3>1, EmitFacts
    <3>3. snap <= emitted'
      BY <2>1, <3>1, <3>2, EmitFacts, Bounds DEF FInv, Asks, Open
    <3>4. Range(buffered) = snap .. emitted => Range(buffered') = snap .. emitted'
      <4>1. (snap .. emitted) \cup {emitted + 1} = snap .. emitted + 1
        BY <3>2, <3>3, Bounds, NextEvent
      <4> QED
        BY <3>2, <4>1
    <3> QED
      BY <3>1, <3>3, <3>4 DEF FInv, Answers
  <2>2. CASE Answer
    <3>1. /\ conn = "asking" /\ history' = History
          /\ UNCHANGED <<snap, after, emitted, buffered>>
      BY <2>2 DEF Answer, store
    <3>2. after <= snap /\ first <= after
      BY <3>1 DEF FInv, Asks, Open
    <3>3. CASE snap <= emitted
      BY <3>1, <3>2, <3>3 DEF History, Answers
    <3>4. CASE ~(snap <= emitted)
      <4>1. PICK b \in Nat : /\ b <= snap /\ snap <= b + 1 /\ b <= emitted
                             /\ Range(buffered) = b + 1 .. emitted
        BY <3>1 DEF FInv, Buffers
      <4>2. snap = b + 1
        BY <3>4, <4>1, Bounds
      <4>3. Range(buffered) = snap .. emitted /\ snap > 0
        BY <4>1, <4>2
      <4> QED
        BY <3>1, <3>2, <3>4, <4>3 DEF History, Answers
    <3> QED
      BY <3>3, <3>4
  <2>3. CASE Publish \/ Latch \/ Upgrade \/ Flush \/ Drop
    <3>1. conn' = "answered" =>
            conn = "answered" /\ UNCHANGED <<snap, after, emitted, buffered, history>>
      BY <2>3 DEF Publish, Latch, Upgrade, Flush, Drop, store, socket
    <3> QED
      BY <3>1 DEF FInv, Answers
  <2> QED
    BY <1>1, <2>1, <2>2, <2>3 DEF FeedStep
<1>2. ASSUME NEW f \in Fetches, ClientStep(f) \/ UserRecovers(f) PROVE Answers'
  <2>1. conn' = "answered" =>
          conn = "answered" /\ UNCHANGED <<snap, after, emitted, buffered, history>>
    <3>1. CASE Serve(f) \/ FetchFails(f) \/ UserRecovers(f) \/ OnClose(f)
      BY <3>1, ClientFacts DEF store
    <3>2. CASE OnMessage(f)
      BY <3>2, MessageFacts DEF feed, store, socket
    <3>3. CASE Recovered(f)
      BY <3>3, RecoveredFacts
    <3> QED
      BY <1>2, <3>1, <3>2, <3>3 DEF ClientStep
  <2> QED
    BY <2>1 DEF FInv, Answers
<1> QED
  BY <1>1, <1>2 DEF CockpitNext

LEMMA SendsStep == ASSUME IInv, FInv, CockpitNext PROVE Sends'
<1>1. ASSUME FeedStep, UNCHANGED client PROVE Sends'
  <2>1. CASE Emit /\ conn = "live"
    <3>1. /\ emitted' = emitted + 1 /\ UNCHANGED <<conn, after, snap>>
          /\ stream' = Append(stream, emitted')
          /\ Range(stream') = Range(stream) \cup {emitted'}
      BY <2>1, EmitFacts
    <3>2. /\ Rising(stream)
          /\ SnapshotRequired \notin Range(stream) => Range(stream) = after + 1 .. emitted
          /\ \A e \in snap .. emitted : e > after => e \in Range(stream)
          /\ Range(stream) \subseteq 0 .. emitted
          /\ SnapshotRequired \in Range(stream) \/ after <= emitted
      BY <2>1 DEF FInv, Sends, FeedComplete, Rising
    <3>3. Rising(stream')
      <4>1. \A x \in Range(stream) : x < emitted'
        BY <3>1, <3>2, Bounds
      <4> QED
        BY <3>1, <3>2, <4>1, Bounds, AppendRising
    <3>4. /\ Range(stream') \subseteq 0 .. emitted'
          /\ SnapshotRequired \in Range(stream') \/ after <= emitted'
      BY <3>1, <3>2, Bounds
    <3>5. SnapshotRequired \notin Range(stream') => Range(stream') = after + 1 .. emitted'
      <4>1. SUFFICES ASSUME SnapshotRequired \notin Range(stream)
                     PROVE  Range(stream') = after + 1 .. emitted'
        BY <3>1
      <4>2. after + 1 <= emitted + 1 /\ after + 1 \in Nat
        BY <3>2, <4>1, Bounds
      <4>3. (after + 1 .. emitted) \cup {emitted + 1} = after + 1 .. emitted + 1
        BY <4>2, Bounds, NextEvent
      <4> QED
        BY <3>1, <3>2, <4>1, <4>3
    <3>6. \A e \in snap .. emitted' : e > after => e \in Range(stream')
      BY <3>1, <3>2, Bounds
    <3> QED
      BY <3>1, <3>3, <3>4, <3>5, <3>6 DEF Sends, FeedComplete, Rising
  <2>2. CASE Flush
    <3>1. /\ conn = "answered" /\ stream' = history \o BufferedNew
          /\ UNCHANGED <<after, snap, emitted>>
      BY <2>2 DEF Flush, store
    <3>2. /\ Rising(stream') /\ Range(stream') \subseteq 0 .. emitted
          /\ SnapshotRequired \notin Range(stream') => Range(stream') = after + 1 .. emitted
          /\ SnapshotRequired \in Range(stream') \/ after <= emitted
          /\ \A e \in snap .. emitted : e > after => e \in Range(stream')
      BY <3>1, FlushSends
    <3> QED
      BY <3>1, <3>2 DEF Sends, FeedComplete, Rising
  <2>3. CASE Emit /\ conn # "live"
    BY <2>3, EmitFacts DEF Sends, FeedComplete
  <2>4. CASE Publish \/ Latch \/ Upgrade \/ Answer \/ Drop
    <3>1. conn' = "live" => conn = "live" /\ UNCHANGED <<snap, after, emitted, stream>>
      BY <2>4 DEF Publish, Latch, Upgrade, Answer, Drop, store, socket
    <3> QED
      BY <3>1 DEF FInv, Sends, FeedComplete
  <2> QED
    BY <1>1, <2>1, <2>2, <2>3, <2>4 DEF FeedStep
<1>2. ASSUME NEW f \in Fetches, ClientStep(f) \/ UserRecovers(f) PROVE Sends'
  <2>1. conn' = "live" => conn = "live" /\ UNCHANGED <<snap, after, emitted, stream>>
    <3>1. CASE Serve(f) \/ FetchFails(f) \/ UserRecovers(f) \/ OnClose(f)
      BY <3>1, ClientFacts DEF store
    <3>2. CASE OnMessage(f)
      BY <3>2, MessageFacts DEF feed, store, socket
    <3>3. CASE Recovered(f)
      BY <3>3, RecoveredFacts
    <3> QED
      BY <1>2, <3>1, <3>2, <3>3 DEF ClientStep
  <2> QED
    BY <2>1 DEF FInv, Sends, FeedComplete
<1> QED
  BY <1>1, <1>2 DEF CockpitNext

LEMMA HandlesStep == ASSUME IInv, FInv, CockpitNext PROVE Handles'
<1>0. \A i \in 1 .. read : stream[i] \in Nat
  <2> SUFFICES ASSUME NEW i \in 1 .. read PROVE stream[i] \in Nat
    OBVIOUS
  <2>1. i \in 1 .. Len(stream)
    BY Bounds
  <2> QED
    BY <2>1, Bounds, ElementOfSeq
<1>1. ASSUME FeedStep, UNCHANGED client PROVE Handles'
  <2>1. read' = read /\ required' = required /\ LastRevision' = LastRevision
    BY <1>1, FeedFacts
  <2>2. CASE Emit /\ conn = "live"
    <3>1. stream' = Append(stream, emitted') /\ conn' = conn /\ emitted' \in Nat
      BY <2>2, EmitFacts, Bounds
    <3>2. \A i \in 1 .. read : i \in 1 .. Len(stream) /\ stream'[i] = stream[i]
      BY <3>1, Bounds, AppendProperties
    <3> QED
      BY <2>1, <2>2, <3>1, <3>2 DEF FInv, Handles
  <2>3. CASE Flush
    <3>1. read = 0
      BY <2>3 DEF Flush, FInv, Asks, Open
    <3> QED
      BY <2>1, <3>1 DEF Handles
  <2>4. CASE Emit /\ conn # "live"
    BY <2>4, EmitFacts DEF Handles
  <2>5. CASE Publish \/ Latch \/ Upgrade \/ Answer \/ Drop
    <3>1. conn' = "live" => conn = "live" /\ stream' = stream
      BY <2>5 DEF Publish, Latch, Upgrade, Answer, Drop, store, socket
    <3> QED
      BY <2>1, <3>1 DEF FInv, Handles
  <2> QED
    BY <1>1, <2>2, <2>3, <2>4, <2>5 DEF FeedStep
<1>2. ASSUME NEW f \in Fetches, ClientStep(f) \/ UserRecovers(f) PROVE Handles'
  <2>1. CASE Serve(f) \/ FetchFails(f) \/ UserRecovers(f) \/ OnClose(f)
    BY <2>1, ClientFacts DEF FInv, Handles, LastRevision
  <2>2. CASE OnMessage(f)
    <3>1. /\ stream' = stream /\ LastRevision' = LastRevision /\ conn = "live"
          /\ read' = read + 1 /\ required' \in Nat /\ required <= required'
          /\ stream[read + 1] <= LastRevision \/ stream[read + 1] <= required'
      BY <2>2, MessageFacts DEF feed, socket, LastRevision, Message
    <3>2. \A i \in 1 .. read : stream[i] \in Nat
                               /\ (stream[i] <= LastRevision \/ stream[i] <= required)
      BY <1>0, <3>1 DEF FInv, Handles
    <3>3. \A i \in 1 .. read : stream[i] <= LastRevision \/ stream[i] <= required'
      <4> SUFFICES ASSUME NEW i \in 1 .. read
                   PROVE  stream[i] <= LastRevision \/ stream[i] <= required'
        OBVIOUS
      <4>1. stream[i] \in Nat /\ (stream[i] <= LastRevision \/ stream[i] <= required)
        BY <3>2
      <4> QED
        BY <3>1, <4>1, Bounds
    <3>4. \A i \in 1 .. read + 1 : i \in 1 .. read \/ i = read + 1
      BY Bounds
    <3> QED
      BY <3>1, <3>3, <3>4 DEF Handles
  <2>3. CASE Recovered(f)
    <3>1. SUFFICES ASSUME conn' = "live", NEW i \in 1 .. read'
                   PROVE  stream'[i] <= LastRevision' \/ stream'[i] <= required'
      BY DEF Handles
    <3>2. /\ conn = "live" /\ stream' = stream /\ read' = read
          /\ LastRevision' \in Nat /\ LastRevision <= LastRevision'
          /\ required' = required \/ (required' = 0 /\ required <= LastRevision')
      BY <2>3, <3>1, RecoveredFacts
    <3>3. stream[i] \in Nat /\ (stream[i] <= LastRevision \/ stream[i] <= required)
      BY <1>0, <3>1, <3>2 DEF FInv, Handles
    <3> QED
      BY <3>2, <3>3, Bounds
  <2> QED
    BY <1>2, <2>1, <2>2, <2>3 DEF ClientStep
<1> QED
  BY <1>1, <1>2 DEF CockpitNext

LEMMA FeedStarts == Init => FInv
<1> SUFFICES ASSUME Init PROVE FInv
  OBVIOUS
<1>1. /\ first \in Nat /\ rev = first /\ emitted = first /\ latched = FALSE
      /\ conn = "none" /\ after = 0 /\ snap = 0
      /\ history = <<>> /\ buffered = <<>> /\ stream = <<>> /\ drops = 0
  BY DEF Init, FeedInit
<1>2. PICK f \in Fetches : fetch = [g \in Fetches |-> IF g = f THEN Asked(FALSE) ELSE Idle]
  BY DEF Init
<1>3. FeedTypeOK
  <2>1. <<>> \in Seq(Nat) /\ FALSE \in BOOLEAN /\ 0 \in 0 .. MaxDrops
    BY BoundsAssumption
  <2>2. latched \in BOOLEAN
    BY <1>1, <2>1, Zenon
  <2>3. {history, buffered, stream} \subseteq Seq(Nat)
    BY <1>1, <2>1
  <2> QED
    BY <1>1, <2>1, <2>2, <2>3 DEF FeedTypeOK
<1>4. fetch \in [Fetches -> Calls]
  BY <1>2 DEF Calls, Asked, Idle
<1>5. \A g \in Fetches : fetch[g].at # "served" /\ ~fetch[g].reconnects
  BY <1>2 DEF Asked, Idle
<1>6. TypeOK
  <2>1. view = NoView /\ required = 0 /\ read = 0 /\ Len(stream) = 0
    BY <1>1 DEF Init
  <2>2. loading \in BOOLEAN /\ unavailable \in BOOLEAN
    BY Zenon DEF Init
  <2> QED
    BY <1>3, <1>4, <2>1, <2>2 DEF TypeOK
<1>7. Behind
  BY <1>1, <1>5 DEF Behind, Init
<1> QED
  BY <1>1, <1>6, <1>7 DEF FInv, Asks, Open, Buffers, Answers, Sends, FeedComplete, Handles

(* Every step keeps what the client has seen, what the socket holds for it   *)
(* and what it has sent in line.                                             *)
LEMMA FeedInductive == IInv /\ FInv /\ [CockpitNext]_vars => FInv'
<1> SUFFICES ASSUME IInv, FInv, [CockpitNext]_vars PROVE FInv'
  OBVIOUS
<1>1. CASE CockpitNext
  BY <1>1, TypeStep, BehindStep, AsksStep, BuffersStep, AnswersStep, SendsStep, HandlesStep
    DEF FInv
<1>2. CASE UNCHANGED vars
  BY <1>2 DEF vars, feed, store, socket, client, FInv, TypeOK, FeedTypeOK, Behind, Asks,
    Buffers, Answers, Sends, FeedComplete, Handles, LastRevision
<1> QED
  BY <1>1, <1>2

(* The second inductive invariant holds in every state: the client is never  *)
(* ahead of the store, nor before what this supervisor has published.        *)
THEOREM FeedInvariant == CockpitSpec => []FInv
  BY FeedStarts, Invariant, FeedInductive, PTL DEF CockpitSpec

(* The socket, the calls in flight and the view stay within their types.     *)
THEOREM TypeCorrect == CockpitSpec => []TypeOK
<1>1. FInv => TypeOK
  BY DEF FInv
<1> QED
  BY <1>1, FeedInvariant, PTL

(* A client that connects at any moment, before, between or after the        *)
(* publication and its event, is sent every later event once and in order,   *)
(* or is told to fetch the snapshot.                                         *)
THEOREM FeedSafety == CockpitSpec => []FeedComplete
<1>1. FInv => FeedComplete
  BY DEF FInv, Sends
<1> QED
  BY <1>1, FeedInvariant, PTL

(* When nothing is in flight any more, a view that does not warn is the      *)
(* published state.                                                          *)
THEOREM FreshSafety == CockpitSpec => []SettledIsFresh
<1>1. ASSUME IInv, FInv PROVE SettledIsFresh
  <2> SUFFICES ASSUME Settled, ~unavailable PROVE view # NoView /\ view.rev = rev
    BY DEF SettledIsFresh
  <2>1. conn = "live" /\ read = Len(stream) /\ emitted = rev
    BY DEF Settled
  <2>2. required = 0
    BY <1>1 DEF IInv, ControlsWait
  <2>3. /\ view # NoView /\ view.rev = LastRevision /\ LastRevision <= rev
        /\ after <= LastRevision /\ snap <= rev
    BY <1>1, <2>1 DEF FInv, Behind, Asks, Open, LastRevision
  <2>4. rev <= LastRevision
    <3>1. CASE rev > after
      <4>1. rev \in Range(stream)
        BY <1>1, <2>1, <2>3, <3>1, Bounds DEF FInv, Sends, FeedComplete
      <4>2. PICK i \in 1 .. Len(stream) : stream[i] = rev
        BY <1>1, <4>1, Bounds, RangeEquality
      <4>3. rev <= LastRevision \/ rev <= 0
        BY <1>1, <2>1, <2>2, <4>2 DEF FInv, Handles
      <4> QED
        BY <1>1, <4>3, Bounds
    <3>2. CASE ~(rev > after)
      BY <1>1, <2>3, <3>2, Bounds
    <3> QED
      BY <3>1, <3>2
  <2> QED
    BY <1>1, <2>3, <2>4, Bounds
<1> QED
  BY <1>1, Invariant, FeedInvariant, PTL
=============================================================================
