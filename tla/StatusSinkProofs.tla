-------------------------- MODULE StatusSinkProofs --------------------------
(***************************************************************************)
(* The order of delivery and the limit of the queue, for any number of     *)
(* goroutines, events and isolates and for any limit.  The inductive       *)
(* invariant says of every event still on its way to the queue that nobody *)
(* waits for it: no event counts it among those that were there before.    *)
(***************************************************************************)
EXTENDS StatusSink, FiniteSetTheorems, WellFoundedInduction, TLAPS

Event == [id : Nat, kind : Kind, ahead : SUBSET Nat]
AnyEvent == [id : Nat, kind : Kind \union {"none"}, ahead : SUBSET Nat]

Place == {"idle", "in", "sink", "flag", "offer", "post", "closePort", "closeSink",
          "closeFlag", "off", "take"}

\* The goroutines whose emitStatus has yet to queue or to post its event.
Flying == {g \in Emitter \union Caller : pc[g] \in {"sink", "flag", "offer"}}

Types ==
    /\ emitted \in Nat
    /\ pending \in Seq(Event)
    /\ draining \in BOOLEAN
    /\ pc \in [Goroutine -> Place]
    /\ event \in [Goroutine -> AnyEvent]
    /\ \A g \in Flying : event[g] \in Event

\* The drain runs exactly while the queue says so, and else nothing waits.
Drains ==
    /\ draining <=> pc["drain"] # "off"
    /\ ~draining => pending = <<>>
    /\ pc["drain"] \notin {"sink", "flag", "offer"}

\* Only events that were emitted are anywhere, or are waited for.
Numbered ==
    /\ \A i \in DOMAIN pending :
           pending[i].id <= emitted /\ \A n \in pending[i].ahead : n <= emitted
    /\ \A g \in Goroutine :
           event[g].id <= emitted /\ \A n \in event[g].ahead : n <= emitted

\* An event on its way is in one place, and no event waits for it.
Unawaited ==
    \A g \in Flying :
        /\ event[g].id \notin Queued
        /\ \A h \in Flying : h # g => event[h].id # event[g].id
        /\ \A h \in Goroutine : event[g].id \notin event[h].ahead
        /\ \A i \in DOMAIN pending : event[g].id \notin pending[i].ahead

\* The queue is in order: no event in it waits for a later one.
InOrder ==
    \A i, k \in DOMAIN pending : i <= k => pending[k].id \notin pending[i].ahead

\* Past the limit at most one log event is left.
FewLogs ==
    Len(pending) > maxDeferredStatus => \A i, j \in LogsQueued : i = j

IInv ==
    /\ Types /\ Drains /\ Numbered /\ Unawaited /\ InOrder /\ FewLogs
    /\ EmissionOrder

InFlight == {"sink", "flag", "offer"}

\* A step that at most ends the handling of an event, and queues none.
Eases ==
    /\ UNCHANGED <<pending, draining, emitted>>
    /\ pc' \in [Goroutine -> Place]
    /\ event' \in [Goroutine -> AnyEvent]
    /\ pc'["drain"] = "off" <=> pc["drain"] = "off"
    /\ \A g \in Goroutine :
           /\ pc'[g] \in InFlight => pc[g] \in InFlight
           /\ pc'[g] = "post" => pc[g] = "post"
           /\ \/ event'[g] = event[g]
              \/ event'[g] = NoEvent /\ pc'[g] \notin InFlight /\ pc'[g] # "post"

-----------------------------------------------------------------------------
(* Facts about numbers and sequences. *)

\* Every set of naturals has a least element: the oldest log is one.
LEMMA LeastNatural ==
  ASSUME NEW T \in SUBSET Nat, T # {}
  PROVE  \E n \in T : \A m \in T : n <= m
<1> DEFINE R == {ss \in Nat \X Nat : ss[1] < ss[2]}
<1>1. IsWellFoundedOn(R, Nat)
  BY NatLessThanWellFounded DEF OpToRel
<1> HIDE DEF R
<1>2. PICK n \in T : \A m \in T : ~(<<m, n>> \in R)
  BY ZenonT(60), <1>1, WFMin
<1>3. ASSUME NEW m \in T PROVE n <= m
  <2>1. m \in Nat /\ n \in Nat /\ ~(<<m, n>> \in R)
    BY <1>2
  <2>2. ~(m < n)
    BY <2>1 DEF R
  <2> QED
    BY <2>1, <2>2
<1> QED
  BY <1>3

\* What an index past the first of two sequences finds.
LEMMA Joined ==
  ASSUME NEW S, NEW a \in Seq(S), NEW b \in Seq(S),
         NEW i \in 1..(Len(a) + Len(b)), i > Len(a)
  PROVE  (a \o b)[i] = b[i - Len(a)]
  OBVIOUS

Without(s, k) == SubSeq(s, 1, k - 1) \o SubSeq(s, k + 1, Len(s))

\* What was behind the gap moves one place up.
LEMMA Removing ==
  ASSUME NEW S, NEW s \in Seq(S), NEW k \in DOMAIN s
  PROVE  /\ Without(s, k) \in Seq(S)
         /\ Len(Without(s, k)) = Len(s) - 1
         /\ \A i \in 1..(Len(s) - 1) :
                Without(s, k)[i] = IF i < k THEN s[i] ELSE s[i + 1]
<1> DEFINE front == SubSeq(s, 1, k - 1)
           back == SubSeq(s, k + 1, Len(s))
<1>0. k \in 1..Len(s) /\ Len(s) \in Nat
  OBVIOUS
<1>1. front \in Seq(S) /\ Len(front) = k - 1 /\ \A i \in 1..(k - 1) : front[i] = s[i]
  BY <1>0
<1>2. back \in Seq(S) /\ Len(back) = Len(s) - k
  BY <1>0
<1>3. \A i \in 1..(Len(s) - k) : back[i] = s[k + i]
  BY <1>0
<1>4. Without(s, k) = front \o back
  BY DEF Without
<1> HIDE DEF front, back
<1>5. front \o back \in Seq(S) /\ Len(front \o back) = Len(s) - 1
  BY <1>0, <1>1, <1>2
<1>6. ASSUME NEW i \in 1..(Len(s) - 1), i < k
      PROVE  (front \o back)[i] = s[i]
  <2>1. i \in 1..(k - 1)
    BY <1>0, <1>6
  <2> QED
    BY <1>0, <1>1, <1>2, <2>1
<1>7. ASSUME NEW i \in 1..(Len(s) - 1), ~(i < k)
      PROVE  (front \o back)[i] = s[i + 1]
  <2>1. i - (k - 1) \in 1..(Len(s) - k) /\ k + (i - (k - 1)) = i + 1
    BY <1>0, <1>7
  <2>2. (front \o back)[i] = back[i - (k - 1)]
    <3>1. i \in 1..(Len(front) + Len(back)) /\ i > Len(front)
      BY <1>0, <1>1, <1>2, <1>7
    <3>2. (front \o back)[i] = back[i - Len(front)]
      BY <1>1, <1>2, <3>1, Joined
    <3> QED
      BY <1>1, <3>2
  <2>3. back[i - (k - 1)] = s[k + (i - (k - 1))]
    BY <1>3, <2>1
  <2> QED
    BY <2>1, <2>2, <2>3
<1> QED
  BY <1>4, <1>5, <1>6, <1>7

\* What dropOldestDroppable leaves: nothing new and nothing out of order, every
\* lifecycle event, and one log event less when there is one.
LEMMA Shedding ==
  ASSUME Types
  PROVE  LET left == dropOldestDroppable IN
         /\ left \in Seq(Event)
         /\ Len(left) = IF LogsQueued = {} THEN Len(pending) ELSE Len(pending) - 1
         /\ \A i, j \in DOMAIN left : i <= j =>
                \E a, b \in DOMAIN pending :
                    a <= b /\ left[i] = pending[a] /\ left[j] = pending[b]
         /\ \A a \in DOMAIN pending : pending[a].kind = "lifecycle" =>
                \E i \in DOMAIN left : left[i] = pending[a]
         /\ (\A a, b \in LogsQueued : a = b) =>
                \A i \in DOMAIN left : left[i].kind # "log"
<1> DEFINE left == dropOldestDroppable
<1>0. pending \in Seq(Event) /\ LogsQueued \in SUBSET Nat /\ LogsQueued \subseteq DOMAIN pending
  BY DEF Types, LogsQueued
<1>1. CASE LogsQueued = {}
  <2>1. left = pending
    BY <1>1 DEF dropOldestDroppable, LogsQueued
  <2>2. \A i \in DOMAIN pending : pending[i].kind # "log"
    BY <1>1 DEF LogsQueued
  <2>3. \A i, j \in DOMAIN pending : i <= j =>
            \E a, b \in DOMAIN pending :
                a <= b /\ pending[i] = pending[a] /\ pending[j] = pending[b]
    OBVIOUS
  <2> HIDE DEF left
  <2> QED
    BY <1>0, <1>1, <2>1, <2>2, <2>3 DEF left
<1>2. CASE LogsQueued # {}
  <2> DEFINE k == CHOOSE i \in LogsQueued : \A j \in LogsQueued : i <= j
  <2>1. k \in LogsQueued
    BY ZenonT(60), <1>0, <1>2, LeastNatural
  <2>2. left = Without(pending, k)
    BY ZenonT(60), <1>2 DEF dropOldestDroppable, LogsQueued, Without
  <2>3. k \in DOMAIN pending /\ pending[k].kind = "log"
    BY <2>1 DEF LogsQueued
  <2> HIDE DEF left, k
  <2>4. /\ left \in Seq(Event)
        /\ Len(left) = Len(pending) - 1
        /\ \A i \in 1..(Len(pending) - 1) :
               left[i] = IF i < k THEN pending[i] ELSE pending[i + 1]
    BY <1>0, <2>2, <2>3, Removing
  <2>5. k \in 1..Len(pending) /\ Len(pending) \in Nat /\ DOMAIN pending = 1..Len(pending)
        /\ DOMAIN left = 1..(Len(pending) - 1)
    BY <1>0, <2>3, <2>4
  <2>6. ASSUME NEW i \in DOMAIN left, NEW j \in DOMAIN left, i <= j
        PROVE  \E a, b \in DOMAIN pending :
                   a <= b /\ left[i] = pending[a] /\ left[j] = pending[b]
    <3>1. CASE i < k /\ j < k
      BY <2>4, <2>5, <2>6, <3>1
    <3>2. CASE i < k /\ ~(j < k)
      BY <2>4, <2>5, <2>6, <3>2
    <3>3. CASE ~(i < k)
      <4>1. i + 1 \in DOMAIN pending /\ j + 1 \in DOMAIN pending /\ i + 1 <= j + 1
        BY <2>5, <2>6
      <4>2. left[i] = pending[i + 1] /\ left[j] = pending[j + 1]
        BY <2>4, <2>5, <2>6, <3>3
      <4> QED
        BY <4>1, <4>2
    <3> QED
      BY <3>1, <3>2, <3>3
  <2>7. ASSUME NEW a \in DOMAIN pending, a # k
        PROVE  \E i \in DOMAIN left : left[i] = pending[a]
    <3>1. CASE a < k
      BY <2>4, <2>5, <2>7, <3>1
    <3>2. CASE a > k
      <4>1. a - 1 \in DOMAIN left /\ ~(a - 1 < k) /\ (a - 1) + 1 = a
        BY <2>5, <3>2
      <4> QED
        BY <2>4, <2>5, <4>1
    <3> QED
      BY <2>5, <2>7, <3>1, <3>2
  <2>8. ASSUME \A a, b \in LogsQueued : a = b, NEW i \in DOMAIN left
        PROVE  left[i].kind # "log"
    <3>1. \A a \in DOMAIN pending : a # k => pending[a].kind # "log"
      BY <2>1, <2>8 DEF LogsQueued
    <3>2. \E a \in DOMAIN pending : a # k /\ left[i] = pending[a]
      <4>1. CASE i < k
        BY <2>4, <2>5, <4>1
      <4>2. CASE ~(i < k)
        <5>1. i + 1 \in DOMAIN pending /\ i + 1 # k
          BY <2>5, <4>2
        <5> QED
          BY <2>4, <2>5, <4>2, <5>1
      <4> QED
        BY <4>1, <4>2
    <3> QED
      BY <3>1, <3>2
  <2>9. \A a \in DOMAIN pending : pending[a].kind = "lifecycle" => a # k
    BY <2>3
  <2> QED
    BY <1>2, <2>4, <2>6, <2>7, <2>8, <2>9 DEF left
<1> QED
  BY <1>1, <1>2

-----------------------------------------------------------------------------
(* The invariant, action by action. *)

\* The drain goroutine is no emitter and no caller.
LEMMA DrainIsAlone == "drain" \in Goroutine /\ \A g \in Emitter \union Caller :
                          g \in Goroutine /\ g # "drain"
  BY ProcessAssumption DEF Goroutine

\* A step that queues nothing and lets nobody begin to post keeps the invariant.
LEMMA EaseKeeps == IInv /\ Eases => IInv'
<1> SUFFICES ASSUME IInv, Eases PROVE IInv'
  OBVIOUS
<1> USE DrainIsAlone
<1>1. Flying' \subseteq Flying /\ \A g \in Flying' : event'[g] = event[g]
  BY DEF Flying, Eases, InFlight, Goroutine
<1>2. Queued' \subseteq Queued
  BY DEF Queued, Eases
<1>3. \A g \in Goroutine : event'[g] = event[g] \/ (event'[g].id = 0 /\ event'[g].ahead = {})
  BY DEF Eases, NoEvent
<1>4. pending' = pending /\ emitted' = emitted /\ draining' = draining
  BY DEF Eases
<1>5. Types'
  BY <1>1, <1>4 DEF IInv, Types, Eases
<1>6. Drains'
  BY <1>4 DEF IInv, Drains, Eases, InFlight
<1>7. Numbered'
  BY <1>3, <1>4 DEF IInv, Numbered, Types
<1>8. Unawaited'
  BY <1>1, <1>2, <1>3, <1>4 DEF IInv, Unawaited
<1>9. InOrder' /\ FewLogs'
  BY <1>4 DEF IInv, InOrder, FewLogs, LogsQueued
<1>10. EmissionOrder'
  BY <1>2, <1>3 DEF IInv, EmissionOrder, Eases, NoEvent
<1> QED
  BY <1>5, <1>6, <1>7, <1>8, <1>9, <1>10 DEF IInv

\* An emission's event is the newest of all.
LEMMA EmitKeeps ==
  ASSUME NEW g \in Emitter \union Caller, NEW k \in Kind, IInv, Emit(g, k)
  PROVE  IInv'
<1> DEFINE e == [id |-> emitted + 1, kind |-> k, ahead |-> Queued]
<1> USE DrainIsAlone
<1>t. /\ g \in Goroutine /\ g # "drain" /\ emitted \in Nat
      /\ pc \in [Goroutine -> Place] /\ event \in [Goroutine -> AnyEvent]
      /\ pending \in Seq(Event)
  BY DEF IInv, Types
<1>p. \A i \in DOMAIN pending : pending[i].id \in Nat /\ pending[i].ahead \in SUBSET Nat
  <2>1. \A i \in DOMAIN pending : pending[i] \in Event
    BY <1>t
  <2> QED
    BY <2>1 DEF Event
<1>a. /\ pc[g] \notin InFlight /\ pc[g] # "post"
      /\ pc' = [pc EXCEPT ![g] = "sink"]
      /\ event' = [event EXCEPT ![g] = e] /\ emitted' = emitted + 1
  BY DEF Emit, Goto, Base, InFlight
<1>b. pending' = pending /\ draining' = draining
  BY DEF Emit, queue
<1>c. pc' \in [Goroutine -> Place]
  BY <1>t, <1>a DEF Place
<1>1. Flying' = Flying \union {g} /\ g \notin Flying
  BY <1>t, <1>a, <1>b, <1>c DEF Flying, InFlight
<1>2. Queued' = Queued
  BY <1>t, <1>a, <1>b, <1>c DEF Queued
<1>3. Queued \in SUBSET Nat /\ \A n \in Queued : n <= emitted
  <2>1. \A i \in DOMAIN pending : pending[i].id \in Nat /\ pending[i].id <= emitted
    BY <1>p DEF IInv, Numbered
  <2>2. event["drain"].id \in Nat /\ event["drain"].id <= emitted
    BY <1>t DEF IInv, Numbered, AnyEvent
  <2> QED
    BY <2>1, <2>2 DEF Queued
<1>4. e \in Event /\ e.id = emitted + 1 /\ e.ahead = Queued
  BY <1>t, <1>a, <1>b, <1>c, <1>3 DEF Event
<1>5. event'[g] = e /\ \A h \in Goroutine : h # g => event'[h] = event[h]
  BY <1>t, <1>a, <1>b, <1>c
<1> HIDE DEF e
<1>6. Types'
  <2>1. event' \in [Goroutine -> AnyEvent]
    BY <1>t, <1>a, <1>b, <1>c, <1>4 DEF Event, AnyEvent
  <2> QED
    BY <1>t, <1>a, <1>b, <1>c, <1>1, <1>4, <1>5, <2>1 DEF IInv, Types, Flying
<1>7. Drains'
  BY <1>t, <1>a, <1>b, <1>c DEF IInv, Drains
<1>8. Numbered'
  <2>1. \A i \in DOMAIN pending :
            pending[i].id <= emitted + 1 /\ \A n \in pending[i].ahead : n <= emitted + 1
    BY <1>t, <1>p DEF IInv, Numbered
  <2>2. \A h \in Goroutine :
            event[h].id <= emitted + 1 /\ \A n \in event[h].ahead : n <= emitted + 1
    BY <1>t, <1>a, <1>b, <1>c DEF IInv, Types, Numbered, AnyEvent
  <2>3. e.id <= emitted + 1 /\ \A n \in e.ahead : n <= emitted + 1
    <3>1. \A n \in Queued : n \in Nat /\ n <= emitted
      BY <1>3
    <3>2. \A n \in Queued : n <= emitted + 1
      BY <1>t, <3>1
    <3> QED
      BY <1>t, <1>4, <3>2
  <2> QED
    BY <1>t, <1>a, <1>b, <1>c, <1>5, <2>1, <2>2, <2>3 DEF Numbered
<1>9. Unawaited'
  <2>1. \A h \in Flying : h \in Goroutine /\ event'[h] = event[h]
    BY <1>1, <1>5 DEF Flying
  <2>2. ASSUME NEW h \in Flying
        PROVE  /\ event[h].id \notin Queued
               /\ \A f \in Flying : f # h => event[f].id # event[h].id
               /\ event[h].id # emitted + 1
               /\ \A f \in Goroutine : event[h].id \notin event[f].ahead
               /\ \A i \in DOMAIN pending : event[h].id \notin pending[i].ahead
    BY <1>t, <1>a, <1>b, <1>c, <2>1 DEF IInv, Unawaited, Numbered, Types, AnyEvent
  <2>3. /\ emitted + 1 \notin Queued
        /\ \A f \in Goroutine : emitted + 1 \notin event[f].ahead
        /\ \A i \in DOMAIN pending : emitted + 1 \notin pending[i].ahead
    BY <1>t, <1>a, <1>b, <1>c, <1>3 DEF IInv, Numbered, Types, AnyEvent, Event
  <2> QED
    BY <1>t, <1>a, <1>b, <1>c, <1>1, <1>2, <1>4, <1>5, <2>1, <2>2, <2>3 DEF Unawaited
<1>10. InOrder' /\ FewLogs'
  BY <1>t, <1>a, <1>b, <1>c DEF IInv, InOrder, FewLogs, LogsQueued
<1>11. EmissionOrder'
  BY <1>t, <1>a, <1>b, <1>c, <1>2, <1>5 DEF IInv, EmissionOrder
<1> QED
  BY <1>6, <1>7, <1>8, <1>9, <1>10, <1>11 DEF IInv

\* An event that need not queue goes on to be posted by its emitter: nothing
\* older is queued or being drained.
LEMMA DeclineKeeps ==
  ASSUME NEW g \in Emitter \union Caller, IInv, OfferDeclines(g)
  PROVE  IInv'
<1> USE DrainIsAlone
<1>t. /\ g \in Goroutine /\ g # "drain" /\ pc \in [Goroutine -> Place]
  BY DEF IInv, Types
<1>a. pc[g] = "offer" /\ ~draining /\ pc' = [pc EXCEPT ![g] = "post"]
  BY DEF OfferDeclines, Goto, MustQueue
<1>b. UNCHANGED <<pending, draining, event, emitted>>
  BY DEF OfferDeclines, queue
<1>c. pc' \in [Goroutine -> Place]
  BY <1>t, <1>a DEF Place
<1>1. Flying' \subseteq Flying
  BY <1>t, <1>a, <1>b, <1>c DEF Flying
<1>2. Queued = {} /\ Queued' = {}
  BY <1>t, <1>a, <1>b, <1>c DEF Queued, IInv, Drains
<1>3. Types'
  BY <1>t, <1>a, <1>b, <1>c, <1>1 DEF IInv, Types
<1>4. Drains'
  BY <1>t, <1>a, <1>b, <1>c DEF IInv, Drains
<1>5. Numbered' /\ InOrder' /\ FewLogs'
  BY <1>t, <1>a, <1>b, <1>c DEF IInv, Numbered, InOrder, FewLogs, LogsQueued
<1>6. Unawaited'
  BY <1>t, <1>a, <1>b, <1>c, <1>1, <1>2 DEF IInv, Unawaited
<1>7. EmissionOrder'
  BY <1>2 DEF EmissionOrder
<1> QED
  BY <1>3, <1>4, <1>5, <1>6, <1>7 DEF IInv

\* The drain takes the oldest event of the queue.
LEMMA TakeKeeps == IInv /\ DrainTake => IInv'
<1> SUFFICES ASSUME IInv, DrainTake PROVE IInv'
  OBVIOUS
<1> USE DrainIsAlone
<1>t. /\ pending \in Seq(Event) /\ pc \in [Goroutine -> Place]
      /\ event \in [Goroutine -> AnyEvent] /\ emitted \in Nat
  BY DEF IInv, Types
<1>a. /\ pc["drain"] = "take" /\ pc' = [pc EXCEPT !["drain"] = "post"]
      /\ pending # <<>> /\ event' = [event EXCEPT !["drain"] = pending[1]]
  BY <1>t DEF DrainTake
<1>b. pending' = Tail(pending) /\ draining' = draining /\ emitted' = emitted
  BY DEF DrainTake
<1>c. pc' \in [Goroutine -> Place]
  BY <1>t, <1>a DEF Place
<1>1. /\ 1 \in DOMAIN pending /\ Len(pending) \in Nat
      /\ pending' \in Seq(Event) /\ Len(pending') = Len(pending) - 1
      /\ \A i \in DOMAIN pending' : /\ i \in Nat /\ i + 1 \in DOMAIN pending /\ 1 <= i + 1
                                    /\ pending'[i] = pending[i + 1]
  BY <1>t, <1>a, <1>b, <1>c
<1>2. Flying' = Flying
  BY <1>t, <1>a, <1>b, <1>c DEF Flying
<1>3. event'["drain"] = pending[1] /\ \A h \in Goroutine : h # "drain" => event'[h] = event[h]
  BY <1>t, <1>a, <1>b, <1>c
<1>4. Queued' \subseteq Queued
  BY <1>t, <1>a, <1>b, <1>c, <1>1, <1>3 DEF Queued
<1>5. pending[1] \in Event
  BY <1>t, <1>a, <1>b, <1>c, <1>1
<1>6. Types'
  <2>1. event' \in [Goroutine -> AnyEvent]
    BY <1>t, <1>a, <1>b, <1>c, <1>5 DEF Event, AnyEvent
  <2>2. \A h \in Flying : event'[h] = event[h]
    BY <1>3 DEF Flying
  <2> QED
    BY <1>t, <1>a, <1>b, <1>c, <1>1, <1>2, <2>1, <2>2 DEF IInv, Types
<1>7. Drains'
  BY <1>t, <1>a, <1>b, <1>c DEF IInv, Drains
<1>8. Numbered'
  BY <1>t, <1>a, <1>b, <1>c, <1>1, <1>3 DEF IInv, Numbered
<1>9. Unawaited'
  <2>1. \A h \in Flying : event'[h] = event[h]
    BY <1>3 DEF Flying
  <2> QED
    BY <1>1, <1>2, <1>3, <1>4, <2>1 DEF IInv, Unawaited
<1>10. InOrder'
  <2> SUFFICES ASSUME NEW i \in DOMAIN pending', NEW j \in DOMAIN pending', i <= j
               PROVE  pending'[j].id \notin pending'[i].ahead
    BY DEF InOrder
  <2>1. i + 1 <= j + 1
    BY <1>1
  <2> QED
    BY <1>1, <2>1 DEF IInv, InOrder
<1>11. FewLogs'
  <2> SUFFICES ASSUME Len(pending') > maxDeferredStatus,
                      NEW i \in LogsQueued', NEW j \in LogsQueued'
               PROVE  i = j
    BY DEF FewLogs
  <2>1. Len(pending) > maxDeferredStatus
    BY <1>1, LimitAssumption
  <2>2. i + 1 \in LogsQueued /\ j + 1 \in LogsQueued /\ i \in Nat /\ j \in Nat
    BY <1>1 DEF LogsQueued
  <2>3. i + 1 = j + 1
    BY <2>1, <2>2 DEF IInv, FewLogs
  <2> QED
    BY <2>2, <2>3
<1>12. EmissionOrder'
  <2> SUFFICES ASSUME NEW h \in Goroutine, pc'[h] = "post", NEW n \in event'[h].ahead,
                      n \in Queued', n # event'[h].id
               PROVE  FALSE
    BY DEF EmissionOrder
  <2>1. CASE h = "drain"
    <3>1. PICK i \in DOMAIN pending' : n = pending'[i].id
      BY <1>t, <1>a, <1>b, <1>c, <2>1 DEF Queued
    <3> QED
      BY <1>1, <1>3, <2>1, <3>1 DEF IInv, InOrder
  <2>2. CASE h # "drain"
    BY <1>t, <1>a, <1>b, <1>c, <1>3, <1>4, <2>2 DEF IInv, EmissionOrder
  <2> QED
    BY <2>1, <2>2
<1> QED
  BY <1>6, <1>7, <1>8, <1>9, <1>10, <1>11, <1>12 DEF IInv

\* The drain ends on an empty queue.
LEMMA EndKeeps == IInv /\ DrainEnds => IInv'
<1> SUFFICES ASSUME IInv, DrainEnds PROVE IInv'
  OBVIOUS
<1> USE DrainIsAlone
<1>t. pc \in [Goroutine -> Place]
  BY DEF IInv, Types
<1>a. /\ pc["drain"] = "take" /\ pc' = [pc EXCEPT !["drain"] = "off"]
      /\ pending = <<>> /\ draining' = FALSE
  BY DEF DrainEnds, Goto
<1>b. UNCHANGED <<pending, event, emitted>>
  BY DEF DrainEnds
<1>c. pc' \in [Goroutine -> Place]
  BY <1>t, <1>a DEF Place
<1>1. Flying' = Flying
  BY <1>t, <1>a, <1>b, <1>c DEF Flying
<1>2. Queued' = Queued
  BY <1>t, <1>a, <1>b, <1>c DEF Queued
<1>3. Types'
  BY ZenonT(60), <1>t, <1>a, <1>b, <1>c, <1>1 DEF IInv, Types
<1>4. Drains'
  BY <1>t, <1>a, <1>b, <1>c DEF IInv, Drains
<1>5. Numbered' /\ InOrder' /\ FewLogs'
  BY <1>t, <1>a, <1>b, <1>c DEF IInv, Numbered, InOrder, FewLogs, LogsQueued
<1>6. Unawaited'
  BY <1>t, <1>a, <1>b, <1>c, <1>1, <1>2 DEF IInv, Unawaited
<1>7. EmissionOrder'
  BY <1>t, <1>a, <1>b, <1>c, <1>2 DEF IInv, EmissionOrder
<1> QED
  BY <1>3, <1>4, <1>5, <1>6, <1>7 DEF IInv

\* An event is queued behind the others, after the oldest log is shed if the
\* queue is full.
LEMMA OfferKeeps ==
  ASSUME NEW g \in Emitter \union Caller, IInv, Offer(g)
  PROVE  IInv'
<1> DEFINE kept == IF Len(pending) >= maxDeferredStatus THEN dropOldestDroppable ELSE pending
           last == Len(kept) + 1
<1> USE DrainIsAlone
<1>t. /\ g \in Goroutine /\ g # "drain" /\ pc \in [Goroutine -> Place]
      /\ event \in [Goroutine -> AnyEvent] /\ pending \in Seq(Event)
      /\ Len(pending) \in Nat /\ maxDeferredStatus \in Nat /\ Types
  BY LimitAssumption DEF IInv, Types
<1>a. /\ pc[g] = "offer" /\ pending' = Append(kept, event[g]) /\ draining' = TRUE
      /\ pc' = [pc EXCEPT ![g] = Base(g), !["drain"] = IF draining THEN @ ELSE "take"]
      /\ event' = [event EXCEPT ![g] = NoEvent] /\ emitted' = emitted
  BY DEF Offer
<1>b. g \in Flying /\ event[g] \in Event
  BY <1>a, <1>t DEF Flying, Types
<1>c. /\ kept \in Seq(Event) /\ Len(kept) \in Nat
      /\ \A i, j \in DOMAIN kept : i <= j =>
             \E a, b \in DOMAIN pending :
                 a <= b /\ kept[i] = pending[a] /\ kept[j] = pending[b]
      /\ Len(kept) >= maxDeferredStatus => \A i \in DOMAIN kept : kept[i].kind # "log"
  <2>1. CASE Len(pending) >= maxDeferredStatus
    <3>1. kept = dropOldestDroppable
      BY <2>1
    <3>2. /\ kept \in Seq(Event)
          /\ Len(kept) = IF LogsQueued = {} THEN Len(pending) ELSE Len(pending) - 1
          /\ (\A a, b \in LogsQueued : a = b) => \A i \in DOMAIN kept : kept[i].kind # "log"
          /\ \A i, j \in DOMAIN kept : i <= j =>
                 \E a, b \in DOMAIN pending :
                     a <= b /\ kept[i] = pending[a] /\ kept[j] = pending[b]
      BY <1>t, <3>1, Shedding
    <3> HIDE DEF kept
    <3>3. Len(kept) >= maxDeferredStatus => \A a, b \in LogsQueued : a = b
      BY <1>t, <3>2 DEF IInv, FewLogs
    <3> QED
      BY <3>2, <3>3
  <2>2. CASE ~(Len(pending) >= maxDeferredStatus)
    <3>1. kept = pending
      BY <2>2
    <3>2. \A i, j \in DOMAIN pending : i <= j =>
              \E a, b \in DOMAIN pending :
                  a <= b /\ pending[i] = pending[a] /\ pending[j] = pending[b]
      OBVIOUS
    <3> HIDE DEF kept
    <3> QED
      BY <1>t, <2>2, <3>1, <3>2
  <2> QED
    BY <2>1, <2>2
<1> HIDE DEF kept
<1>d. /\ pending' \in Seq(Event) /\ Len(pending') = last /\ last \in DOMAIN pending'
      /\ pending'[last] = event[g]
      /\ \A i \in DOMAIN pending' : i \in Nat /\ i <= last
      /\ \A i \in DOMAIN pending' : i # last => i \in DOMAIN kept /\ pending'[i] = kept[i]
  BY <1>a, <1>b, <1>c
<1> HIDE DEF last
<1>e. \A i \in DOMAIN pending' : i # last => \E a \in DOMAIN pending : pending'[i] = pending[a]
  <2> SUFFICES ASSUME NEW i \in DOMAIN pending', i # last
               PROVE  \E a \in DOMAIN pending : pending'[i] = pending[a]
    OBVIOUS
  <2>1. i \in DOMAIN kept /\ i <= i /\ pending'[i] = kept[i]
    BY <1>d
  <2> QED
    BY <1>c, <2>1
<1>f. /\ event'[g] = NoEvent /\ \A h \in Goroutine : h # g => event'[h] = event[h]
      /\ pc'[g] = Base(g) /\ \A h \in Goroutine : h # g /\ h # "drain" => pc'[h] = pc[h]
      /\ pc'["drain"] = IF draining THEN pc["drain"] ELSE "take"
      /\ pc' \in [Goroutine -> Place] /\ Base(g) \in {"in", "idle"}
  BY <1>a, <1>t DEF Base, Place
<1>g. Flying' = Flying \ {g} /\ \A h \in Flying' : h \in Goroutine /\ event'[h] = event[h]
  BY <1>f DEF Flying
<1>h. Queued' \subseteq Queued \union {event[g].id}
  BY <1>d, <1>e, <1>f, <1>t DEF Queued
<1>1. Types'
  <2>1. event' \in [Goroutine -> AnyEvent]
    BY <1>a, <1>t DEF NoEvent, AnyEvent
  <2> QED
    BY <1>a, <1>d, <1>f, <1>g, <1>t, <2>1 DEF Types
<1>2. Drains'
  BY <1>a, <1>f DEF IInv, Drains
<1>3. Numbered'
  <2>1. \A h \in Goroutine :
            event'[h].id <= emitted /\ \A n \in event'[h].ahead : n <= emitted
    BY <1>f, <1>t DEF IInv, Types, Numbered, NoEvent
  <2>2. \A i \in DOMAIN pending' :
            pending'[i].id <= emitted /\ \A n \in pending'[i].ahead : n <= emitted
    BY <1>d, <1>e, <1>t DEF IInv, Numbered
  <2> QED
    BY <1>a, <2>1, <2>2 DEF Numbered
<1>4. Unawaited'
  <2> SUFFICES ASSUME NEW h \in Flying'
               PROVE  /\ event'[h].id \notin Queued'
                      /\ \A f \in Flying' : f # h => event'[f].id # event'[h].id
                      /\ \A f \in Goroutine : event'[h].id \notin event'[f].ahead
                      /\ \A i \in DOMAIN pending' : event'[h].id \notin pending'[i].ahead
    BY DEF Unawaited
  <2>1. h \in Flying /\ h # g /\ event'[h] = event[h]
    BY <1>g
  <2>2. event[h].id # event[g].id
    BY <1>b, <2>1 DEF IInv, Unawaited
  <2>3. event'[h].id \notin Queued'
    BY <1>h, <2>1, <2>2 DEF IInv, Unawaited
  <2>4. \A f \in Flying' : f # h => event'[f].id # event'[h].id
    BY <1>g, <2>1 DEF IInv, Unawaited
  <2>5. \A f \in Goroutine : event'[h].id \notin event'[f].ahead
    BY <1>f, <2>1 DEF IInv, Unawaited, NoEvent
  <2>6. \A i \in DOMAIN pending' : event'[h].id \notin pending'[i].ahead
    BY <1>d, <1>e, <1>t, <2>1 DEF IInv, Unawaited
  <2> QED
    BY <2>3, <2>4, <2>5, <2>6
<1>5. InOrder'
  <2> SUFFICES ASSUME NEW i \in DOMAIN pending', NEW j \in DOMAIN pending', i <= j
               PROVE  pending'[j].id \notin pending'[i].ahead
    BY DEF InOrder
  <2>1. CASE j = last
    BY <1>b, <1>d, <1>e, <1>t, <2>1 DEF IInv, Unawaited
  <2>2. CASE j # last
    <3>1. i # last
      BY <1>d, <2>2
    <3>2. PICK a, b \in DOMAIN pending :
              a <= b /\ pending'[i] = pending[a] /\ pending'[j] = pending[b]
      BY <1>c, <1>d, <2>2, <3>1
    <3> QED
      BY <3>2 DEF IInv, InOrder
  <2> QED
    BY <2>1, <2>2
<1>6. FewLogs'
  <2> SUFFICES ASSUME Len(pending') > maxDeferredStatus,
                      NEW i \in LogsQueued', NEW j \in LogsQueued'
               PROVE  i = j
    BY DEF FewLogs
  <2>1. Len(kept) >= maxDeferredStatus
    BY <1>c, <1>d, <1>t DEF last
  <2>2. \A n \in DOMAIN pending' : n # last => pending'[n].kind # "log"
    BY <1>c, <1>d, <2>1
  <2> QED
    BY <2>2 DEF LogsQueued
<1>7. EmissionOrder'
  <2> SUFFICES ASSUME NEW h \in Goroutine, pc'[h] = "post", NEW n \in event'[h].ahead,
                      n \in Queued', n # event'[h].id
               PROVE  FALSE
    BY DEF EmissionOrder
  <2>1. h # g /\ pc[h] = "post" /\ event'[h] = event[h]
    BY <1>f
  <2>2. n # event[g].id
    BY <1>b, <2>1 DEF IInv, Unawaited
  <2> QED
    BY <1>h, <2>1, <2>2 DEF IInv, EmissionOrder
<1> QED
  BY <1>1, <1>2, <1>3, <1>4, <1>5, <1>6, <1>7 DEF IInv

\* A goroutine that goes on without a new event, and may let its own go, eases.
LEMMA Moving ==
  ASSUME NEW g \in Goroutine, NEW to \in Place \ {"post", "off"}, IInv,
         pc' = [pc EXCEPT ![g] = to],
         to \in InFlight => pc[g] \in InFlight,
         g = "drain" => pc[g] # "off",
         pending' = pending, draining' = draining, emitted' = emitted,
         event' = event \/ (event' = [event EXCEPT ![g] = NoEvent] /\ to \notin InFlight)
  PROVE  Eases
<1>1. pc \in [Goroutine -> Place] /\ event \in [Goroutine -> AnyEvent]
  BY DEF IInv, Types
<1>2. pc' \in [Goroutine -> Place] /\ pc'[g] = to /\ \A h \in Goroutine : h # g => pc'[h] = pc[h]
  BY <1>1
<1>3. NoEvent \in AnyEvent
  BY DEF NoEvent, AnyEvent
<1>4. /\ event' \in [Goroutine -> AnyEvent]
      /\ \A h \in Goroutine : h # g => event'[h] = event[h]
      /\ event'[g] = event[g] \/ (event'[g] = NoEvent /\ to \notin InFlight)
  BY <1>1, <1>3
<1> QED
  BY <1>2, <1>4, DrainIsAlone DEF Eases

\* Posting an event only eases,
LEMMA DeliverEases ==
  ASSUME NEW g \in Goroutine, IInv, DeliverStep(g)
  PROVE  Eases
<1>0. /\ After(g) \in Place \ {"post", "off"} /\ After(g) \notin InFlight
      /\ {"closePort", "closeSink", "closeFlag"} \subseteq Place \ {"post", "off"}
      /\ {"closePort", "closeSink", "closeFlag"} \intersect InFlight = {}
  BY DEF After, Base, Place, InFlight
<1>1. CASE Post(g)
  BY ZenonT(60), <1>0, <1>1, Moving DEF Post, Goto, queue
<1>2. CASE PostFails(g)
  BY ZenonT(60), <1>0, <1>2, Moving DEF PostFails, Goto, queue
<1>3. CASE ClosePort(g)
  BY ZenonT(60), <1>0, <1>3, Moving DEF ClosePort, Goto, queue
<1>4. CASE CloseSink(g)
  BY ZenonT(60), <1>0, <1>4, Moving DEF CloseSink, Goto, queue
<1>5. CASE CloseFlag(g)
  BY ZenonT(60), <1>0, <1>5, Moving DEF CloseFlag, Goto, queue
<1> QED
  BY <1>1, <1>2, <1>3, <1>4, <1>5 DEF DeliverStep

\* reading the sink and the flag does,
LEMMA LoadEases ==
  ASSUME NEW g \in Emitter \union Caller, IInv, LoadSink(g) \/ LoadFlag(g)
  PROVE  Eases
<1>0. /\ Base(g) \in Place \ {"post", "off"} /\ Base(g) \notin InFlight
      /\ {"flag", "offer"} \subseteq Place \ {"post", "off"}
      /\ g \in Goroutine /\ g # "drain"
  BY DrainIsAlone DEF Base, Place, InFlight
<1>1. CASE LoadSink(g) /\ sink
  BY ZenonT(60), <1>0, <1>1, Moving DEF LoadSink, Goto, queue, InFlight
<1>2. CASE LoadSink(g) /\ ~sink
  BY ZenonT(60), <1>0, <1>2, Moving DEF LoadSink, Goto, queue
<1>3. CASE LoadFlag(g)
  BY ZenonT(60), <1>0, <1>3, Moving DEF LoadFlag, Goto, queue, InFlight
<1> QED
  BY <1>1, <1>2, <1>3

\* entering and leaving a call into the core does,
LEMMA CallEases ==
  ASSUME NEW c \in Caller, IInv, EnterFFICall(c) \/ ReturnFFICall(c)
  PROVE  Eases
<1>0. /\ {"in", "idle"} \subseteq Place \ {"post", "off"}
      /\ {"in", "idle"} \intersect InFlight = {}
      /\ c \in Goroutine /\ c # "drain"
  BY DrainIsAlone DEF Place, InFlight
<1>1. CASE EnterFFICall(c)
  BY ZenonT(60), <1>0, <1>1, Moving DEF EnterFFICall, Goto, queue
<1>2. CASE ReturnFFICall(c)
  BY ZenonT(60), <1>0, <1>2, Moving DEF ReturnFFICall, Goto, queue
<1> QED
  BY <1>1, <1>2

\* leaving queue and goroutines alone does,
LEMMA StandingEases ==
  ASSUME IInv, UNCHANGED <<pending, draining, pc, event, emitted>>
  PROVE  Eases
  BY DEF IInv, Types, Eases

\* and so does what the host does to the sink.
LEMMA HostEases ==
  ASSUME IInv, HostStep
  PROVE  Eases
<1>1. UNCHANGED <<pending, draining, pc, event, emitted>>
  BY DEF HostStep, InitSink, InitFlag, RegisterStatusPort, SetSink, SetFlag,
         IsolateDies, IsolateStarts, queue
<1> QED
  BY <1>1, StandingEases

\* Before the first event nothing is queued.
LEMMA InitInv == Init => IInv
<1> SUFFICES ASSUME Init PROVE IInv
  OBVIOUS
<1> USE DrainIsAlone
<1>1. /\ pending = <<>> /\ draining = FALSE /\ emitted = 0
      /\ pc["drain"] = "off" /\ \A g \in Emitter \union Caller : pc[g] = "idle"
      /\ \A g \in Goroutine : event[g] = NoEvent
  BY DEF Init
<1>2. Flying = {} /\ Queued = {}
  BY <1>1 DEF Flying, Queued
<1>3. Types
  <2>1. NoEvent \in AnyEvent
    BY DEF NoEvent, AnyEvent
  <2>2. event \in [Goroutine -> AnyEvent]
    BY <2>1 DEF Init
  <2>3. pc \in [Goroutine -> Place]
    BY DEF Init, Place
  <2>4. draining \in BOOLEAN /\ emitted \in Nat
    BY ZenonT(60), <1>1
  <2>5. pending \in Seq(Event)
    <3>1. <<>> \in Seq(Event)
      OBVIOUS
    <3> QED
      BY <1>1, <3>1
  <2> QED
    BY <1>2, <2>2, <2>3, <2>4, <2>5 DEF Types
<1>4. Drains /\ Unawaited /\ InOrder /\ EmissionOrder
  BY <1>1, <1>2 DEF Drains, Unawaited, InOrder, EmissionOrder
<1>5. Numbered
  BY <1>1 DEF Numbered, NoEvent
<1>6. FewLogs
  BY <1>1 DEF FewLogs, LogsQueued
<1> QED
  BY <1>3, <1>4, <1>5, <1>6 DEF IInv

\* Every step keeps the invariant.
LEMMA Inductive == IInv /\ [Next]_vars => IInv'
<1> SUFFICES ASSUME IInv, [Next]_vars PROVE IInv'
  OBVIOUS
<1>1. CASE HostStep
  BY <1>1, HostEases, EaseKeeps
<1>2. CASE \E c \in Caller : EnterFFICall(c) \/ ReturnFFICall(c)
  BY <1>2, CallEases, EaseKeeps
<1>3. ASSUME NEW g \in Emitter \union Caller, EmitStep(g) PROVE IInv'
  <2>1. CASE LoadSink(g) \/ LoadFlag(g)
    BY <2>1, LoadEases, EaseKeeps
  <2>2. CASE OfferDeclines(g)
    BY <2>2, DeclineKeeps
  <2>3. CASE Offer(g)
    BY <2>3, OfferKeeps
  <2>4. CASE DeliverStep(g)
    BY <2>4, DrainIsAlone, DeliverEases, EaseKeeps
  <2> QED
    BY <1>3, <2>1, <2>2, <2>3, <2>4 DEF EmitStep
<1>4. ASSUME NEW g \in Emitter \union Caller, NEW k \in Kind, Emit(g, k) PROVE IInv'
  BY <1>4, EmitKeeps
<1>5. CASE DrainStep
  <2>1. CASE DeliverStep("drain")
    BY <2>1, DrainIsAlone, DeliverEases, EaseKeeps
  <2> QED
    BY <1>5, <2>1, TakeKeeps, EndKeeps DEF DrainStep
<1>6. CASE UNCHANGED vars
  <2>1. UNCHANGED <<pending, draining, pc, event, emitted>>
    BY <1>6 DEF vars, queue
  <2> QED
    BY <2>1, StandingEases, EaseKeeps
<1> QED
  BY <1>1, <1>2, <1>3, <1>4, <1>5, <1>6 DEF Next, Rest

\* So it holds throughout.
LEMMA Invariance == Spec => []IInv
  BY InitInv, Inductive, PTL DEF Spec

\* Delivery follows emission (status_sink.go, emitStatus and offer): an event is
\* handed to the sink only when every one whose emit had returned before its own
\* began is out of the queue, for any number of goroutines and events.
THEOREM EmissionOrdered == Spec => []EmissionOrder
<1>1. IInv => EmissionOrder
  BY DEF IInv
<1> QED
  BY <1>1, Invariance, PTL

-----------------------------------------------------------------------------
(* What the queue sheds. *)

\* A set whose members are all equal has at most one.
LEMMA OneAtMost ==
  ASSUME NEW S, \A x, y \in S : x = y
  PROVE  Cardinality(S) <= 1
<1>1. CASE S = {}
  BY <1>1, FS_EmptySet
<1>2. ASSUME NEW x \in S PROVE Cardinality(S) <= 1
  <2>1. S = {x}
    BY <1>2
  <2>2. Cardinality({x}) = 1
    BY FS_Singleton
  <2> QED
    BY <2>1, <2>2
<1> QED
  BY <1>1, <1>2

\* A step that leaves the queue alone loses nothing.
LEMMA UnchangedKeeps == pending' = pending => LifecycleKept
  BY DEF LifecycleKept

\* An event that joins the queue pushes no lifecycle event out.
LEMMA OfferKeepsLifecycle ==
  ASSUME NEW g \in Emitter \union Caller, IInv, Offer(g)
  PROVE  LifecycleKept
<1> DEFINE kept == IF Len(pending) >= maxDeferredStatus THEN dropOldestDroppable ELSE pending
<1>t. Types /\ pending \in Seq(Event)
  BY DEF IInv, Types
<1>1. kept \in Seq(Event) /\ \A a \in DOMAIN pending : pending[a].kind = "lifecycle" =>
          \E i \in DOMAIN kept : kept[i] = pending[a]
  <2>1. CASE kept = dropOldestDroppable
    BY <1>t, <2>1, Shedding
  <2>2. CASE kept = pending
    BY <1>t, <2>2
  <2> QED
    BY <2>1, <2>2
<1>2. pending' = Append(kept, event[g])
  BY DEF Offer
<1> HIDE DEF kept
<1>3. \A i \in DOMAIN kept : i \in DOMAIN pending' /\ pending'[i] = kept[i]
  BY <1>1, <1>2
<1> QED
  BY <1>1, <1>3 DEF LifecycleKept

\* The event the drain takes is the one it goes on to post.
LEMMA TakeKeepsLifecycle == IInv /\ DrainTake => LifecycleKept
<1> SUFFICES ASSUME IInv, DrainTake, NEW a \in DOMAIN pending
             PROVE  \/ pending[a] = event'["drain"]
                    \/ \E j \in DOMAIN pending' : pending[a] = pending'[j]
  BY DEF LifecycleKept
<1>t. pending \in Seq(Event) /\ event \in [Goroutine -> AnyEvent]
  BY DEF IInv, Types
<1>1. pending' = Tail(pending) /\ event' = [event EXCEPT !["drain"] = Head(pending)]
      /\ pending # <<>>
  BY DEF DrainTake
<1>2. CASE a = 1
  BY <1>t, <1>1, <1>2, DrainIsAlone
<1>3. CASE a # 1
  <2>1. a - 1 \in DOMAIN pending' /\ pending'[a - 1] = pending[a]
    BY <1>t, <1>1, <1>3
  <2> QED
    BY <2>1
<1> QED
  BY <1>2, <1>3

\* So no step loses a lifecycle event.
LEMMA StepKeepsLifecycle == IInv /\ [Next]_vars => LifecycleKept
<1> SUFFICES ASSUME IInv, [Next]_vars PROVE LifecycleKept
  OBVIOUS
<1>1. CASE HostStep
  BY <1>1, HostEases, UnchangedKeeps DEF Eases
<1>2. CASE \E c \in Caller : EnterFFICall(c) \/ ReturnFFICall(c)
  BY <1>2, CallEases, UnchangedKeeps DEF Eases
<1>3. ASSUME NEW g \in Emitter \union Caller, EmitStep(g) PROVE LifecycleKept
  <2>1. CASE LoadSink(g) \/ LoadFlag(g)
    BY <2>1, LoadEases, UnchangedKeeps DEF Eases
  <2>2. CASE OfferDeclines(g)
    BY <2>2, UnchangedKeeps DEF OfferDeclines, queue
  <2>3. CASE Offer(g)
    BY <2>3, OfferKeepsLifecycle
  <2>4. CASE DeliverStep(g)
    BY <2>4, DrainIsAlone, DeliverEases, UnchangedKeeps DEF Eases
  <2> QED
    BY <1>3, <2>1, <2>2, <2>3, <2>4 DEF EmitStep
<1>4. ASSUME NEW g \in Emitter \union Caller, NEW k \in Kind, Emit(g, k)
      PROVE  LifecycleKept
  BY <1>4, UnchangedKeeps DEF Emit, queue
<1>5. CASE DrainStep
  <2>1. CASE DeliverStep("drain")
    BY <2>1, DrainIsAlone, DeliverEases, UnchangedKeeps DEF Eases
  <2>2. CASE DrainEnds
    BY <2>2, UnchangedKeeps DEF DrainEnds
  <2> QED
    BY <1>5, <2>1, <2>2, TakeKeepsLifecycle DEF DrainStep
<1>6. CASE UNCHANGED vars
  BY <1>6, UnchangedKeeps DEF vars, queue
<1> QED
  BY <1>1, <1>2, <1>3, <1>4, <1>5, <1>6 DEF Next, Rest

\* The queue gives up log events only (status_sink.go, dropOldestDroppable): a
\* lifecycle event leaves for the drain alone, and past the limit one log event
\* is left at most, whatever the limit is.
THEOREM LifecycleNeverShed == Spec => OnlyLogsShed
<1> DEFINE Step == /\ LifecycleKept
                   /\ Len(pending') > maxDeferredStatus => Cardinality(LogsQueued') <= 1
<1>1. IInv /\ IInv' /\ [Next]_vars => [Step]_vars
  <2> SUFFICES ASSUME IInv, IInv', [Next]_vars PROVE Step
    OBVIOUS
  <2>1. Len(pending') > maxDeferredStatus => Cardinality(LogsQueued') <= 1
    <3>1. Len(pending') > maxDeferredStatus => \A i, j \in LogsQueued' : i = j
      BY DEF IInv, FewLogs
    <3> QED
      BY <3>1, OneAtMost
  <2> QED
    BY <2>1, StepKeepsLifecycle
<1> QED
  BY <1>1, Invariance, PTL DEF Spec, OnlyLogsShed
=============================================================================
