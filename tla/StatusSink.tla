----------------------------- MODULE StatusSink -----------------------------
(***************************************************************************)
(* Delivery of status events to the host: emitStatus, the deferred queue   *)
(* and its drain, the FFI flag, and the registration of the host's port    *)
(* (internal/core/status_sink.go, controller.go, ffi_helpers.go, main.go). *)
(*                                                                         *)
(* An event is emitted by a background goroutine or by a caller inside an  *)
(* FFI export; it is posted to the host by that goroutine itself or by the *)
(* drain.  The sink registered by main.go posts to the port registered     *)
(* last, whichever registration it came from, so only its presence counts. *)
(***************************************************************************)
EXTENDS Integers, Sequences, FiniteSets

CONSTANTS
    Emitter,            \* background goroutines that emit
    Caller,             \* host threads that make FFI calls
    maxDeferredStatus,  \* the queue's limit (2048)
    MaxEvents,          \* bound: events emitted in a behaviour
    MaxIsolates         \* bound: host isolates that live in a behaviour

ASSUME LimitAssumption == maxDeferredStatus \in Nat \ {0}
ASSUME BoundAssumption == MaxEvents \in Nat /\ MaxIsolates \in Nat \ {0}
ASSUME ProcessAssumption ==
    Emitter \intersect Caller = {} /\ "drain" \notin Emitter \union Caller

VARIABLES
    port,       \* g_dart_port: the isolate it belongs to, or 0
    sink,       \* statusSink holds a callback
    registered, \* statusCallbackRegistered
    inFFICall,
    pending,    \* statusQueue.pending
    draining,   \* statusQueue.draining
    pc,         \* per goroutine, the drain included
    event,      \* per goroutine, the event it handles
    mustDefer,  \* per goroutine, inFFICall as it read it
    isolate,    \* the newest host isolate
    hostPc,     \* what that isolate does next, or "up", or "dead"
    emitted     \* number of events emitted

Goroutine == Emitter \union Caller \union {"drain"}
registration == <<port, sink, registered>>
queue == <<pending, draining>>
host == <<isolate, hostPc>>
vars == <<registration, inFFICall, queue, pc, event, mustDefer, host, emitted>>

Kind == {"lifecycle", "log"}
NoEvent == [id |-> 0, kind |-> "none", ahead |-> {}]

Init ==
    /\ port = 0 /\ sink = FALSE /\ registered = FALSE
    /\ inFFICall = FALSE
    /\ pending = <<>> /\ draining = FALSE
    /\ pc = [g \in Goroutine |-> IF g = "drain" THEN "off" ELSE "idle"]
    /\ event = [g \in Goroutine |-> NoEvent]
    /\ mustDefer = [g \in Goroutine |-> FALSE]
    /\ isolate = 1 /\ hostPc = "initSink"
    /\ emitted = 0

Goto(g, from, to) ==
    /\ pc[g] = from
    /\ pc' = [pc EXCEPT ![g] = to]

-----------------------------------------------------------------------------
(* The host: InitDartApiDL, then RegisterStatusPort, once per isolate. *)

HostAt(from, to) ==
    /\ hostPc = from
    /\ hostPc' = to
    /\ UNCHANGED isolate

\* InitDartApiDL clears the port; OnDartApiInit then clears sink and flag.
InitSink ==
    /\ HostAt("initSink", "initFlag")
    /\ port' = 0
    /\ sink' = FALSE
    /\ UNCHANGED <<registered, inFFICall, queue, pc, event, mustDefer, emitted>>

InitFlag ==
    /\ HostAt("initFlag", "register")
    /\ registered' = FALSE
    /\ UNCHANGED <<port, sink, inFFICall, queue, pc, event, mustDefer, emitted>>

RegisterStatusPort ==
    /\ HostAt("register", "setSink")
    /\ port' = isolate
    /\ UNCHANGED <<sink, registered, inFFICall, queue, pc, event, mustDefer,
                   emitted>>

SetSink ==
    /\ HostAt("setSink", "setFlag")
    /\ sink' = TRUE
    /\ UNCHANGED <<port, registered, inFFICall, queue, pc, event, mustDefer,
                   emitted>>

SetFlag ==
    /\ HostAt("setFlag", "up")
    /\ registered' = TRUE
    /\ UNCHANGED <<port, sink, inFFICall, queue, pc, event, mustDefer, emitted>>

\* Hot restart: the isolate's port is dead from here on.
IsolateDies ==
    /\ HostAt("up", "dead")
    /\ UNCHANGED <<registration, inFFICall, queue, pc, event, mustDefer, emitted>>

IsolateStarts ==
    /\ hostPc = "dead" /\ isolate < MaxIsolates
    /\ hostPc' = "initSink"
    /\ isolate' = isolate + 1
    /\ UNCHANGED <<registration, inFFICall, queue, pc, event, mustDefer, emitted>>

-----------------------------------------------------------------------------
(* FFI calls. *)

\* runFFICall: EngineStart and EngineStop.
EnterFFICall(c) ==
    /\ Goto(c, "idle", "in")
    /\ inFFICall' = TRUE
    /\ UNCHANGED <<registration, queue, event, mustDefer, host, emitted>>

ReturnFFICall(c) ==
    /\ Goto(c, "in", "idle")
    /\ inFFICall' = FALSE
    /\ UNCHANGED <<registration, queue, event, mustDefer, host, emitted>>

-----------------------------------------------------------------------------
(* emitStatus. *)

Base(g) == IF g \in Caller THEN "in" ELSE "idle"

\* The events whose emit has returned and that are not delivered yet.
Queued == {pending[i].id : i \in DOMAIN pending}
              \union (IF pc["drain"] = "post" THEN {event["drain"].id} ELSE {})

\* Without a registered sink the event goes nowhere.
Emit(g, k) ==
    /\ Goto(g, Base(g), "sink")
    /\ emitted < MaxEvents
    /\ registered
    /\ emitted' = emitted + 1
    /\ event' = [event EXCEPT ![g] = [id |-> emitted', kind |-> k, ahead |-> Queued]]
    /\ UNCHANGED <<registration, inFFICall, queue, mustDefer, host>>

LoadSink(g) ==
    /\ Goto(g, "sink", IF sink THEN "flag" ELSE Base(g))
    /\ event' = IF sink THEN event ELSE [event EXCEPT ![g] = NoEvent]
    /\ UNCHANGED <<registration, inFFICall, queue, mustDefer, host, emitted>>

LoadFlag(g) ==
    /\ Goto(g, "flag", "offer")
    /\ mustDefer' = [mustDefer EXCEPT ![g] = inFFICall]
    /\ UNCHANGED <<registration, inFFICall, queue, event, host, emitted>>

MustQueueInCall(g) == mustDefer[g]
\* The event must wait: for the export to return, or for those queued before it.
MustQueue(g) == mustDefer[g] \/ draining

OfferDeclines(g) ==
    /\ Goto(g, "offer", "post")
    /\ ~MustQueue(g)
    /\ UNCHANGED <<registration, inFFICall, queue, event, mustDefer, host, emitted>>

DropOldest == Tail(pending)
\* The oldest log event goes; when there is none, nothing does.
dropOldestDroppable ==
    LET droppable == {i \in DOMAIN pending : pending[i].kind = "log"}
        oldest == CHOOSE i \in droppable : \A j \in droppable : i <= j
    IN  IF droppable = {} THEN pending
        ELSE SubSeq(pending, 1, oldest - 1) \o SubSeq(pending, oldest + 1, Len(pending))

\* offer queues the event, and starts the drain when none runs.
Offer(g) ==
    /\ pc[g] = "offer"
    /\ MustQueue(g)
    /\ pending' = Append(IF Len(pending) >= maxDeferredStatus THEN dropOldestDroppable
                                                             ELSE pending, event[g])
    /\ draining' = TRUE
    /\ pc' = [pc EXCEPT ![g] = Base(g), !["drain"] = IF draining THEN @ ELSE "take"]
    /\ event' = [event EXCEPT ![g] = NoEvent]
    /\ mustDefer' = [mustDefer EXCEPT ![g] = FALSE]
    /\ UNCHANGED <<registration, inFFICall, host, emitted>>

-----------------------------------------------------------------------------
(* drain, and the sink main.go registers. *)

DrainTake ==
    /\ pc["drain"] = "take"
    /\ pending # <<>>
    /\ event' = [event EXCEPT !["drain"] = Head(pending)]
    /\ pending' = Tail(pending)
    /\ pc' = [pc EXCEPT !["drain"] = "post"]
    /\ UNCHANGED <<registration, inFFICall, draining, mustDefer, host, emitted>>

DrainEnds ==
    /\ Goto("drain", "take", "off")
    /\ pending = <<>>
    /\ draining' = FALSE
    /\ UNCHANGED <<registration, inFFICall, pending, event, mustDefer, host, emitted>>

After(g) == IF g = "drain" THEN "take" ELSE Base(g)

PortAlive == port = isolate /\ hostPc # "dead"

\* post_status_to_port succeeds: the host has the event.
Post(g) ==
    /\ Goto(g, "post", After(g))
    /\ PortAlive
    /\ event' = [event EXCEPT ![g] = NoEvent]
    /\ UNCHANGED <<registration, inFFICall, queue, mustDefer, host, emitted>>

\* Mutant: a failed post is retried on the same port.
PostFailsRetries(g) == pc[g] = "post" /\ ~PortAlive /\ UNCHANGED vars

\* It fails: no port, or that of a dead isolate.  The event is lost.
PostFails(g) ==
    /\ Goto(g, "post", "closePort")
    /\ ~PortAlive
    /\ event' = [event EXCEPT ![g] = NoEvent]
    /\ UNCHANGED <<registration, inFFICall, queue, mustDefer, host, emitted>>

ClosePort(g) ==
    /\ Goto(g, "closePort", "closeSink")
    /\ port' = 0
    /\ UNCHANGED <<sink, registered, inFFICall, queue, event, mustDefer, host,
                   emitted>>

CloseSink(g) ==
    /\ Goto(g, "closeSink", "closeFlag")
    /\ sink' = FALSE
    /\ UNCHANGED <<port, registered, inFFICall, queue, event, mustDefer, host,
                   emitted>>

CloseFlag(g) ==
    /\ Goto(g, "closeFlag", After(g))
    /\ registered' = FALSE
    /\ UNCHANGED <<port, sink, inFFICall, queue, event, mustDefer, host, emitted>>

-----------------------------------------------------------------------------
(* The specification. *)

HostStep ==
    \/ InitSink \/ InitFlag \/ RegisterStatusPort \/ SetSink \/ SetFlag
    \/ IsolateDies \/ IsolateStarts

DeliverStep(g) ==
    Post(g) \/ PostFails(g) \/ ClosePort(g) \/ CloseSink(g) \/ CloseFlag(g)

EmitStep(g) ==
    LoadSink(g) \/ LoadFlag(g) \/ OfferDeclines(g) \/ Offer(g) \/ DeliverStep(g)

DrainStep == DrainTake \/ DrainEnds \/ DeliverStep("drain")

\* Nothing is being emitted or delivered, and the host is not restarting.
Idle ==
    /\ \A g \in Emitter \union Caller : pc[g] = "idle"
    /\ pc["drain"] = "off"
    /\ hostPc \in {"up", "dead"}

Rest == Idle /\ UNCHANGED vars

Next ==
    \/ HostStep
    \/ \E c \in Caller : EnterFFICall(c) \/ ReturnFFICall(c)
    \/ \E g \in Emitter \union Caller :
           EmitStep(g) \/ \E k \in Kind : Emit(g, k)
    \/ DrainStep
    \/ Rest

Spec == Init /\ [][Next]_vars

\* A goroutine that can run does; the sink returns promptly, as its comment asks.
Fairness ==
    /\ \A g \in Emitter \union Caller : WF_vars(EmitStep(g))
    /\ WF_vars(DrainStep)

FairSpec == Spec /\ Fairness

-----------------------------------------------------------------------------
(* Properties. *)

\* An event is not handed to the sink while one whose emitStatus had returned
\* before its own began still waits: "one sent after the export returns cannot
\* overtake one sent during it".
EmissionOrder ==
    \A g \in Goroutine : pc[g] = "post" =>
        event[g].ahead \intersect (Queued \ {event[g].id}) = {}

\* A lifecycle event stays in the queue, or the drain takes it.
LifecycleKept ==
    \A i \in DOMAIN pending :
        pending[i].kind = "lifecycle" =>
            \/ pending[i] = event'["drain"]
            \/ \E j \in DOMAIN pending' : pending[i] = pending'[j]

LogsQueued == {i \in DOMAIN pending : pending[i].kind = "log"}

\* A lifecycle event leaves the queue only for the drain that delivers it, and
\* past its limit the queue grows by lifecycle events alone: however events
\* come and go, it then holds at most one log event.
OnlyLogsShed ==
    [][/\ LifecycleKept
       /\ Len(pending') > maxDeferredStatus => Cardinality(LogsQueued') <= 1]_vars

\* Every queued event is delivered or given up, however many come after it.
QueueDrains ==
    \A i \in 1..MaxEvents : i \in Queued ~> i \notin Queued
=============================================================================
