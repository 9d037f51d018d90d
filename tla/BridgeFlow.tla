----------------------------- MODULE BridgeFlow -----------------------------
(***************************************************************************)
(* One UDP flow tun2socks hands to an engine (core/bridge_flow.go), with   *)
(* the read deadline it shares with the pipe, the goroutine that brings    *)
(* xray's replies to it (core/xray_bridge.go) and the session check of     *)
(* mihomo's datagrams (core/engine_mihomo_bridge_proxy.go).                *)
(*                                                                         *)
(* The goroutines: the copy loop that reads replies, the one that writes   *)
(* datagrams, whoever moves the deadline, whoever closes the flow, the     *)
(* deadline's timers and, for xray, the reply pump.                        *)
(***************************************************************************)
EXTENDS Integers

CONSTANTS
    Queue,      \* bridgeFlowQueue
    MaxSets,    \* bound: deadlines set in a behaviour
    MaxWrites   \* bound: datagrams written in a behaviour

ASSUME BoundAssumption == Queue \in Nat /\ MaxSets \in Nat /\ MaxWrites \in Nat

VARIABLES
    engine,     \* the engine the flow was handed to
    ended,      \* the session's generation has moved on
    done,       \* the flow's done channel is closed
    closing,    \* how far the one Close is
    linkUp,     \* xray's link for the flow is open
    pump,       \* xray's reply goroutine
    replies,    \* replies queued
    rpc, waits, \* ReadFrom: where it is, and the deadline channel it waits on
    wpc, late,  \* WriteTo: where it is, and whether it began after the end
    writes,     \* datagrams written
    handedLate, \* a datagram of an ended session reached mihomo's tunnel
    mutex,      \* who holds the deadline's mutex: "none", "user" or "close"
    spc,        \* where that set is
    sets,       \* deadlines set
    expired,    \* the deadline's current channel
    closed,     \* the deadline channels that are closed
    timer,      \* d.timer: "nil", "armed", or "spent" once it fired
    firing,     \* the channels fired timers have yet to close
    panicked    \* a timer closed a closed channel

session == <<engine, ended>>
life == <<done, closing, linkUp, pump>>
read == <<replies, rpc, waits>>
write == <<wpc, late, writes, handedLate>>
holder == <<mutex, spc, sets>>
channels == <<expired, closed, timer, firing, panicked>>
vars == <<session, life, read, write, holder, channels>>

\* DialUDP, in a session that lives.
Init ==
    /\ engine \in {"xray", "mihomo"} /\ ended = FALSE
    /\ done = FALSE /\ closing = "no"
    /\ linkUp = (engine = "xray") /\ pump = IF engine = "xray" THEN "on" ELSE "off"
    /\ replies = 0 /\ rpc = "idle" /\ waits = 0
    /\ wpc = "idle" /\ late = FALSE /\ writes = 0 /\ handedLate = FALSE
    /\ mutex = "none" /\ spc = "off" /\ sets = 0
    /\ expired = 0 /\ closed = {} /\ timer = "nil" /\ firing = {}
    /\ panicked = FALSE

-----------------------------------------------------------------------------
(* Replies. *)

\* A reply from dst: queued, or dropped when the queue is full.
Queued == IF replies < Queue THEN replies + 1 ELSE replies

\* mihomo's WriteBack, and the answer of a hijacked DNS query.
Deliver ==
    /\ engine = "mihomo" /\ ~done
    /\ replies' = Queued
    /\ UNCHANGED <<session, life, rpc, waits, write, holder, channels>>

PumpDelivers ==
    /\ pump = "on" /\ linkUp
    /\ replies' = IF done THEN replies ELSE Queued
    /\ UNCHANGED <<session, life, rpc, waits, write, holder, channels>>

ReadFrom ==
    /\ rpc = "idle"
    /\ rpc' = IF done THEN "idle" ELSE "checked"
    /\ UNCHANGED <<session, life, replies, waits, write, holder, channels>>

\* wait() takes the deadline's mutex; then the select waits.
ReadWaits ==
    /\ rpc = "checked" /\ mutex = "none"
    /\ rpc' = "select" /\ waits' = expired
    /\ UNCHANGED <<session, life, replies, write, holder, channels>>

ReadReturns ==
    /\ rpc = "select"
    /\ \/ replies > 0 /\ replies' = replies - 1
       \/ (done \/ waits \in closed) /\ UNCHANGED replies
    /\ rpc' = "idle" /\ waits' = 0
    /\ UNCHANGED <<session, life, write, holder, channels>>

-----------------------------------------------------------------------------
(* Datagrams. *)

SessionEnds ==
    /\ ~ended /\ ended' = TRUE
    /\ UNCHANGED <<engine, life, read, write, holder, channels>>

WriteTo ==
    /\ wpc = "idle" /\ writes < MaxWrites
    /\ writes' = writes + 1
    /\ wpc' = IF done THEN "idle" ELSE "send"
    /\ late' = (ended /\ ~done)
    /\ UNCHANGED <<session, life, read, handedLate, holder, channels>>

\* send: mihomo's checks the session, xray's writes to the link.
Send ==
    /\ wpc = "send"
    /\ wpc' = IF engine = "mihomo" /\ ~ended THEN "hand" ELSE "idle"
    /\ UNCHANGED <<session, life, read, late, writes, handedLate, holder, channels>>

\* HandleUDPPacket.
Hand ==
    /\ wpc = "hand" /\ wpc' = "idle"
    /\ handedLate' = (handedLate \/ late)
    /\ UNCHANGED <<session, life, read, late, writes, holder, channels>>

-----------------------------------------------------------------------------
(* Close, once, by the user or by the pump when its link ends. *)

Close ==
    /\ closing = "no"
    /\ closing' = "set" /\ done' = TRUE
    /\ UNCHANGED <<session, linkUp, pump, read, write, holder, channels>>

\* Mutant: xray's link is left to its idle timeout.
ReleaseNot ==
    /\ closing = "release" /\ closing' = "done"
    /\ UNCHANGED <<session, done, linkUp, pump, read, write, holder, channels>>

\* release: the link's writer is closed, its reader interrupted.
Release ==
    /\ closing = "release" /\ closing' = "done"
    /\ linkUp' = FALSE
    /\ UNCHANGED <<session, done, pump, read, write, holder, channels>>

\* xray ends the link: the server closed it, or the instance is stopped.
LinkEnds ==
    /\ linkUp /\ linkUp' = FALSE
    /\ UNCHANGED <<session, done, closing, pump, read, write, holder, channels>>

\* ReadMultiBuffer fails: the deferred flow.Close runs, or joins the one running.
PumpEnds ==
    /\ pump = "on" /\ ~linkUp
    /\ pump' = "close"
    /\ closing' = IF closing = "no" THEN "set" ELSE closing
    /\ done' = TRUE
    /\ UNCHANGED <<session, linkUp, read, write, holder, channels>>

PumpReturns ==
    /\ pump = "close" /\ closing = "done"
    /\ pump' = "off"
    /\ UNCHANGED <<session, done, closing, linkUp, read, write, holder, channels>>

-----------------------------------------------------------------------------
(* bridgeDeadline. *)

\* d.mu.Lock and timer.Stop: a timer that has fired is waited for.
Lock(who) ==
    /\ mutex = "none" /\ mutex' = who
    /\ spc' = IF timer = "spent" THEN "wait" ELSE "set"
    /\ timer' = IF timer = "armed" THEN "nil" ELSE timer
    /\ UNCHANGED <<session, life, read, write, expired, closed, firing, panicked>>

SetReadDeadline ==
    /\ sets < MaxSets /\ sets' = sets + 1
    /\ Lock("user")

CloseSets ==
    /\ closing = "set"
    /\ Lock("close")
    /\ UNCHANGED sets

\* <-d.expired.
SetWait ==
    /\ spc = "wait" /\ expired \in closed
    /\ spc' = "set" /\ timer' = "nil"
    /\ UNCHANGED <<session, life, read, write, mutex, sets, expired, closed, firing, panicked>>

Unlock ==
    /\ spc = "set"
    /\ spc' = "off" /\ mutex' = "none"
    /\ closing' = IF mutex = "close" THEN "release" ELSE closing
    /\ UNCHANGED <<session, done, linkUp, pump, read, write, sets, firing, panicked>>

\* Mutant: every set makes a channel.
FreshAlways == expired + 1

\* The channel a cleared or later deadline uses: a closed one is replaced.
Fresh == IF expired \in closed THEN expired + 1 ELSE expired

\* The zero time: no deadline.
SetNone ==
    /\ Unlock
    /\ expired' = Fresh
    /\ UNCHANGED <<closed, timer>>

SetFuture ==
    /\ mutex = "user" /\ Unlock
    /\ expired' = Fresh /\ timer' = "armed"
    /\ UNCHANGED closed

\* A time already past closes the channel unless it is closed.
SetPast ==
    /\ mutex = "user" /\ Unlock
    /\ closed' = closed \union {expired}
    /\ UNCHANGED <<expired, timer>>

\* The timer's channel is the one it was armed with: no set replaces the
\* channel before it stopped the timer or waited for it.
TimerFires ==
    /\ timer = "armed" /\ timer' = "spent"
    /\ firing' = firing \union {expired}
    /\ UNCHANGED <<session, life, read, write, holder, expired, closed, panicked>>

TimerCloses == \E c \in firing :
    /\ closed' = closed \union {c}
    /\ panicked' = (panicked \/ c \in closed)
    /\ firing' = firing \ {c}
    /\ UNCHANGED <<session, life, read, write, holder, expired, timer>>

-----------------------------------------------------------------------------
SetStep == SetWait \/ SetNone \/ SetFuture \/ SetPast
CloseStep == CloseSets \/ Release
PumpStep == PumpEnds \/ PumpReturns
ReadStep == ReadWaits \/ ReadReturns
WriteStep == Send \/ Hand

Next ==
    \/ Deliver \/ PumpDelivers \/ ReadFrom \/ ReadStep
    \/ SessionEnds \/ WriteTo \/ WriteStep
    \/ Close \/ CloseStep \/ LinkEnds \/ PumpStep
    \/ SetReadDeadline \/ SetStep \/ TimerFires \/ TimerCloses

Spec == Init /\ [][Next]_vars

\* Goroutines that can go on do, timers included, and Go's mutex is handed to
\* one that waits; calls and the session's end are the users'.
Fairness ==
    /\ WF_vars(ReadReturns) /\ SF_vars(ReadWaits) /\ WF_vars(WriteStep)
    /\ SF_vars(CloseSets) /\ WF_vars(Release) /\ WF_vars(PumpStep)
    /\ WF_vars(SetStep) /\ WF_vars(TimerFires) /\ WF_vars(TimerCloses)

FairSpec == Spec /\ Fairness

-----------------------------------------------------------------------------
(* Properties. *)

\* The channel a waiting ReadFrom holds is the deadline's own as long as it is
\* open, so a deadline moved by another goroutine moves it for that read too.
WaiterSeesDeadline == rpc = "select" => waits = expired \/ waits \in closed

\* Moving a deadline as its timer fires never closes a channel twice, which
\* would panic in the timer's goroutine.
NoDoubleClose == ~panicked

\* A datagram written after the session ended never reaches mihomo's tunnel,
\* which would route it with DIRECT alone.
LateDatagramRefused == ~handedLate

\* A closed flow is let go of: its reader returns and xray's link and reply
\* goroutine end, whichever side closed and whatever the deadline was doing,
\* and set never keeps the deadline's mutex waiting for a timer.
CloseReleases ==
    /\ mutex # "none" ~> mutex = "none"
    /\ done /\ rpc # "idle" ~> rpc = "idle"
    /\ done ~> closing = "done" /\ ~linkUp /\ pump = "off"
=============================================================================
