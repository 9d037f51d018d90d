-------------------------- MODULE BridgeFlowProofs --------------------------
(***************************************************************************)
(* Proofs about BridgeFlow for any queue and any number of deadlines and   *)
(* datagrams: the channels of bridgeDeadline, and datagrams that outlive   *)
(* their session.                                                          *)
(***************************************************************************)
EXTENDS BridgeFlow, TLAPS

\* Every leaf is small; the limits leave room for a loaded machine.
USE SMTT(60), ZenonT(60)

DeadlineTypes ==
    /\ expired \in Nat /\ closed \subseteq 0..expired
    /\ timer \in {"nil", "armed", "spent"} /\ spc \in {"off", "wait", "set"}

\* A set under way has the timer stopped, or waits for it until it has none.
SetHasTimer ==
    /\ spc = "wait" => timer = "spent"
    /\ spc = "set" => timer = "nil"

\* An armed timer will find its channel open, and one that fired and has yet to
\* close a channel holds the current one, still open.
TimerHasChannel ==
    /\ timer = "armed" => expired \notin closed
    /\ firing \subseteq {expired}
    /\ firing # {} => timer = "spent" /\ expired \notin closed

DeadlineInv ==
    /\ DeadlineTypes /\ SetHasTimer /\ TimerHasChannel
    /\ WaiterSeesDeadline /\ NoDoubleClose

\* A datagram past the session check was not late, and a late one on its way
\* there finds the session over.
LateInv ==
    /\ wpc = "hand" => ~late
    /\ wpc = "send" /\ late => ended
    /\ LateDatagramRefused

FlowInv == DeadlineInv /\ LateInv

\* A flow as it is dialed satisfies the invariant.
LEMMA FlowInitInv == Init => FlowInv
  <1> SUFFICES ASSUME Init PROVE FlowInv
    OBVIOUS
  <1>1. DeadlineTypes /\ SetHasTimer /\ TimerHasChannel
    BY DEF Init, DeadlineTypes, SetHasTimer, TimerHasChannel
  <1>2. WaiterSeesDeadline /\ NoDoubleClose /\ LateInv
    BY DEF Init, WaiterSeesDeadline, NoDoubleClose, LateInv, LateDatagramRefused
  <1> QED BY <1>1, <1>2 DEF FlowInv, DeadlineInv

-----------------------------------------------------------------------------
(* The deadline. *)

\* Whoever takes the mutex stops the timer, or goes to wait for it.
LEMMA LockKeeps ==
  ASSUME DeadlineInv, NEW who, Lock(who)
  PROVE  DeadlineInv'
  BY DEF DeadlineInv, DeadlineTypes, SetHasTimer, TimerHasChannel,
         WaiterSeesDeadline, NoDoubleClose, Lock, read

\* The channel a set goes on with is open, and the one it replaces is closed.
LEMMA FreshIsOpen ==
  ASSUME DeadlineTypes
  PROVE  /\ Fresh \in Nat /\ Fresh \notin closed /\ closed \subseteq 0..Fresh
         /\ Fresh # expired => expired \in closed
  BY DEF DeadlineTypes, Fresh

\* A set ends: its channel is fresh, with a timer armed on it or none, or it is
\* the one it had, closed.
LEMMA SetKeeps ==
  ASSUME DeadlineInv, Unlock,
         \/ expired' = Fresh /\ closed' = closed /\ timer' \in {timer, "armed"}
         \/ expired' = expired /\ closed' = closed \union {expired} /\ timer' = timer
  PROVE  DeadlineInv'
  <1> USE DEF DeadlineInv
  <1>1. /\ spc = "set" /\ timer = "nil" /\ firing = {}
        /\ spc' = "off" /\ firing' = firing /\ panicked' = panicked
        /\ rpc' = rpc /\ waits' = waits
    BY DEF Unlock, SetHasTimer, TimerHasChannel, read
  <1>2. CASE expired' = Fresh /\ closed' = closed /\ timer' \in {timer, "armed"}
    <2>1. DeadlineTypes' /\ SetHasTimer' /\ TimerHasChannel'
      BY <1>1, <1>2, FreshIsOpen DEF DeadlineTypes, SetHasTimer, TimerHasChannel
    <2>2. WaiterSeesDeadline' /\ NoDoubleClose'
      BY <1>1, <1>2, FreshIsOpen DEF WaiterSeesDeadline, NoDoubleClose
    <2> QED BY <2>1, <2>2
  <1>3. CASE expired' = expired /\ closed' = closed \union {expired} /\ timer' = timer
    BY <1>1, <1>3 DEF DeadlineTypes, SetHasTimer, TimerHasChannel,
                      WaiterSeesDeadline, NoDoubleClose
  <1> QED BY <1>2, <1>3

\* The timer that fired closes a channel nobody closed (time.AfterFunc's close).
LEMMA TimerKeeps ==
  ASSUME DeadlineInv, TimerCloses
  PROVE  DeadlineInv'
  <1> USE DEF DeadlineInv
  <1>1. PICK c \in firing : /\ closed' = closed \union {c}
                            /\ panicked' = (panicked \/ c \in closed)
                            /\ firing' = firing \ {c}
    BY DEF TimerCloses
  <1>2. c = expired /\ expired \notin closed /\ timer = "spent" /\ firing' = {}
    BY <1>1 DEF TimerHasChannel
  <1>3. ~panicked'
    BY ZenonT(60), <1>1, <1>2 DEF NoDoubleClose
  <1>4. UNCHANGED <<rpc, waits, spc, expired, timer>>
    BY DEF TimerCloses, read, holder
  <1>5. closed' = closed \union {expired} /\ DeadlineTypes'
    BY <1>1, <1>2, <1>4 DEF DeadlineTypes
  <1>6. SetHasTimer' /\ TimerHasChannel'
    BY <1>2, <1>4 DEF SetHasTimer, TimerHasChannel
  <1>7. WaiterSeesDeadline'
    BY <1>4, <1>5 DEF WaiterSeesDeadline
  <1> QED BY <1>3, <1>5, <1>6, <1>7 DEF NoDoubleClose

\* A step that leaves the deadline alone; a read it begins waits on the
\* current channel (wait).
DeadlineRests ==
    /\ UNCHANGED <<spc, channels>>
    /\ rpc' = "select" => (rpc = "select" /\ waits' = waits) \/ waits' = expired

\* Such a step keeps the deadline's channels in order.
LEMMA RestKeeps ==
  ASSUME DeadlineInv, DeadlineRests
  PROVE  DeadlineInv'
  BY DEF DeadlineInv, DeadlineTypes, SetHasTimer, TimerHasChannel,
         WaiterSeesDeadline, NoDoubleClose, DeadlineRests, channels

\* Every step keeps the deadline's channels in order.
LEMMA DeadlineStep ==
  ASSUME DeadlineInv, [Next]_vars
  PROVE  DeadlineInv'
  <1>1. CASE Deliver \/ PumpDelivers \/ ReadFrom \/ ReadStep
    <2>1. DeadlineRests
      BY <1>1 DEF Deliver, PumpDelivers, ReadFrom, ReadStep, ReadWaits,
                  ReadReturns, DeadlineRests, holder
    <2> QED BY <2>1, RestKeeps
  <1>2. CASE SessionEnds \/ WriteTo \/ WriteStep \/ UNCHANGED vars
    <2>1. DeadlineRests
      BY <1>2 DEF SessionEnds, WriteTo, WriteStep, Send, Hand, vars,
                  DeadlineRests, holder, read
    <2> QED BY <2>1, RestKeeps
  <1>3. CASE Close \/ Release \/ LinkEnds \/ PumpStep
    <2>1. DeadlineRests
      BY <1>3 DEF Close, Release, LinkEnds, PumpStep, PumpEnds, PumpReturns,
                  DeadlineRests, holder, read
    <2> QED BY <2>1, RestKeeps
  <1>4. CASE CloseSets \/ SetReadDeadline
    BY <1>4, LockKeeps DEF CloseSets, SetReadDeadline
  <1>5. CASE SetWait
    BY <1>5 DEF DeadlineInv, DeadlineTypes, SetHasTimer, TimerHasChannel,
                WaiterSeesDeadline, NoDoubleClose, SetWait, read
  <1>6. CASE SetNone \/ SetFuture \/ SetPast
    BY <1>6, SetKeeps DEF SetNone, SetFuture, SetPast
  <1>7. CASE TimerFires
    BY <1>7 DEF DeadlineInv, DeadlineTypes, SetHasTimer, TimerHasChannel,
                WaiterSeesDeadline, NoDoubleClose, TimerFires, read, holder
  <1>8. CASE TimerCloses
    BY <1>8, TimerKeeps
  <1> QED BY <1>1, <1>2, <1>3, <1>4, <1>5, <1>6, <1>7, <1>8
          DEF Next, CloseStep, SetStep

-----------------------------------------------------------------------------
(* Datagrams. *)

\* Every step keeps late datagrams before the session check.
LEMMA LateStep ==
  ASSUME LateInv, [Next]_vars
  PROVE  LateInv'
  <1> USE DEF LateInv, LateDatagramRefused
  <1>1. CASE WriteTo
    BY ZenonT(60), <1>1 DEF WriteTo, session
  <1>2. CASE Send
    BY ZenonT(60), <1>2 DEF Send, session
  <1>3. CASE Hand
    BY ZenonT(60), <1>3 DEF Hand, session
  <1>4. CASE SessionEnds
    BY <1>4 DEF SessionEnds, write
  <1>5. CASE UNCHANGED <<session, write>>
    BY <1>5 DEF session, write
  <1>6. ASSUME \/ Deliver \/ PumpDelivers \/ ReadFrom \/ ReadStep
               \/ Close \/ CloseStep \/ LinkEnds \/ PumpStep
        PROVE  UNCHANGED <<session, write>>
    BY <1>6 DEF Deliver, PumpDelivers, ReadFrom, ReadStep, ReadWaits, ReadReturns,
                Close, CloseStep, CloseSets, Lock, Release, LinkEnds, PumpStep,
                PumpEnds, PumpReturns
  <1>7. ASSUME SetReadDeadline \/ SetStep \/ TimerFires \/ TimerCloses
        PROVE  UNCHANGED <<session, write>>
    BY <1>7 DEF SetReadDeadline, Lock, SetStep, SetWait, SetNone, SetFuture,
                SetPast, Unlock, TimerFires, TimerCloses
  <1>8. CASE UNCHANGED vars
    BY <1>5, <1>8 DEF vars
  <1> QED BY <1>1, <1>2, <1>3, <1>4, <1>5, <1>6, <1>7, <1>8 DEF Next, WriteStep

-----------------------------------------------------------------------------
\* The invariant holds throughout (bridgeDeadline, bridgeFlow.WriteTo).
THEOREM FlowInvariant == Spec => []FlowInv
  <1>1. FlowInv /\ [Next]_vars => FlowInv'
    BY DeadlineStep, LateStep DEF FlowInv
  <1> QED BY <1>1, FlowInitInv, PTL DEF Spec

\* No race of set with a firing timer closes a channel twice
\* (bridgeDeadline.set).
THEOREM ChannelsClosedOnce == Spec => []NoDoubleClose
  <1>1. FlowInv => NoDoubleClose
    BY DEF FlowInv, DeadlineInv
  <1> QED BY <1>1, FlowInvariant, PTL

\* A read that waits holds the channel the deadline's next expiry closes, or
\* one that is closed (bridgeDeadline.wait).
THEOREM WaitersSeeDeadlines == Spec => []WaiterSeesDeadline
  <1>1. FlowInv => WaiterSeesDeadline
    BY DEF FlowInv, DeadlineInv
  <1> QED BY <1>1, FlowInvariant, PTL

\* mihomo's tunnel gets no datagram written after its session ended (send).
THEOREM LateDatagramsRefused == Spec => []LateDatagramRefused
  <1>1. FlowInv => LateDatagramRefused
    BY DEF FlowInv, LateInv
  <1> QED BY <1>1, FlowInvariant, PTL
=============================================================================
