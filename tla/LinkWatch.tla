----------------------------- MODULE LinkWatch -----------------------------
(***************************************************************************)
(* The liveness loop of a session (core/liveness.go): it probes through    *)
(* the tunnel, or samples WireGuard counters, debounces the outcomes into  *)
(* a link state (liveness/liveness.go) that the statistics report, and is  *)
(* started and stopped around sessions.  A start runs under coreMutex, so  *)
(* starts do not overlap; the stop handler and endSessionLoops may stop    *)
(* the loop at the same time, and while a start replaces it.               *)
(***************************************************************************)
EXTENDS Naturals

CONSTANTS
    Caller,      \* threads that start and stop the loop
    DownAfter,   \* consecutive failures that flip the link down
    MaxStarts,   \* bound: loops started
    MaxProbes    \* bound: observations of one loop

Loop == 1..MaxStarts
Unknown == "unknown"

ASSUME LinkAssumption ==
    /\ DownAfter \in Nat \ {0}
    /\ MaxStarts \in Nat
    /\ MaxProbes \in Nat

VARIABLES
    pc, mine,     \* a caller: its step, and the loop it took out to stop
    starts,       \* loops asked for
    registered,   \* livenessQuit and livenessDone: the loop, 0 when nil
    loop,         \* the goroutines: off, timer, probe, done
    passive,      \* the loop samples WireGuard counters
    seeded,       \* its sampler has counters to compare with
    closed,       \* how often a loop's quit was closed
    state, fails, \* a loop's Tracker
    real,         \* history: the loop's failures in a row
    probes,       \* observations a loop made
    link,         \* linkState
    writer        \* history: the loop that wrote link, 0 for a reset

linkVars == <<pc, mine, starts, registered, loop, passive, seeded, closed,
              state, fails, real, probes, link, writer>>

LinkInit ==
    /\ pc = [c \in Caller |-> "idle"]
    /\ mine = [c \in Caller |-> 0]
    /\ starts = 0
    /\ registered = 0
    /\ loop = [i \in Loop |-> "off"]
    /\ passive = [i \in Loop |-> FALSE]
    /\ seeded = [i \in Loop |-> FALSE]
    /\ closed = [i \in Loop |-> 0]
    /\ state = [i \in Loop |-> Unknown]
    /\ fails = [i \in Loop |-> 0]
    /\ real = [i \in Loop |-> 0]
    /\ probes = [i \in Loop |-> 0]
    /\ link = Unknown
    /\ writer = 0

-----------------------------------------------------------------------------
\* startLiveness and stopLiveness.

\* stopLiveness, under loopsMu: swap the pointers out.  The caller goes to
\* close what it found, or to none when there was nothing.
Swap(c, to, none) ==
    /\ mine' = [mine EXCEPT ![c] = registered]
    /\ registered' = 0
    /\ pc' = [pc EXCEPT ![c] = IF registered = 0 THEN none ELSE to]

StopLiveness(c) ==
    /\ pc[c] = "idle"
    /\ Swap(c, "close", "idle")
    /\ UNCHANGED <<starts, loop, passive, seeded, closed, state, fails, real,
                   probes, link, writer>>

\* startLiveness, under its start's coreMutex, opens with a stop of its own.
StartLiveness(c) ==
    /\ pc[c] = "idle"
    /\ \A d \in Caller : pc[d] \notin {"restart", "rewait", "arm"}
    /\ starts < MaxStarts
    /\ starts' = starts + 1
    /\ Swap(c, "restart", "arm")
    /\ UNCHANGED <<loop, passive, seeded, closed, state, fails, real, probes,
                   link, writer>>

\* close(quit), which also cancels the probe in progress.
CloseQuit(c) ==
    /\ pc[c] \in {"close", "restart"}
    /\ closed' = [closed EXCEPT ![mine[c]] = @ + 1]
    /\ pc' = [pc EXCEPT ![c] = IF @ = "close" THEN "wait" ELSE "rewait"]
    /\ UNCHANGED <<mine, starts, registered, loop, passive, seeded, state,
                   fails, real, probes, link, writer>>

\* Mutant: the verdict of the loop that ended stays.
StopWaitsKeeps(c) ==
    /\ pc[c] \in {"wait", "rewait"}
    /\ loop[mine[c]] = "done"
    /\ mine' = [mine EXCEPT ![c] = 0]
    /\ pc' = [pc EXCEPT ![c] = IF @ = "wait" THEN "idle" ELSE "arm"]
    /\ UNCHANGED <<starts, registered, loop, passive, seeded, closed, state,
                   fails, real, probes, link, writer>>

\* <-done, then the link is unknown again.
StopWaits(c) ==
    /\ pc[c] \in {"wait", "rewait"}
    /\ loop[mine[c]] = "done"
    /\ link' = Unknown /\ writer' = 0
    /\ mine' = [mine EXCEPT ![c] = 0]
    /\ pc' = [pc EXCEPT ![c] = IF @ = "wait" THEN "idle" ELSE "arm"]
    /\ UNCHANGED <<starts, registered, loop, passive, seeded, closed, state,
                   fails, real, probes>>

\* The new loop: a fresh Tracker, a timer, the pointers under loopsMu.
Arm(c) ==
    /\ pc[c] = "arm"
    /\ pc' = [pc EXCEPT ![c] = "idle"]
    /\ link' = Unknown /\ writer' = 0
    /\ \E i \in Loop, w \in BOOLEAN :
         /\ loop[i] = "off"
         /\ \A j \in Loop : j < i => loop[j] # "off"
         /\ registered' = i
         /\ loop' = [loop EXCEPT ![i] = "timer"]
         /\ passive' = [passive EXCEPT ![i] = w]
    /\ UNCHANGED <<mine, starts, seeded, closed, state, fails, real, probes>>

-----------------------------------------------------------------------------
\* The loop and its Tracker.

\* ObserveSuccess: up at once.
ObserveSuccess(i) ==
    /\ fails' = [fails EXCEPT ![i] = 0]
    /\ real' = [real EXCEPT ![i] = 0]
    /\ state' = [state EXCEPT ![i] = "up"]

\* ObserveFailure: DownAfter failures in a row flip the link, and a link that
\* is down stays down.
ObserveFailure(i) ==
    /\ fails' = [fails EXCEPT ![i] = @ + 1]
    /\ real' = [real EXCEPT ![i] = @ + 1]
    /\ state' = [state EXCEPT ![i] =
                   IF fails[i] + 1 < DownAfter /\ @ # "down" THEN @ ELSE "down"]

\* ObserveWG: rx progress or a fresh handshake is a success, tx alone a
\* failure, an idle tunnel no verdict.  The deltas of a first sample are zero.
ObserveWG(i, rx, fresh, tx) ==
    CASE (seeded[i] /\ rx) \/ fresh -> ObserveSuccess(i)
      [] seeded[i] /\ tx /\ ~rx /\ ~fresh -> ObserveFailure(i)
      [] OTHER -> UNCHANGED <<state, fails, real>>

\* After an observation: a conclusive state is stored, the timer is reset.
Store(i) ==
    /\ IF state'[i] # Unknown
       THEN link' = state'[i] /\ writer' = i
       ELSE UNCHANGED <<link, writer>>
    /\ loop' = [loop EXCEPT ![i] = "timer"]

\* The timer fires: an active loop dials, a passive one samples.
TimerFires(i) ==
    /\ loop[i] = "timer"
    /\ probes[i] < MaxProbes
    /\ probes' = [probes EXCEPT ![i] = @ + 1]
    /\ loop' = [loop EXCEPT ![i] = "probe"]
    /\ UNCHANGED <<pc, mine, starts, registered, passive, seeded, closed,
                   state, fails, real, link, writer>>

\* Mutant: the loop returns without closing done.
LoopQuitsSilent(i) ==
    /\ loop[i] = "timer"
    /\ closed[i] > 0
    /\ loop' = [loop EXCEPT ![i] = "gone"]
    /\ UNCHANGED <<pc, mine, starts, registered, passive, seeded, closed,
                   state, fails, real, probes, link, writer>>

\* The select at the top of the loop finds quit closed.
LoopQuits(i) ==
    /\ loop[i] = "timer"
    /\ closed[i] > 0
    /\ loop' = [loop EXCEPT ![i] = "done"]
    /\ UNCHANGED <<pc, mine, starts, registered, passive, seeded, closed,
                   state, fails, real, probes, link, writer>>

ProbeSucceeds(i) ==
    /\ loop[i] = "probe" /\ ~passive[i]
    /\ ObserveSuccess(i)
    /\ Store(i)
    /\ UNCHANGED <<pc, mine, starts, registered, passive, seeded, closed,
                   probes>>

\* A probe errs: a closed quit ends the loop, cancelled or not; anything else
\* is a failure of the link.
ProbeErrs(i) ==
    /\ loop[i] = "probe" /\ ~passive[i]
    /\ IF closed[i] > 0
       THEN /\ loop' = [loop EXCEPT ![i] = "done"]
            /\ UNCHANGED <<state, fails, real, link, writer>>
       ELSE ObserveFailure(i) /\ Store(i)
    /\ UNCHANGED <<pc, mine, starts, registered, passive, seeded, closed,
                   probes>>

Sampled(i) ==
    /\ loop[i] = "probe" /\ passive[i]
    /\ \E rx, fresh, tx \in BOOLEAN : ObserveWG(i, rx, fresh, tx)
    /\ seeded' = [seeded EXCEPT ![i] = TRUE]
    /\ Store(i)
    /\ UNCHANGED <<pc, mine, starts, registered, passive, closed, probes>>

\* The counters cannot be read (the device is going): no verdict.
SampleErrs(i) ==
    /\ loop[i] = "probe" /\ passive[i]
    /\ IF closed[i] > 0
       THEN /\ loop' = [loop EXCEPT ![i] = "done"]
            /\ UNCHANGED <<link, writer>>
       ELSE UNCHANGED <<state, fails, real>> /\ Store(i)
    /\ UNCHANGED <<pc, mine, starts, registered, passive, seeded, closed,
                   state, fails, real, probes>>

-----------------------------------------------------------------------------
CallerStep(c) == CloseQuit(c) \/ StopWaits(c) \/ Arm(c)

LoopStep(i) ==
    LoopQuits(i) \/ ProbeSucceeds(i) \/ ProbeErrs(i) \/ Sampled(i) \/ SampleErrs(i)

LinkNext ==
    \/ \E c \in Caller : StopLiveness(c) \/ StartLiveness(c) \/ CallerStep(c)
    \/ \E i \in Loop : TimerFires(i) \/ LoopStep(i)

LinkSpec == LinkInit /\ [][LinkNext]_linkVars

-----------------------------------------------------------------------------
\* A loop's quit is closed once, however many stops run at the same time: "a
\* second concurrent stop must find nil rather than double-close quit".
QuitClosedOnce == \A i \in Loop : closed[i] <= 1

\* No link verdict outlives the loop that reached it: its writer is the
\* registered loop, or one whose stop is not over yet and will reset it.
LinkHasOwner ==
    writer # 0 => (registered = writer \/ \E c \in Caller : mine[c] = writer)

\* The link is reported down only after DownAfter failed observations in a row
\* by the same loop, none of them a probe that its own stop cancelled.
DownIsConfirmed == link = "down" => real[writer] >= DownAfter

\* A stop of the liveness loop returns: it does not wait for a probe nobody
\* ends, or for a loop that is gone.
StopsReturn == \A c \in Caller : (pc[c] # "idle") ~> (pc[c] = "idle")
=============================================================================
