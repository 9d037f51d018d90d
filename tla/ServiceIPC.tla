----------------------------- MODULE ServiceIPC -----------------------------
(***************************************************************************)
(* The Windows library and its service: two processes, each with its own   *)
(* controller.  A command of the app acts on the in-process engine when    *)
(* one runs (proxy mode) and is forwarded over the command pipe otherwise  *)
(* (engine.go, ipc_windows_client.go, service_windows.go).  The statistics *)
(* loop follows the session's process (stats.go), and the service's events *)
(* come back through the hub and the event pipe.                           *)
(*                                                                         *)
(* A thread that calls the service is blocked until the answer arrives, so *)
(* the connection's handler in the service is the same thread here, with   *)
(* "where" naming the process it runs in.  A local pipe loses an answer    *)
(* only with the process at its other end, which ends the session too.     *)
(* One start and one stop goroutine per process at a time: how several     *)
(* overlap is the subject of EngineSession.                                *)
(***************************************************************************)
EXTENDS Naturals, Sequences, FiniteSets

CONSTANTS
    Call,       \* the app's threads
    HubQueue,   \* events a subscriber's channel holds (64 in the code)
    MaxOps,     \* bound: commands the app issues
    MaxCrashes  \* bound: times the service process ends

Process == {"app", "service"}
Thread == Call \cup Process     \* a process names its lifecycle goroutine
None == "none"
Loop == 1..2                    \* statistics goroutines of one process

ASSUME BoundAssumption ==
    /\ HubQueue \in Nat \ {0}
    /\ MaxOps \in Nat
    /\ MaxCrashes \in Nat
    /\ Call \cap (Process \cup {None}) = {}

VARIABLES
    up,        \* the service process runs
    running,   \* an engine runs in the process
    tail,      \* the process's start goroutine
    stopping,  \* the process's stop goroutine waits for coreMutex
    stale,     \* a stop came in after the start in flight was asked for
    pc, where, \* a thread of the app: its step and the process it is in
    stat, goal,\* the step of startStats/stopStats a thread is at, per process
    trans,     \* statsTransMu: its owner
    holder,    \* statsMu: the loop that holds it, 0 when free
    loop,      \* the statistics goroutines
    closed,    \* the loops whose quit is closed
    quit,      \* statsQuit: the registered loop, 0 when nil
    awaited,   \* the loop whose done a thread waits for
    sub, queue,\* the app's subscription in the hub and its channel
    view,      \* the last lifecycle event the app was handed
    shed,      \* history: a lifecycle event of the service found no room
    ops, crashes

lifecycle == <<running, tail, stopping, stale>>
stats == <<stat, goal, trans, holder, loop, closed, quit, awaited>>
events == <<sub, queue, view, shed>>
callers == <<pc, where, ops>>
vars == <<up, lifecycle, stats, events, callers, crashes>>

\* Any quiet moment: the app may be launched over a session of the service, or
\* hold an in-process one, before its event loop is subscribed.
Init ==
    /\ up = TRUE
    /\ running \in [Process -> BOOLEAN]
    /\ tail = [p \in Process |-> "idle"]
    /\ stopping = [p \in Process |-> FALSE]
    /\ stale = [p \in Process |-> FALSE]
    /\ pc = [t \in Call |-> "idle"]
    /\ where = [t \in Call |-> "app"]
    /\ stat = [p \in Process |-> [t \in Thread |-> None]]
    /\ goal = [p \in Process |-> [t \in Thread |-> "off"]]
    /\ trans = [p \in Process |-> None]
    /\ holder = [p \in Process |-> 0]
    /\ loop = [p \in Process |-> [i \in Loop |->
                  IF running[p] /\ i = 1 THEN "wait" ELSE None]]
    /\ closed = [p \in Process |-> {}]
    /\ quit = [p \in Process |-> IF running[p] THEN 1 ELSE 0]
    /\ awaited = [p \in Process |-> [t \in Thread |-> 0]]
    /\ sub = FALSE
    /\ queue = <<>>
    /\ view = None
    /\ shed = FALSE
    /\ ops = 0
    /\ crashes = 0

-----------------------------------------------------------------------------

\* emitStatus in a process: the app's own reach its sink, the service's go to
\* the hub, which drops what the subscriber's channel has no room for.
emitStatus(p, e) ==
    IF p = "app"
    THEN /\ view' = IF e = "stats" THEN view ELSE e
         /\ UNCHANGED <<sub, queue, shed>>
    ELSE LET fits == sub /\ Len(queue) < HubQueue
         IN /\ queue' = IF fits THEN Append(queue, e) ELSE queue
            /\ shed' = (shed \/ (~fits /\ e # "stats"))
            /\ UNCHANGED <<sub, view>>

\* serviceEventLoop dials the event pipe and the service subscribes it.
Subscribe ==
    /\ up /\ ~sub
    /\ sub' = TRUE
    /\ queue' = <<>>
    /\ UNCHANGED <<up, lifecycle, stats, view, shed, callers, crashes>>

\* One line crosses the event pipe and is handed to the app's sink.
Relay ==
    /\ sub /\ queue # <<>>
    /\ queue' = Tail(queue)
    /\ view' = IF Head(queue) = "stats" THEN view ELSE Head(queue)
    /\ UNCHANGED <<up, lifecycle, stats, sub, shed, callers, crashes>>

-----------------------------------------------------------------------------
\* startStats and stopStats, run by thread t in process p.

\* Thread t enters startStats (g = "on") or stopStats (g = "off") in p.
Enter(t, p, g) ==
    /\ stat' = [stat EXCEPT ![p][t] = "lock"]
    /\ goal' = [goal EXCEPT ![p][t] = g]
    /\ UNCHANGED <<trans, holder, loop, closed, quit, awaited>>

Step(t, p, from, to) ==
    /\ stat[p][t] = from
    /\ stat' = [stat EXCEPT ![p][t] = to]

\* Mutant: an engine still starting does not count as a local one.
engagedRunning(p) == running[p]

\* engaged: running or starting, what IsRunning answers in its own process.
engaged(p) == running[p] \/ tail[p] # "idle"

\* The session's process is the service: useServiceIPC and no local engine.
Forwarded(p) == p = "app" /\ ~engaged("app")

\* Where a stop that is done leads: startStats goes on, stopStats unlocks.
AfterStop(t, p) == IF goal[p][t] = "on" THEN "start" ELSE "unlock"

\* Mutant: the stop-then-register transition is not serialized.
LockNot(t, p) ==
    /\ Step(t, p, "lock", "stop")
    /\ UNCHANGED <<up, lifecycle, goal, trans, holder, loop, closed, quit,
                   awaited, events, callers, crashes>>

Lock(t, p) ==
    /\ trans[p] = None
    /\ Step(t, p, "lock", "stop")
    /\ trans' = [trans EXCEPT ![p] = t]
    /\ UNCHANGED <<up, lifecycle, goal, holder, loop, closed, quit, awaited,
                   events, callers, crashes>>

\* stopStatsLocked in this process: close quit, drop the ticker, take done.
StopHere(t, p) ==
    /\ ~Forwarded(p)
    /\ holder[p] = 0
    /\ Step(t, p, "stop", "wait")
    /\ closed' = [closed EXCEPT ![p] = @ \cup ({quit[p]} \ {0})]
    /\ awaited' = [awaited EXCEPT ![p][t] = quit[p]]
    /\ quit' = [quit EXCEPT ![p] = 0]
    /\ UNCHANGED <<up, lifecycle, goal, trans, holder, loop, events, callers,
                   crashes>>

\* <-done
Wait(t, p) ==
    /\ awaited[p][t] # 0 => loop[p][awaited[p][t]] = None
    /\ Step(t, p, "wait", AfterStop(t, p))
    /\ awaited' = [awaited EXCEPT ![p][t] = 0]
    /\ UNCHANGED <<up, lifecycle, goal, trans, holder, loop, closed, quit,
                   events, callers, crashes>>

\* The call into the service: its handler runs the same code there.  A dial
\* that fails is logged and the caller goes on.
Forward(t, from, to, g, failed) ==
    /\ stat["app"][t] = from
    /\ Forwarded("app")
    /\ IF up
       THEN /\ stat' = [stat EXCEPT !["app"][t] = to, !["service"][t] = "lock"]
            /\ goal' = [goal EXCEPT !["service"][t] = g]
       ELSE /\ stat' = [stat EXCEPT !["app"][t] = failed]
            /\ UNCHANGED goal
    /\ UNCHANGED <<up, lifecycle, trans, holder, loop, closed, quit, awaited,
                   events, callers, crashes>>

ForwardStop(t) ==
    Forward(t, "stop", "stopCall", "off", AfterStop(t, "app"))

ForwardStart(t) ==
    Forward(t, "start", "startCall", "on", "unlock")

\* The service answered, or ended.
Answered(t) ==
    /\ stat["service"][t] = None
    /\ \/ Step(t, "app", "stopCall", AfterStop(t, "app"))
       \/ Step(t, "app", "startCall", "unlock")
    /\ UNCHANGED <<up, lifecycle, goal, trans, holder, loop, closed, quit,
                   awaited, events, callers, crashes>>

\* startStats registers a loop of this process.
StartHere(t, p) ==
    /\ ~Forwarded(p)
    /\ holder[p] = 0
    /\ Step(t, p, "start", "unlock")
    /\ \E i \in Loop :
         /\ loop[p][i] = None
         /\ \A j \in Loop : j < i => loop[p][j] # None
         /\ \A u \in Thread : awaited[p][u] # i
         /\ loop' = [loop EXCEPT ![p][i] = "wait"]
         /\ closed' = [closed EXCEPT ![p] = @ \ {i}]
         /\ quit' = [quit EXCEPT ![p] = i]
    /\ UNCHANGED <<up, lifecycle, goal, trans, holder, awaited, events,
                   callers, crashes>>

Unlock(t, p) ==
    /\ Step(t, p, "unlock", None)
    /\ trans' = [trans EXCEPT ![p] = None]
    /\ goal' = [goal EXCEPT ![p][t] = "off"]
    /\ UNCHANGED <<up, lifecycle, holder, loop, closed, quit, awaited, events,
                   callers, crashes>>

-----------------------------------------------------------------------------
\* The statistics goroutine.

\* A tick takes statsMu; select may choose it although quit is closed.
Tick(p, i) ==
    /\ loop[p][i] = "wait"
    /\ holder[p] = 0
    /\ holder' = [holder EXCEPT ![p] = i]
    /\ loop' = [loop EXCEPT ![p][i] = "hold"]
    /\ UNCHANGED <<up, lifecycle, stat, goal, trans, closed, quit, awaited,
                   events, callers, crashes>>

\* Mutant: the loop that finds quit closed returns with statsMu held.
ReportKeepsLock(p, i) ==
    /\ loop[p][i] = "hold"
    /\ holder' = [holder EXCEPT ![p] = IF i \in closed[p] THEN i ELSE 0]
    /\ loop' = [loop EXCEPT ![p][i] = IF i \in closed[p] THEN None ELSE "wait"]
    /\ IF i \notin closed[p] /\ running[p]
       THEN emitStatus(p, "stats")
       ELSE UNCHANGED events
    /\ UNCHANGED <<up, lifecycle, stat, goal, trans, closed, quit, awaited,
                   callers, crashes>>

\* Under statsMu: a closed quit ends the loop; a running engine is reported.
Report(p, i) ==
    /\ loop[p][i] = "hold"
    /\ holder' = [holder EXCEPT ![p] = 0]
    /\ loop' = [loop EXCEPT ![p][i] = IF i \in closed[p] THEN None ELSE "wait"]
    /\ IF i \notin closed[p] /\ running[p]
       THEN emitStatus(p, "stats")
       ELSE UNCHANGED events
    /\ UNCHANGED <<up, lifecycle, stat, goal, trans, closed, quit, awaited,
                   callers, crashes>>

QuitSeen(p, i) ==
    /\ loop[p][i] = "wait"
    /\ i \in closed[p]
    /\ loop' = [loop EXCEPT ![p][i] = None]
    /\ UNCHANGED <<up, lifecycle, stat, goal, trans, holder, closed, quit,
                   awaited, events, callers, crashes>>

-----------------------------------------------------------------------------
\* The commands.

\* Thread t issues a command that runs in p.  A dial that fails ends it.
Issue(t, p, to) ==
    /\ pc[t] = "idle"
    /\ ops < MaxOps
    /\ ops' = ops + 1
    /\ pc' = [pc EXCEPT ![t] = IF p = "service" /\ ~up THEN "idle" ELSE to]
    /\ where' = [where EXCEPT ![t] = IF pc'[t] = "idle" THEN "app" ELSE p]

\* engineStart: proxy mode stays in-process, TUN mode goes to the service.
engineStart(t, p) ==
    /\ Issue(t, p, "start")
    /\ UNCHANGED <<up, lifecycle, stats, events, crashes>>

\* engineStop: whichever process runs the engine.
engineStop(t) ==
    /\ Issue(t, IF engaged("app") THEN "app" ELSE "service", "stop")
    /\ UNCHANGED <<up, lifecycle, stats, events, crashes>>

\* ListenStats, StopStats and OnDartApiInit, which ends the statistics.
StatsCommand(t, g) ==
    /\ Issue(t, "app", "stats")
    /\ Enter(t, "app", g)
    /\ UNCHANGED <<up, lifecycle, events, crashes>>

\* SetStatusSink over a live session: the replay of the process that runs it.
SetStatusSink(t) ==
    /\ Issue(t, IF engaged("app") THEN "app" ELSE "service", "replay")
    /\ UNCHANGED <<up, lifecycle, stats, events, crashes>>

Leave(t) ==
    /\ pc' = [pc EXCEPT ![t] = "idle"]
    /\ where' = [where EXCEPT ![t] = "app"]
    /\ UNCHANGED ops

Goto(t, to) ==
    /\ pc' = [pc EXCEPT ![t] = to]
    /\ UNCHANGED <<where, ops>>

\* The start handler: a running session is answered as such; a start begins
\* unless one is in flight, whose session it then finds.
StartHandler(t) ==
    LET p == where[t]
    IN /\ pc[t] = "start"
       /\ ~stopping[p]
       /\ \/ /\ running[p]
             /\ Goto(t, "already")
             /\ Enter(t, p, "on")
             /\ UNCHANGED <<tail, stale>>
          \/ /\ ~running[p]
             /\ Leave(t)
             /\ tail' = [tail EXCEPT ![p] = IF @ = "idle" THEN "starting" ELSE @]
             /\ stale' = [stale EXCEPT ![p] = @ /\ tail[p] # "idle"]
             /\ UNCHANGED stats
       /\ UNCHANGED <<up, running, stopping, events, crashes>>

\* replyAlreadyRunning, and the end of replaySession: statistics first, then
\* the answer.
Already(t) ==
    /\ pc[t] = "already"
    /\ stat[where[t]][t] = None
    /\ emitStatus(where[t], "connected")
    /\ Leave(t)
    /\ UNCHANGED <<up, lifecycle, stats, crashes>>

\* The stop handler: refused when nothing is engaged; the statistics end,
\* then the session is moved on and the engine is left to the stop goroutine.
StopHandler(t) ==
    LET p == where[t]
    IN /\ pc[t] = "stop"
       /\ \/ /\ engaged(p)
             /\ Goto(t, "quiet")
             /\ Enter(t, p, "off")
          \/ /\ ~engaged(p)
             /\ Leave(t)
             /\ UNCHANGED stats
       /\ UNCHANGED <<up, lifecycle, events, crashes>>

StopGoes(t) ==
    LET p == where[t]
    IN /\ pc[t] = "quiet"
       /\ stat[p][t] = None
       /\ stopping' = [stopping EXCEPT ![p] = TRUE]
       /\ stale' = [stale EXCEPT ![p] = tail[p] # "idle"]
       /\ Leave(t)
       /\ UNCHANGED <<up, running, tail, stats, events, crashes>>

\* Mutant: a replay only restarts the statistics.
ReplaySilent(t) ==
    /\ pc[t] = "replay"
    /\ IF engaged(where[t])
       THEN Goto(t, "stats") /\ Enter(t, where[t], "on")
       ELSE Leave(t) /\ UNCHANGED stats
    /\ UNCHANGED <<up, lifecycle, events, crashes>>

\* replaySession: false when no engine runs in this process.
Replay(t) ==
    /\ pc[t] = "replay"
    /\ IF engaged(where[t]) THEN Goto(t, "emit") ELSE Leave(t)
    /\ UNCHANGED <<up, lifecycle, stats, events, crashes>>

ReplayEmits(t) ==
    /\ pc[t] = "emit"
    /\ emitStatus(where[t], "connected")
    /\ Goto(t, "stats")
    /\ Enter(t, where[t], "on")
    /\ UNCHANGED <<up, lifecycle, crashes>>

StatsDone(t) ==
    /\ pc[t] = "stats"
    /\ stat[where[t]][t] = None
    /\ Leave(t)
    /\ UNCHANGED <<up, lifecycle, stats, events, crashes>>

-----------------------------------------------------------------------------
\* The start and the stop goroutine of a process.

\* The engine does not come up, or the session ended before it was started.
StartFails(p) ==
    /\ tail[p] = "starting"
    /\ tail' = [tail EXCEPT ![p] = "idle"]
    /\ stale' = [stale EXCEPT ![p] = FALSE]
    /\ UNCHANGED <<up, running, stopping, stats, events, callers, crashes>>

StartWorks(p) ==
    /\ tail[p] = "starting"
    /\ ~stale[p]
    /\ tail' = [tail EXCEPT ![p] = "up"]
    /\ running' = [running EXCEPT ![p] = TRUE]
    /\ UNCHANGED <<up, stopping, stale, stats, events, callers, crashes>>

\* finishStart: a session a stop overtook is not reported, any other gets its
\* statistics and then says connected.
FinishStart(p) ==
    /\ tail[p] = "up"
    /\ tail' = [tail EXCEPT ![p] = IF stale[p] THEN "idle" ELSE "connected"]
    /\ IF stale[p] THEN UNCHANGED stats ELSE Enter(p, p, "on")
    /\ stale' = [stale EXCEPT ![p] = FALSE]
    /\ UNCHANGED <<up, running, stopping, events, callers, crashes>>

Connected(p) ==
    /\ tail[p] = "connected"
    /\ stat[p][p] = None
    /\ tail' = [tail EXCEPT ![p] = "idle"]
    /\ stale' = [stale EXCEPT ![p] = FALSE]
    /\ emitStatus(p, "connected")
    /\ UNCHANGED <<up, running, stopping, stats, callers, crashes>>

\* The stop gets coreMutex, which a start holds while it brings the engine up.
Stopped(p) ==
    /\ stopping[p]
    /\ tail[p] # "starting"
    /\ stopping' = [stopping EXCEPT ![p] = FALSE]
    /\ running' = [running EXCEPT ![p] = FALSE]
    /\ emitStatus(p, "disconnected")
    /\ UNCHANGED <<up, tail, stale, stats, callers, crashes>>

\* The service process ends (a stop by the service manager, a crash), with its
\* session, its goroutines and both pipes: a call in progress fails.
ServiceEnds ==
    /\ up
    /\ crashes < MaxCrashes
    /\ crashes' = crashes + 1
    /\ up' = FALSE
    /\ running' = [running EXCEPT !["service"] = FALSE]
    /\ tail' = [tail EXCEPT !["service"] = "idle"]
    /\ stopping' = [stopping EXCEPT !["service"] = FALSE]
    /\ stale' = [stale EXCEPT !["service"] = FALSE]
    /\ pc' = [t \in Call |-> IF where[t] = "service" THEN "idle" ELSE pc[t]]
    /\ where' = [t \in Call |-> "app"]
    /\ stat' = [stat EXCEPT !["service"] = [t \in Thread |-> None]]
    /\ goal' = [goal EXCEPT !["service"] = [t \in Thread |-> "off"]]
    /\ trans' = [trans EXCEPT !["service"] = None]
    /\ holder' = [holder EXCEPT !["service"] = 0]
    /\ loop' = [loop EXCEPT !["service"] = [i \in Loop |-> None]]
    /\ closed' = [closed EXCEPT !["service"] = {}]
    /\ quit' = [quit EXCEPT !["service"] = 0]
    /\ awaited' = [awaited EXCEPT !["service"] = [t \in Thread |-> 0]]
    /\ sub' = FALSE
    /\ queue' = <<>>
    /\ UNCHANGED <<view, shed, ops>>

ServiceStarts ==
    /\ ~up
    /\ up' = TRUE
    /\ UNCHANGED <<lifecycle, stats, events, callers, crashes>>

-----------------------------------------------------------------------------
StatsStep(t, p) ==
    \/ StopHere(t, p) \/ Wait(t, p) \/ StartHere(t, p) \/ Unlock(t, p)

ForwardStep(t) == ForwardStop(t) \/ ForwardStart(t) \/ Answered(t)

HandlerStep(t) ==
    \/ StartHandler(t) \/ Already(t) \/ StopHandler(t) \/ StopGoes(t)
    \/ Replay(t) \/ ReplayEmits(t) \/ StatsDone(t)

LifecycleStep(p) ==
    StartFails(p) \/ StartWorks(p) \/ FinishStart(p) \/ Connected(p)

Command(t) ==
    \/ \E p \in Process : engineStart(t, p)
    \/ engineStop(t)
    \/ \E g \in {"on", "off"} : StatsCommand(t, g)
    \/ SetStatusSink(t)

\* What a goroutine does next, of the app's threads and of the lifecycles.
ThreadStep(t) ==
    \/ \E p \in Process : Lock(t, p) \/ StatsStep(t, p)
    \/ ForwardStep(t)
    \/ t \in Call /\ HandlerStep(t)
    \/ t \in Process /\ (LifecycleStep(t) \/ Stopped(t))

Next ==
    \/ \E t \in Call : Command(t)
    \/ \E t \in Thread : ThreadStep(t)
    \/ \E p \in Process, i \in Loop : Tick(p, i) \/ Report(p, i) \/ QuitSeen(p, i)
    \/ Subscribe \/ Relay
    \/ ServiceEnds \/ ServiceStarts

Spec == Init /\ [][Next]_vars

\* A goroutine that can go on does, and a Go mutex is handed to its waiters;
\* a loop ends its tick or sees its quit; the event loop dials and reads.
Fairness ==
    /\ \A t \in Thread : SF_vars(ThreadStep(t))
    /\ \A p \in Process : WF_vars(\E i \in Loop : Report(p, i) \/ QuitSeen(p, i))
    /\ WF_vars(Subscribe \/ Relay)

FairSpec == Spec /\ Fairness

-----------------------------------------------------------------------------
\* A process has at most one statistics loop whose quit is open, and it is the
\* registered one: "two concurrent callers ... would otherwise both pass the
\* stop and orphan the first loop with an unreachable quit" (stats.go:33).
OneOpenLoop ==
    \A p \in Process :
        {i \in Loop : loop[p][i] # None /\ i \notin closed[p]} \subseteq {quit[p]}

\* In the service, whose statistics are always its own, that holds for any two
\* clients, and once a stop of the statistics is over no loop is left, not even
\* one about to send a last report: stopStatsLocked waits for done inside the
\* serialized transition.
ServiceLoopOwned ==
    LET live == {i \in Loop : loop["service"][i] # None}
    IN /\ live \ closed["service"] \subseteq {quit["service"]}
       /\ trans["service"] = None => live \subseteq {quit["service"]}

\* Every command returns, whatever the statistics loops, the other callers and
\* the end of the service do: no lock or wait of one process waits for itself
\* through the other.
CallsReturn == \A t \in Call : []<>(pc[t] = "idle")

\* A new sink over a session of the service is handed "connected", unless the
\* session ends or the hub had no room or no subscriber for the event.
ReplayRestoresUnlessShed ==
    (\E t \in Call : pc[t] = "replay" /\ where[t] = "service" /\ running["service"])
        ~> (view = "connected" \/ shed \/ ~running["service"])

\* A stop thread t issues over an in-process session goes to that one.
StopStaysLocal(t) ==
    (/\ pc[t] = "idle" /\ pc'[t] = "stop"
     /\ running["app"] \/ tail["app"] # "idle")
        => where'[t] = "app"

\* An in-process session, starting or running, never translates into a stop of
\* the service's session (engine.go:289): not even while the start goroutine
\* still brings the engine up, or reports it.
LocalStopStaysLocal == [][\A t \in Call : StopStaysLocal(t)]_vars
=============================================================================
