--------------------------- MODULE EngineSession ---------------------------
(***************************************************************************)
(* The session protocol of the controller: every engine's start handler,   *)
(* start goroutine, stop handler and stop goroutine, and the replay a      *)
(* reattaching client causes (internal/core/engine_session.go,             *)
(* serverstate.go, controller.go and the start/stop bodies of xray.go,     *)
(* awg.go and engine_mihomo.go).                                           *)
(*                                                                         *)
(* One step is one access to state another goroutine can see.  The body of *)
(* a start runs under coreMutex in several steps, because the handlers of  *)
(* stops read and write atomics and loops without that mutex; the body of  *)
(* a stop, and the tail of a start, hold it for one indivisible step.      *)
(***************************************************************************)
EXTENDS Integers, FiniteSets

CONSTANTS
    Engine,     \* the engines linked into the build
    Start,      \* start requests, each made at most once
    Stop,       \* stop requests, each made at most once
    Client,     \* clients that attach a status sink, each at most once
    OneCaller   \* TRUE: one FFI call at a time (a UI thread);
                \* FALSE: calls overlap (the service's command pipes)

Nobody == "nobody"

ASSUME EngineAssumption == Engine \subseteq {"xray", "awg", "mihomo"}
ASSUME RequestAssumption == IsFiniteSet(Start) /\ Nobody \notin Start
ASSUME CallerAssumption == OneCaller \in BOOLEAN

VARIABLES
    coreMutex,      \* the start holding coreMutex, or Nobody
    sessionGen,     \* CoreController.sessionGen
    running,        \* engineSession.running, per engine
    startsInFlight, \* engineSession.startsInFlight, per engine
    instanceGen,    \* engineSession.instanceGen, per engine
    liveness,       \* the generation whose liveness loop runs, or NoGen
    selWatch,       \* the same for the selection watch
    serverSel,      \* the generation serverSelJSON describes, or NoGen
    ipResolve,      \* the generation whose IP resolve is armed, or NoGen
    stats,          \* a local stats loop runs
    report,         \* the last session event the client was sent
    startPc, startEngine, startMark,
    stopPc, stopEngine, stopGen,
    replayPc

instance == <<running, instanceGen>>
loops == <<selWatch, serverSel, ipResolve>>
starts == <<startPc, startEngine, startMark, startsInFlight>>
stops == <<stopPc, stopEngine, stopGen>>
vars == <<coreMutex, sessionGen, instance, liveness, loops, stats, report,
          starts, stops, replayPc>>

NoGen == -1
NoEngine == "none"

(***************************************************************************)
(* Program counters: the name says what the step taken next does.          *)
(***************************************************************************)
HandlerPc == {"session", "replyStats", "replyConnected", "begin",
              "count"}
CriticalPc == {"prepare", "build", "settle", "liveness", "server", "ip",
               "unlock"}
TailPc == {"choose", "lock", "stale", "stats", "connected", "failed",
           "clearWatch", "clearIp", "clearServer", "error", "end"}
GoroutinePc == CriticalPc \union TailPc
StartPc == {"idle", "done"} \union HandlerPc \union GoroutinePc

StopHandlerPc == {"engaged", "stats", "liveness", "bump", "watch", "ip",
                  "server", "disconnecting"}
StopEndPc == {"done", "refused", "superseded"}
StopPc == {"idle", "lock", "disconnected"} \union StopHandlerPc
              \union StopEndPc

SessionEvent == {"connecting", "connected", "error", "disconnecting",
                 "disconnected"}

CanCall ==
    OneCaller => /\ \A r \in Start : startPc[r] \notin HandlerPc
                 /\ \A p \in Stop : stopPc[p] \notin StopHandlerPc

Init ==
    /\ coreMutex = Nobody
    /\ sessionGen = 0
    /\ running = [e \in Engine |-> FALSE]
    /\ startsInFlight = [e \in Engine |-> 0]
    /\ instanceGen = [e \in Engine |-> 0]
    /\ liveness = NoGen
    /\ selWatch = NoGen
    /\ serverSel = NoGen
    /\ ipResolve = NoGen
    /\ stats = FALSE
    /\ report = "none"
    /\ startPc = [r \in Start |-> "idle"]
    /\ startEngine = [r \in Start |-> NoEngine]
    /\ startMark = [r \in Start |-> NoGen]
    /\ stopPc = [p \in Stop |-> "idle"]
    /\ stopEngine = [p \in Stop |-> NoEngine]
    /\ stopGen = [p \in Stop |-> NoGen]
    /\ replayPc = [c \in Client |-> "idle"]

-----------------------------------------------------------------------------
(* Shared helpers. *)

\* emitStatus: a session event replaces what the client last knew; the replies
\* (already running, conflict, stop rejected) do not.
emitStatus(code) == report' = IF code \in SessionEvent THEN code ELSE report

StartAt(r, from, to) ==
    /\ startPc[r] = from
    /\ startPc' = [startPc EXCEPT ![r] = to]

StopAt(p, from, to) ==
    /\ stopPc[p] = from
    /\ stopPc' = [stopPc EXCEPT ![p] = to]

otherRuns(e) == \E f \in Engine \ {e} : running[f]

runsSession(e, gen) == running[e] /\ instanceGen[e] = gen

SupersedesAny(e, gen) == running[e]
SupersedesStrictly(e, gen) == running[e] /\ instanceGen[e] > gen
supersedes(e, gen) == running[e] /\ instanceGen[e] >= gen

\* up: the caller holds coreMutex and the engine is not running.
up(e, mark) ==
    /\ instanceGen' = [instanceGen EXCEPT ![e] = mark]
    /\ running' = [running EXCEPT ![e] = TRUE]

\* xrayStopLocked, awgStopLocked, mihomoStopLocked: a no-op when not running.
stopLocked(e) ==
    /\ running' = [running EXCEPT ![e] = FALSE]
    /\ UNCHANGED instanceGen

\* Waits for the loops it ends; nothing arms one meanwhile, as coreMutex is held.
endSessionLoops ==
    /\ liveness' = NoGen
    /\ selWatch' = NoGen
    /\ serverSel' = NoGen
    /\ ipResolve' = NoGen

-----------------------------------------------------------------------------
(* The start handler, in the caller's FFI call. *)

\* The awg guard waits out an xray start or stop by taking coreMutex.
GuardWaits(e) == e = "awg" /\ coreMutex # Nobody

StartRefused(r, e) ==
    /\ startPc[r] = "idle" /\ CanCall /\ ~GuardWaits(e)
    /\ otherRuns(e)
    /\ startPc' = [startPc EXCEPT ![r] = "done"]
    /\ startEngine' = [startEngine EXCEPT ![r] = e]
    /\ emitStatus("conflict")
    /\ UNCHANGED <<coreMutex, sessionGen, instance, liveness, loops, stats,
                   startMark, startsInFlight, stops, replayPc>>

StartGuarded(r, e) ==
    /\ startPc[r] = "idle" /\ CanCall /\ ~GuardWaits(e)
    /\ ~otherRuns(e)
    /\ startPc' = [startPc EXCEPT ![r] = "session"]
    /\ startEngine' = [startEngine EXCEPT ![r] = e]
    /\ UNCHANGED <<coreMutex, sessionGen, instance, liveness, loops, stats,
                   report, startMark, startsInFlight, stops, replayPc>>

\* replyAlreadyRunning: three steps, as other goroutines emit between them.
ReplyAlreadyRunning(r) ==
    /\ StartAt(r, "session", "replyStats")
    /\ runsSession(startEngine[r], sessionGen)
    /\ emitStatus("alreadyRunning")
    /\ UNCHANGED <<coreMutex, sessionGen, instance, liveness, loops, stats,
                   startEngine, startMark, startsInFlight, stops, replayPc>>

ReplyStats(r) ==
    /\ StartAt(r, "replyStats", "replyConnected")
    /\ stats' = TRUE
    /\ UNCHANGED <<coreMutex, sessionGen, instance, liveness, loops, report,
                   startEngine, startMark, startsInFlight, stops, replayPc>>

ReplyConnected(r) ==
    /\ StartAt(r, "replyConnected", "done")
    /\ emitStatus("connected")
    /\ UNCHANGED <<coreMutex, sessionGen, instance, liveness, loops, stats,
                   startEngine, startMark, startsInFlight, stops, replayPc>>

\* A malformed request: the error is sent and no session state is touched.
StartInvalid(r) ==
    /\ StartAt(r, "session", "done")
    /\ ~runsSession(startEngine[r], sessionGen)
    /\ emitStatus("error")
    /\ UNCHANGED <<coreMutex, sessionGen, instance, liveness, loops, stats,
                   startEngine, startMark, startsInFlight, stops, replayPc>>

StartConnecting(r) ==
    /\ StartAt(r, "session", "begin")
    /\ ~runsSession(startEngine[r], sessionGen)
    /\ emitStatus("connecting")
    /\ UNCHANGED <<coreMutex, sessionGen, instance, liveness, loops, stats,
                   startEngine, startMark, startsInFlight, stops, replayPc>>

\* The TUN fd cannot be copied.
BeginStartFails(r) ==
    /\ StartAt(r, "begin", "done")
    /\ emitStatus("error")
    /\ UNCHANGED <<coreMutex, sessionGen, instance, liveness, loops, stats,
                   startEngine, startMark, startsInFlight, stops, replayPc>>

\* beginStart: the generation is read, then the start is counted.
beginStart(r) ==
    /\ StartAt(r, "begin", "count")
    /\ startMark' = [startMark EXCEPT ![r] = sessionGen]
    /\ UNCHANGED <<coreMutex, sessionGen, instance, liveness, loops, stats,
                   report, startEngine, startsInFlight, stops, replayPc>>

\* The count goes up, and the handler returns with its goroutine spawned.
CountStart(r) ==
    LET e == startEngine[r] IN
    /\ StartAt(r, "count", IF e = "awg" THEN "choose" ELSE "lock")
    /\ startsInFlight' = [startsInFlight EXCEPT ![e] = @ + 1]
    /\ UNCHANGED <<coreMutex, sessionGen, instance, liveness, loops, stats,
                   report, startEngine, startMark, stops, replayPc>>

-----------------------------------------------------------------------------
(* The start goroutine. *)

\* chooseAwgLink, outside coreMutex; a bad awgPicked fails the start.
ChooseAwgLink(r) ==
    /\ \E next \in {"lock", "failed"} : StartAt(r, "choose", next)
    /\ UNCHANGED <<coreMutex, sessionGen, instance, liveness, loops, stats,
                   report, startEngine, startMark, startsInFlight, stops,
                   replayPc>>

LockCore(r) ==
    /\ StartAt(r, "lock", "prepare")
    /\ coreMutex = Nobody
    /\ coreMutex' = r
    /\ UNCHANGED <<sessionGen, instance, liveness, loops, stats, report,
                   startEngine, startMark, startsInFlight, stops, replayPc>>

Unlock == coreMutex' = Nobody

\* prepareStartLocked: a stop came in before the start took the lock.
PrepareEnded(r) ==
    /\ StartAt(r, "prepare", "end")
    /\ sessionGen # startMark[r]
    /\ Unlock
    /\ UNCHANGED <<sessionGen, instance, liveness, loops, stats, report,
                   startEngine, startMark, startsInFlight, stops, replayPc>>

PrepareAlready(r) ==
    /\ StartAt(r, "prepare", "stale")
    /\ sessionGen = startMark[r]
    /\ runsSession(startEngine[r], startMark[r])
    /\ Unlock
    /\ UNCHANGED <<sessionGen, instance, liveness, loops, stats, report,
                   startEngine, startMark, startsInFlight, stops, replayPc>>

\* An instance an ended session left is stopped, with that session's loops.
ReplaceInstance(e) ==
    IF running[e] THEN endSessionLoops /\ stopLocked(e)
                  ELSE UNCHANGED <<instance, liveness, loops>>

PrepareFreshAnyEngine(r) ==
    LET e == startEngine[r] IN
    /\ StartAt(r, "prepare", "build")
    /\ sessionGen = startMark[r]
    /\ ~runsSession(e, startMark[r])
    /\ ReplaceInstance(e)
    /\ UNCHANGED <<coreMutex, sessionGen, stats, report, startEngine,
                   startMark, startsInFlight, stops, replayPc>>
PrepareFreshAnyGen(r) ==
    LET e == startEngine[r] IN
    /\ StartAt(r, "prepare", "build")
    /\ ~runsSession(e, startMark[r])
    /\ ~otherRuns(e)
    /\ ReplaceInstance(e)
    /\ UNCHANGED <<coreMutex, sessionGen, stats, report, startEngine,
                   startMark, startsInFlight, stops, replayPc>>
\* The start goes ahead, to bring its own instance up.
PrepareFresh(r) ==
    LET e == startEngine[r] IN
    /\ StartAt(r, "prepare", "build")
    /\ sessionGen = startMark[r]
    /\ ~runsSession(e, startMark[r])
    /\ ~otherRuns(e)
    /\ ReplaceInstance(e)
    /\ UNCHANGED <<coreMutex, sessionGen, stats, report, startEngine,
                   startMark, startsInFlight, stops, replayPc>>

\* Another engine came up after the handler's guard.
PrepareConflict(r) ==
    LET e == startEngine[r] IN
    /\ StartAt(r, "prepare", "failed")
    /\ sessionGen = startMark[r]
    /\ ~runsSession(e, startMark[r])
    /\ otherRuns(e)
    /\ ReplaceInstance(e)
    /\ Unlock
    /\ UNCHANGED <<sessionGen, stats, report, startEngine, startMark,
                   startsInFlight, stops, replayPc>>

BuildFailsLocked(r) ==
    /\ StartAt(r, "build", "failed")
    /\ UNCHANGED <<coreMutex, sessionGen, instance, liveness, loops, stats,
                   report, startEngine, startMark, startsInFlight, stops,
                   replayPc>>
\* The configuration does not build, or a device or an adapter does not come
\* up: all before the instance is marked running.
BuildFails(r) ==
    /\ StartAt(r, "build", "failed")
    /\ Unlock
    /\ UNCHANGED <<sessionGen, instance, liveness, loops, stats, report,
                   startEngine, startMark, startsInFlight, stops, replayPc>>

\* xray is marked running before its instance, bridge and tun2socks start;
\* awg and mihomo after theirs did.
BringUp(r) ==
    LET e == startEngine[r] IN
    /\ StartAt(r, "build", IF e = "xray" THEN "settle" ELSE "liveness")
    /\ up(e, startMark[r])
    /\ UNCHANGED <<coreMutex, sessionGen, liveness, loops, stats, report,
                   startEngine, startMark, startsInFlight, stops, replayPc>>

XraySettles(r) ==
    /\ StartAt(r, "settle", "liveness")
    /\ UNCHANGED <<coreMutex, sessionGen, instance, liveness, loops, stats,
                   report, startEngine, startMark, startsInFlight, stops,
                   replayPc>>

xrayRollback(r) ==
    /\ StartAt(r, "settle", "failed")
    /\ stopLocked(startEngine[r])
    /\ Unlock
    /\ UNCHANGED <<sessionGen, liveness, loops, stats, report, startEngine,
                   startMark, startsInFlight, stops, replayPc>>

ArmLivenessOnce(r) ==
    /\ StartAt(r, "liveness", "server")
    /\ liveness' = IF liveness = NoGen THEN startMark[r] ELSE liveness
    /\ UNCHANGED <<coreMutex, sessionGen, instance, loops, stats, report,
                   startEngine, startMark, startsInFlight, stops, replayPc>>
\* startLiveness ends the loop it finds and starts its own.
ArmLiveness(r) ==
    /\ StartAt(r, "liveness", "server")
    /\ liveness' = startMark[r]
    /\ UNCHANGED <<coreMutex, sessionGen, instance, loops, stats, report,
                   startEngine, startMark, startsInFlight, stops, replayPc>>

\* init*ServerState: the selection, unless the links name no servers, and for
\* a followed strategy of xray or mihomo its watch.
ArmServerState(r) ==
    /\ StartAt(r, "server", "ip")
    /\ \/ UNCHANGED <<serverSel, selWatch>>
       \/ serverSel' = startMark[r] /\ UNCHANGED selWatch
       \/ /\ startEngine[r] # "awg"
          /\ serverSel' = startMark[r] /\ selWatch' = startMark[r]
    /\ UNCHANGED <<coreMutex, sessionGen, instance, liveness, ipResolve,
                   stats, report, startEngine, startMark, startsInFlight,
                   stops, replayPc>>

ArmIpResolve(r) ==
    /\ StartAt(r, "ip", "unlock")
    /\ ipResolve' = startMark[r]
    /\ UNCHANGED <<coreMutex, sessionGen, instance, liveness, selWatch,
                   serverSel, stats, report, startEngine, startMark,
                   startsInFlight, stops, replayPc>>

UnlockCore(r) ==
    /\ StartAt(r, "unlock", "stale")
    /\ Unlock
    /\ UNCHANGED <<sessionGen, instance, liveness, loops, stats, report,
                   startEngine, startMark, startsInFlight, stops, replayPc>>

-----------------------------------------------------------------------------
(* finishStart, the goroutine's tail. *)

NotStaleNoStats(r) ==
    /\ StartAt(r, "stale", "connected")
    /\ coreMutex = Nobody
    /\ sessionGen = startMark[r]
    /\ UNCHANGED <<coreMutex, sessionGen, instance, liveness, loops, stats,
                   report, startEngine, startMark, startsInFlight, stops,
                   replayPc>>
\* abortStaleEngineSession finds its session current.
NotStale(r) ==
    /\ StartAt(r, "stale", "stats")
    /\ coreMutex = Nobody
    /\ sessionGen = startMark[r]
    /\ UNCHANGED <<coreMutex, sessionGen, instance, liveness, loops, stats,
                   report, startEngine, startMark, startsInFlight, stops,
                   replayPc>>

AbortKeepsLoops(r) ==
    /\ StartAt(r, "stale", "end")
    /\ coreMutex = Nobody
    /\ sessionGen # startMark[r]
    /\ UNCHANGED <<liveness, loops>>
    /\ UNCHANGED <<coreMutex, sessionGen, instance, stats, report,
                   startEngine, startMark, startsInFlight, stops, replayPc>>
\* It finds a stop came in, and ends the loops unless a later start of the
\* same engine replaced the instance.
AbortStale(r) ==
    /\ StartAt(r, "stale", "end")
    /\ coreMutex = Nobody
    /\ sessionGen # startMark[r]
    /\ IF SupersedesStrictly(startEngine[r], startMark[r])
          THEN UNCHANGED <<liveness, loops>>
          ELSE endSessionLoops
    /\ UNCHANGED <<coreMutex, sessionGen, instance, stats, report,
                   startEngine, startMark, startsInFlight, stops, replayPc>>

StartStats(r) ==
    /\ StartAt(r, "stats", "connected")
    /\ stats' = TRUE
    /\ UNCHANGED <<coreMutex, sessionGen, instance, liveness, loops, report,
                   startEngine, startMark, startsInFlight, stops, replayPc>>

EmitConnected(r) ==
    /\ StartAt(r, "connected", "end")
    /\ emitStatus("connected")
    /\ UNCHANGED <<coreMutex, sessionGen, instance, liveness, loops, stats,
                   startEngine, startMark, startsInFlight, stops, replayPc>>

\* clearSessionState of a failed start, one step per thing it changes.
FailedBump(r) ==
    /\ StartAt(r, "failed", "clearWatch")
    /\ sessionGen' = sessionGen + 1
    /\ UNCHANGED <<coreMutex, instance, liveness, loops, stats, report,
                   startEngine, startMark, startsInFlight, stops, replayPc>>

FailedClearWatch(r) ==
    /\ StartAt(r, "clearWatch", "clearIp")
    /\ selWatch' = NoGen
    /\ UNCHANGED <<coreMutex, sessionGen, instance, liveness, serverSel,
                   ipResolve, stats, report, startEngine, startMark,
                   startsInFlight, stops, replayPc>>

FailedClearIp(r) ==
    /\ StartAt(r, "clearIp", "clearServer")
    /\ ipResolve' = NoGen
    /\ UNCHANGED <<coreMutex, sessionGen, instance, liveness, selWatch,
                   serverSel, stats, report, startEngine, startMark,
                   startsInFlight, stops, replayPc>>

FailedClearServer(r) ==
    /\ StartAt(r, "clearServer", "error")
    /\ serverSel' = NoGen
    /\ UNCHANGED <<coreMutex, sessionGen, instance, liveness, selWatch,
                   ipResolve, stats, report, startEngine, startMark,
                   startsInFlight, stops, replayPc>>

EmitStartError(r) ==
    /\ StartAt(r, "error", "end")
    /\ emitStatus("error")
    /\ UNCHANGED <<coreMutex, sessionGen, instance, liveness, loops, stats,
                   startEngine, startMark, startsInFlight, stops, replayPc>>

\* The deferred done: the goroutine ends.
StartDone(r) ==
    /\ StartAt(r, "end", "done")
    /\ startsInFlight' = [startsInFlight EXCEPT ![startEngine[r]] = @ - 1]
    /\ UNCHANGED <<coreMutex, sessionGen, instance, liveness, loops, stats,
                   report, startEngine, startMark, stops, replayPc>>

-----------------------------------------------------------------------------
(* stopEngineSession, in the caller's FFI call. *)

\* engaged() loads running, and startsInFlight only when that was false.
StopCall(p, e) ==
    /\ StopAt(p, "idle", IF running[e] THEN "stats" ELSE "engaged")
    /\ CanCall
    /\ stopEngine' = [stopEngine EXCEPT ![p] = e]
    /\ UNCHANGED <<coreMutex, sessionGen, instance, liveness, loops, stats,
                   report, starts, stopGen, replayPc>>

StopEngaged(p) ==
    /\ StopAt(p, "engaged", "stats")
    /\ startsInFlight[stopEngine[p]] > 0
    /\ UNCHANGED <<coreMutex, sessionGen, instance, liveness, loops, stats,
                   report, starts, stopEngine, stopGen, replayPc>>

StopRefused(p) ==
    /\ StopAt(p, "engaged", "refused")
    /\ startsInFlight[stopEngine[p]] = 0
    /\ emitStatus("stopRejected")
    /\ UNCHANGED <<coreMutex, sessionGen, instance, liveness, loops, stats,
                   starts, stopEngine, stopGen, replayPc>>

StopStats(p) ==
    /\ StopAt(p, "stats", "liveness")
    /\ stats' = FALSE
    /\ UNCHANGED <<coreMutex, sessionGen, instance, liveness, loops, report,
                   starts, stopEngine, stopGen, replayPc>>

StopLiveness(p) ==
    /\ StopAt(p, "liveness", "bump")
    /\ liveness' = NoGen
    /\ UNCHANGED <<coreMutex, sessionGen, instance, loops, stats, report,
                   starts, stopEngine, stopGen, replayPc>>

\* clearSessionState: the generation first, then what the session armed.
StopBump(p) ==
    /\ StopAt(p, "bump", "watch")
    /\ sessionGen' = sessionGen + 1
    /\ stopGen' = [stopGen EXCEPT ![p] = sessionGen + 1]
    /\ UNCHANGED <<coreMutex, instance, liveness, loops, stats, report,
                   starts, stopEngine, replayPc>>

StopWatch(p) ==
    /\ StopAt(p, "watch", "ip")
    /\ selWatch' = NoGen
    /\ UNCHANGED <<coreMutex, sessionGen, instance, liveness, serverSel,
                   ipResolve, stats, report, starts, stopEngine, stopGen,
                   replayPc>>

StopIp(p) ==
    /\ StopAt(p, "ip", "server")
    /\ ipResolve' = NoGen
    /\ UNCHANGED <<coreMutex, sessionGen, instance, liveness, selWatch,
                   serverSel, stats, report, starts, stopEngine, stopGen,
                   replayPc>>

StopServer(p) ==
    /\ StopAt(p, "server", "disconnecting")
    /\ serverSel' = NoGen
    /\ UNCHANGED <<coreMutex, sessionGen, instance, liveness, selWatch,
                   ipResolve, stats, report, starts, stopEngine, stopGen,
                   replayPc>>

EmitDisconnecting(p) ==
    /\ StopAt(p, "disconnecting", "lock")
    /\ emitStatus("disconnecting")
    /\ UNCHANGED <<coreMutex, sessionGen, instance, liveness, loops, stats,
                   starts, stopEngine, stopGen, replayPc>>

-----------------------------------------------------------------------------
(* The stop goroutine: stopEngineInstance under coreMutex. *)

StopSuperseded(p) ==
    /\ StopAt(p, "lock", "superseded")
    /\ coreMutex = Nobody
    /\ supersedes(stopEngine[p], stopGen[p])
    /\ UNCHANGED <<coreMutex, sessionGen, instance, liveness, loops, stats,
                   report, starts, stopEngine, stopGen, replayPc>>

StopInstance(p) ==
    /\ StopAt(p, "lock", "disconnected")
    /\ coreMutex = Nobody
    /\ ~supersedes(stopEngine[p], stopGen[p])
    /\ stopLocked(stopEngine[p])
    /\ UNCHANGED <<coreMutex, sessionGen, liveness, loops, stats, report,
                   starts, stopEngine, stopGen, replayPc>>

EmitDisconnected(p) ==
    /\ StopAt(p, "disconnected", "done")
    /\ emitStatus("disconnected")
    /\ UNCHANGED <<coreMutex, sessionGen, instance, liveness, loops, stats,
                   starts, stopEngine, stopGen, replayPc>>

-----------------------------------------------------------------------------
(* replaySession, on a goroutine of its own after a sink is attached. *)

\* engaged() of each engine, running or starting.
engaged(e) == running[e] \/ startsInFlight[e] > 0

\* A restarting client ends the stats loop before it attaches.
OnDartApiInit(c) ==
    /\ replayPc[c] = "idle"
    /\ replayPc' = [replayPc EXCEPT ![c] = "attach"]
    /\ stats' = FALSE
    /\ UNCHANGED <<coreMutex, sessionGen, instance, liveness, loops, report,
                   starts, stops>>

Replay(c) ==
    /\ replayPc[c] \in {"idle", "attach"}
    /\ replayPc' = [replayPc EXCEPT ![c] =
                       IF \E e \in Engine : engaged(e) THEN "connected" ELSE "done"]
    /\ UNCHANGED <<coreMutex, sessionGen, instance, liveness, loops, stats,
                   report, starts, stops>>

ReplayConnected(c) ==
    /\ replayPc[c] = "connected"
    /\ replayPc' = [replayPc EXCEPT ![c] = "stats"]
    /\ emitStatus("connected")
    /\ UNCHANGED <<coreMutex, sessionGen, instance, liveness, loops, stats,
                   starts, stops>>

ReplayStats(c) ==
    /\ replayPc[c] = "stats"
    /\ replayPc' = [replayPc EXCEPT ![c] = "done"]
    /\ stats' = TRUE
    /\ UNCHANGED <<coreMutex, sessionGen, instance, liveness, loops, report,
                   starts, stops>>

-----------------------------------------------------------------------------
(* The specification. *)

HandlerStep(r) ==
    \/ ReplyAlreadyRunning(r) \/ ReplyStats(r) \/ ReplyConnected(r)
    \/ StartInvalid(r) \/ StartConnecting(r)
    \/ BeginStartFails(r) \/ beginStart(r) \/ CountStart(r)

CriticalStep(r) ==
    \/ PrepareEnded(r) \/ PrepareAlready(r) \/ PrepareFresh(r)
    \/ PrepareConflict(r) \/ BuildFails(r) \/ BringUp(r)
    \/ XraySettles(r) \/ xrayRollback(r)
    \/ ArmLiveness(r) \/ ArmServerState(r) \/ ArmIpResolve(r)
    \/ UnlockCore(r)

TailStep(r) ==
    \/ ChooseAwgLink(r) \/ LockCore(r) \/ NotStale(r) \/ AbortStale(r)
    \/ StartStats(r) \/ EmitConnected(r)
    \/ FailedBump(r) \/ FailedClearWatch(r) \/ FailedClearIp(r)
    \/ FailedClearServer(r) \/ EmitStartError(r) \/ StartDone(r)

StartStep(r) == HandlerStep(r) \/ CriticalStep(r) \/ TailStep(r)

StopStep(p) ==
    \/ StopEngaged(p) \/ StopRefused(p) \/ StopStats(p) \/ StopLiveness(p)
    \/ StopBump(p) \/ StopWatch(p) \/ StopIp(p) \/ StopServer(p)
    \/ EmitDisconnecting(p) \/ StopSuperseded(p) \/ StopInstance(p)
    \/ EmitDisconnected(p)

ReplayStep(c) == ReplayConnected(c) \/ ReplayStats(c)

\* No call is under way; only a new one can change anything.
Settled ==
    /\ \A r \in Start : startPc[r] \in {"idle", "done"}
    /\ \A p \in Stop : stopPc[p] \in {"idle"} \union StopEndPc
    /\ \A c \in Client : replayPc[c] \in {"idle", "done"}

Rest == Settled /\ UNCHANGED vars

Next ==
    \/ \E r \in Start, e \in Engine : StartRefused(r, e) \/ StartGuarded(r, e)
    \/ \E r \in Start : StartStep(r)
    \/ \E p \in Stop, e \in Engine : StopCall(p, e)
    \/ \E p \in Stop : StopStep(p)
    \/ \E c \in Client : OnDartApiInit(c) \/ Replay(c) \/ ReplayStep(c)
    \/ Rest

Spec == Init /\ [][Next]_vars

\* A goroutine or a call that can run does; that a caller calls is not assumed.
\* coreMutex is taken finitely often, so weak fairness suffices to get it.
Fairness ==
    /\ \A r \in Start : WF_vars(StartStep(r))
    /\ \A p \in Stop : WF_vars(StopStep(p))
    /\ \A c \in Client : WF_vars(ReplayStep(c))

FairSpec == Spec /\ Fairness

-----------------------------------------------------------------------------
(* Properties. *)

Gen == Nat \union {NoGen}

\* Types: the generations are those sessionGen took, and the client is sent the
\* codes of emitStatus.
TypeOK ==
    /\ coreMutex \in Start \union {Nobody}
    /\ sessionGen \in Nat
    /\ running \in [Engine -> BOOLEAN]
    /\ startsInFlight \in [Engine -> Int]
    /\ instanceGen \in [Engine -> Nat]
    /\ liveness \in Gen
    /\ selWatch \in Gen
    /\ serverSel \in Gen
    /\ ipResolve \in Gen
    /\ stats \in BOOLEAN
    /\ report \in SessionEvent \union {"none"}
    /\ startPc \in [Start -> StartPc]
    /\ startEngine \in [Start -> Engine \union {NoEngine}]
    /\ startMark \in [Start -> Gen]
    /\ stopPc \in [Stop -> StopPc]
    /\ stopEngine \in [Stop -> Engine \union {NoEngine}]
    /\ stopGen \in [Stop -> Gen]
    /\ replayPc \in [Client -> {"idle", "attach", "connected", "stats", "done"}]

\* The controller runs one engine at a time (the comment on CoreController):
\* starts of different engines may all pass their handlers' guards, and still
\* only one of them is ever marked running.
OneEngine ==
    \A e, f \in Engine : running[e] /\ running[f] => e = f

InGoroutine(e) == {r \in Start : startEngine[r] = e /\ startPc[r] \in GoroutinePc}

\* startsInFlight counts exactly the start goroutines that have not ended,
\* whichever way each of them ends (beginStart's done).
CountedStarts ==
    \A e \in Engine : startsInFlight[e] = Cardinality(InGoroutine(e))

\* A stop that has closed its engine is final for every start requested before
\* it: no such start brings an instance up afterwards, however long it was
\* queued (prepareStartLocked against stopEngineInstance).
StoppedStaysDown ==
    \A p \in Stop :
        stopPc[p] \in {"disconnected", "done"} =>
            ~(running[stopEngine[p]] /\ instanceGen[stopEngine[p]] < stopGen[p])

InstanceSurvives(e) ==
    running[e] /\ instanceGen[e] = sessionGen /\ ~running'[e] =>
        \E r \in Start : /\ startPc[r] = "settle" /\ startPc'[r] = "failed"
                         /\ startEngine[r] = e /\ startMark[r] = sessionGen

\* An instance of the current session goes down only when its own start rolls
\* it back: neither a stop of an earlier session nor another start ends it
\* ("a stop leaves an instance started under a generation as new as its own").
CurrentInstanceSurvives == [][\A e \in Engine : InstanceSurvives(e)]_vars

\* While no start is being carried out, a liveness loop and an armed IP resolve
\* are those of the instance that runs, if one does: a session never reports
\* the link or the address of the one it replaced.
ProbesOfRunningInstance ==
    coreMutex = Nobody =>
        \A e \in Engine : running[e] =>
            {liveness, ipResolve} \subseteq {NoGen, instanceGen[e]}

Current == \E e \in Engine : runsSession(e, sessionGen)

\* Once every call has ended, an armed IP resolve, a selection watch and a cached
\* selection need a running instance of the current session: no race of a start
\* with stops or failing starts leaves one behind (clearSessionState,
\* abortStaleEngineSession).
NothingOutlivesSession ==
    Settled /\ ~Current => ipResolve = NoGen /\ selWatch = NoGen /\ serverSel = NoGen

\* A session that is up and was not stopped has its stats loop once the calls
\* have ended: no earlier stop, nor a stop racing its start, takes it away.
StatsOfLiveSession ==
    Settled /\ Current => stats

\* Every call that was made ends, its goroutine included: coreMutex is handed on
\* by every path through a start and no wait is circular.
CallsEnd ==
    /\ \A r \in Start : startPc[r] # "idle" ~> startPc[r] = "done"
    /\ \A p \in Stop : stopPc[p] # "idle" ~> stopPc[p] \in StopEndPc

\* A stop that was taken ends with the engine down, or run by a session as new
\* as the stop.
StopTakesEffect ==
    \A p \in Stop :
        stopPc[p] = "bump" ~>
            /\ stopGen[p] # NoGen
            /\ running[stopEngine[p]] => instanceGen[stopEngine[p]] >= stopGen[p]

-----------------------------------------------------------------------------
(* What the repository says of the session and the code does not keep.     *)

\* "the start's tail tears down anything it armed too late" (controller.go):
\* once the calls have ended, a liveness loop has a running instance.
LivenessEndsWithSession ==
    Settled => liveness = NoGen \/ \E e \in Engine : runsSession(e, liveness)

=============================================================================
