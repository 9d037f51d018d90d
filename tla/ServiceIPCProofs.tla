-------------------------- MODULE ServiceIPCProofs --------------------------
(***************************************************************************)
(* The statistics loop of the service has one owner, and a stop of a local *)
(* session stays local, for any number of the app's threads and any        *)
(* length of the hub's channel.                                            *)
(***************************************************************************)
EXTENDS ServiceIPC, TLAPS

USE SMTT(60)

\* The steps of a transition that hold statsTransMu.
Critical == {"stop", "wait", "start", "unlock"}
\* The app's side of a transition that the service runs.
Calling == {"stopCall", "startCall"}
\* The steps of a command that may be inside startStats or stopStats.
InStats == {"already", "quiet", "stats"}

Types ==
    /\ tail \in [Process -> {"idle", "starting", "up", "connected"}]
    /\ pc \in [Call -> InStats \union {"idle", "start", "stop", "replay", "emit"}]
    /\ where \in [Call -> Process]
    /\ stat \in [Process -> [Thread -> Critical \union Calling \union {None, "lock"}]]
    /\ \A t \in Thread : stat["service"][t] \notin Calling
    /\ goal \in [Process -> [Thread -> {"on", "off"}]]
    /\ trans \in [Process -> Thread \union {None}]
    /\ loop \in [Process -> [Loop -> {None, "wait", "hold"}]]
    /\ closed \in [Process -> SUBSET Loop]
    /\ quit \in [Process -> Loop \union {0}]
    /\ awaited \in [Process -> [Thread -> Loop \union {0}]]

\* A thread runs one transition at a time: a command's while it waits for it,
\* a start goroutine's before it says connected; and it is in the service's on
\* the app's behalf only while its own side waits for the answer.
Threads ==
    /\ \A t \in Call :
         /\ \A p \in Process : stat[p][t] # None => pc[t] \in InStats
         /\ stat["app"][t] # None => where[t] = "app"
         /\ stat["service"][t] # None /\ where[t] = "app" => stat["app"][t] \in Calling
    /\ \A p \in Process : stat[p]["app"] # None => tail["app"] = "connected"
    /\ stat["service"]["app"] # None => stat["app"]["app"] \in Calling
    /\ stat["app"]["service"] = None
    /\ stat["service"]["service"] # None => tail["service"] = "connected"

\* statsTransMu of the service is held by exactly the thread in its transition.
Locked == \A t \in Thread : stat["service"][t] \in Critical <=> trans["service"] = t

\* What the owner's step knows of the service's loops.
Owned ==
    \A i \in Loop : loop["service"][i] # None =>
        /\ i \in closed["service"] \/ i = quit["service"]
        /\ trans["service"] = None => i = quit["service"]
        /\ \A t \in Thread :
             /\ stat["service"][t] \in {"stop", "unlock"} => i = quit["service"]
             /\ stat["service"][t] = "wait" => i = awaited["service"][t]
             /\ stat["service"][t] # "start"

\* Between the stop and the start of a transition no loop is registered.
Unregistered ==
    \A t \in Thread : stat["service"][t] \in {"wait", "start"} => quit["service"] = 0

IInv == Types /\ Threads /\ Locked /\ Owned /\ Unregistered

-----------------------------------------------------------------------------
\* The types of the state the statistics depend on.
LEMMA TypesKept ==
  ASSUME IInv, [Next]_vars
  PROVE  Types'
<1> USE BoundAssumption
    DEF IInv, lifecycle, stats, callers, Types, Thread, Process, Critical,
        Calling, InStats, None
<1>1. ASSUME NEW t \in Call, NEW p \in Process, engineStart(t, p) PROVE Types'
  BY <1>1 DEF engineStart, Issue
<1>2. ASSUME NEW t \in Call, engineStop(t) PROVE Types'
  BY <1>2 DEF engineStop, Issue
<1>3. ASSUME NEW t \in Call, NEW g \in {"on", "off"}, StatsCommand(t, g) PROVE Types'
  BY <1>3 DEF StatsCommand, Issue, Enter
<1>4. ASSUME NEW t \in Call, SetStatusSink(t) PROVE Types'
  BY <1>4 DEF SetStatusSink, Issue
<1>5. ASSUME NEW t \in Thread, NEW p \in Process, Lock(t, p) PROVE Types'
  BY <1>5 DEF Lock, Step
<1>6. ASSUME NEW t \in Thread, NEW p \in Process, StopHere(t, p) PROVE Types'
  <2>1. stat' \in [Process -> [Thread -> Critical \union Calling \union {None, "lock"}]]
    BY <1>6 DEF StopHere, Step
  <2>2. \A u \in Thread : stat'["service"][u] \notin Calling
    BY <1>6 DEF StopHere, Step
  <2>3. closed' \in [Process -> SUBSET Loop]
    BY <1>6 DEF StopHere
  <2>4. quit' \in [Process -> Loop \union {0}]
    BY <1>6 DEF StopHere
  <2>5. awaited' \in [Process -> [Thread -> Loop \union {0}]]
    BY <1>6 DEF StopHere
  <2>6. UNCHANGED <<tail, pc, where, goal, trans, loop>>
    BY <1>6 DEF StopHere
  <2> HIDE DEF IInv, lifecycle, stats, callers, Thread, Process, Critical,
               Calling, InStats, None
  <2> QED
    BY <2>1, <2>2, <2>3, <2>4, <2>5, <2>6 DEF IInv
<1>7. ASSUME NEW t \in Thread, NEW p \in Process, Wait(t, p) PROVE Types'
  <2>1. AfterStop(t, p) \in {"start", "unlock"}
    BY DEF AfterStop
  <2>2. stat' \in [Process -> [Thread -> Critical \union Calling \union {None, "lock"}]]
    BY <1>7, <2>1 DEF Wait, Step
  <2>3. \A u \in Thread : stat'["service"][u] \notin Calling
    BY <1>7, <2>1 DEF Wait, Step
  <2>4. awaited' \in [Process -> [Thread -> Loop \union {0}]]
    BY <1>7, <2>1 DEF Wait
  <2>5. UNCHANGED <<tail, pc, where, goal, trans, loop, closed, quit>>
    BY <1>7 DEF Wait
  <2> HIDE DEF IInv, lifecycle, stats, callers, Thread, Process, Critical,
               Calling, InStats, None
  <2> QED
    BY <2>2, <2>3, <2>4, <2>5 DEF IInv
<1>8. ASSUME NEW t \in Thread, NEW p \in Process, StartHere(t, p) PROVE Types'
  BY <1>8 DEF StartHere, Step
<1>9. ASSUME NEW t \in Thread, NEW p \in Process, Unlock(t, p) PROVE Types'
  <2>1. stat' \in [Process -> [Thread -> Critical \union Calling \union {None, "lock"}]]
    BY <1>9 DEF Unlock, Step
  <2>2. \A u \in Thread : stat'["service"][u] \notin Calling
    BY <1>9 DEF Unlock, Step
  <2>3. goal' \in [Process -> [Thread -> {"on", "off"}]]
    BY <1>9 DEF Unlock
  <2>4. trans' \in [Process -> Thread \union {None}]
    BY <1>9 DEF Unlock
  <2>5. UNCHANGED <<tail, pc, where, loop, closed, quit, awaited>>
    BY <1>9 DEF Unlock
  <2> HIDE DEF IInv, lifecycle, stats, callers, Thread, Process, Critical,
               Calling, InStats, None
  <2> QED
    BY <2>1, <2>2, <2>3, <2>4, <2>5 DEF IInv
<1>10. ASSUME NEW t \in Thread, ForwardStop(t) PROVE Types'
  BY <1>10 DEF ForwardStop, Forward, AfterStop
<1>11. ASSUME NEW t \in Thread, ForwardStart(t) PROVE Types'
  BY <1>11 DEF ForwardStart, Forward
<1>12. ASSUME NEW t \in Thread, Answered(t) PROVE Types'
  BY <1>12 DEF Answered, Step, AfterStop
<1>13. ASSUME NEW t \in Call, StartHandler(t) PROVE Types'
  BY <1>13 DEF StartHandler, Goto, Leave, Enter
<1>14. ASSUME NEW t \in Call, Already(t) PROVE Types'
  BY <1>14 DEF Already, Leave
<1>15. ASSUME NEW t \in Call, StopHandler(t) PROVE Types'
  BY <1>15 DEF StopHandler, Goto, Leave, Enter
<1>16. ASSUME NEW t \in Call, StopGoes(t) PROVE Types'
  BY <1>16 DEF StopGoes, Leave
<1>17. ASSUME NEW t \in Call, Replay(t) PROVE Types'
  BY <1>17 DEF Replay, Goto, Leave
<1>18. ASSUME NEW t \in Call, ReplayEmits(t) PROVE Types'
  BY <1>18 DEF ReplayEmits, Goto, Enter
<1>19. ASSUME NEW t \in Call, StatsDone(t) PROVE Types'
  BY <1>19 DEF StatsDone, Leave
<1>20. ASSUME NEW p \in Process, StartFails(p) PROVE Types'
  BY <1>20 DEF StartFails
<1>21. ASSUME NEW p \in Process, StartWorks(p) PROVE Types'
  BY <1>21 DEF StartWorks
<1>22. ASSUME NEW p \in Process, FinishStart(p) PROVE Types'
  BY <1>22 DEF FinishStart, Enter
<1>23. ASSUME NEW p \in Process, Connected(p) PROVE Types'
  BY <1>23 DEF Connected
<1>24. ASSUME NEW p \in Process, Stopped(p) PROVE Types'
  BY <1>24 DEF Stopped
<1>25. ASSUME NEW p \in Process, NEW i \in Loop, Tick(p, i) PROVE Types'
  BY <1>25 DEF Tick
<1>26. ASSUME NEW p \in Process, NEW i \in Loop, Report(p, i) PROVE Types'
  BY <1>26 DEF Report
<1>27. ASSUME NEW p \in Process, NEW i \in Loop, QuitSeen(p, i) PROVE Types'
  BY <1>27 DEF QuitSeen
<1>28. CASE Subscribe  BY <1>28 DEF Subscribe
<1>29. CASE Relay  BY <1>29 DEF Relay
<1>30. CASE ServiceEnds
  <2>1. tail' \in [Process -> {"idle", "starting", "up", "connected"}]
    BY <1>30 DEF ServiceEnds
  <2>2. pc' \in [Call -> InStats \union {"idle", "start", "stop", "replay", "emit"}]
    BY <1>30 DEF ServiceEnds
  <2>3. where' \in [Call -> Process]
    BY <1>30 DEF ServiceEnds
  <2>4. stat' \in [Process -> [Thread -> Critical \union Calling \union {None, "lock"}]]
    BY <1>30 DEF ServiceEnds
  <2>5. \A u \in Thread : stat'["service"][u] \notin Calling
    BY <1>30 DEF ServiceEnds
  <2>6. goal' \in [Process -> [Thread -> {"on", "off"}]]
    BY <1>30 DEF ServiceEnds
  <2>7. trans' \in [Process -> Thread \union {None}]
    BY <1>30 DEF ServiceEnds
  <2>8. loop' \in [Process -> [Loop -> {None, "wait", "hold"}]]
    BY <1>30 DEF ServiceEnds
  <2>9. closed' \in [Process -> SUBSET Loop]
    BY <1>30 DEF ServiceEnds
  <2>10. quit' \in [Process -> Loop \union {0}]
    BY <1>30 DEF ServiceEnds
  <2>11. awaited' \in [Process -> [Thread -> Loop \union {0}]]
    BY <1>30 DEF ServiceEnds
  <2> HIDE DEF IInv, lifecycle, stats, callers, Thread, Process, Critical,
               Calling, InStats, None
  <2> QED
    BY <2>1, <2>2, <2>3, <2>4, <2>5, <2>6, <2>7, <2>8, <2>9, <2>10, <2>11 DEF IInv
<1>31. CASE ServiceStarts  BY <1>31 DEF ServiceStarts
<1>32. CASE UNCHANGED vars  BY <1>32 DEF vars
<1> HIDE DEF IInv, lifecycle, stats, callers, Types, Thread, Process, Critical,
        Calling, InStats, None
<1> QED
  BY <1>1, <1>2, <1>3, <1>4, <1>5, <1>6, <1>7, <1>8, <1>9, <1>10, <1>11,
     <1>12, <1>13, <1>14, <1>15, <1>16, <1>17, <1>18, <1>19, <1>20, <1>21,
     <1>22, <1>23, <1>24, <1>25, <1>26, <1>27, <1>28, <1>29, <1>30, <1>31,
     <1>32 DEF Next, Command, ThreadStep, StatsStep, ForwardStep,
     HandlerStep, LifecycleStep

\* A command enters a transition only when its thread is in none, and leaves
\* its own side last.
LEMMA ThreadsKept ==
  ASSUME IInv, [Next]_vars
  PROVE  Threads'
<1> USE BoundAssumption
    DEF IInv, lifecycle, stats, callers, Types, Threads, Thread, Process,
        Critical, Calling, InStats, None
<1>1. ASSUME NEW t \in Call, NEW p \in Process, engineStart(t, p) PROVE Threads'
  BY <1>1 DEF engineStart, Issue
<1>2. ASSUME NEW t \in Call, engineStop(t) PROVE Threads'
  BY <1>2 DEF engineStop, Issue
<1>3. ASSUME NEW t \in Call, NEW g \in {"on", "off"}, StatsCommand(t, g) PROVE Threads'
  BY <1>3 DEF StatsCommand, Issue, Enter
<1>4. ASSUME NEW t \in Call, SetStatusSink(t) PROVE Threads'
  BY <1>4 DEF SetStatusSink, Issue
<1>5. ASSUME NEW t \in Thread, NEW p \in Process, Lock(t, p) PROVE Threads'
  BY <1>5 DEF Lock, Step
<1>6. ASSUME NEW t \in Thread, NEW p \in Process, StopHere(t, p) PROVE Threads'
  BY <1>6 DEF StopHere, Step
<1>7. ASSUME NEW t \in Thread, NEW p \in Process, Wait(t, p) PROVE Threads'
  BY <1>7 DEF Wait, Step, AfterStop
<1>8. ASSUME NEW t \in Thread, NEW p \in Process, StartHere(t, p) PROVE Threads'
  BY <1>8 DEF StartHere, Step
<1>9. ASSUME NEW t \in Thread, NEW p \in Process, Unlock(t, p) PROVE Threads'
  BY <1>9 DEF Unlock, Step
<1>10. ASSUME NEW t \in Thread, ForwardStop(t) PROVE Threads'
  BY <1>10 DEF ForwardStop, Forward, AfterStop
<1>11. ASSUME NEW t \in Thread, ForwardStart(t) PROVE Threads'
  BY <1>11 DEF ForwardStart, Forward
<1>12. ASSUME NEW t \in Thread, Answered(t) PROVE Threads'
  BY <1>12 DEF Answered, Step, AfterStop
<1>13. ASSUME NEW t \in Call, StartHandler(t) PROVE Threads'
  BY <1>13 DEF StartHandler, Goto, Leave, Enter
<1>14. ASSUME NEW t \in Call, Already(t) PROVE Threads'
  BY <1>14 DEF Already, Leave
<1>15. ASSUME NEW t \in Call, StopHandler(t) PROVE Threads'
  BY <1>15 DEF StopHandler, Goto, Leave, Enter
<1>16. ASSUME NEW t \in Call, StopGoes(t) PROVE Threads'
  BY <1>16 DEF StopGoes, Leave
<1>17. ASSUME NEW t \in Call, Replay(t) PROVE Threads'
  BY <1>17 DEF Replay, Goto, Leave
<1>18. ASSUME NEW t \in Call, ReplayEmits(t) PROVE Threads'
  BY <1>18 DEF ReplayEmits, Goto, Enter
<1>19. ASSUME NEW t \in Call, StatsDone(t) PROVE Threads'
  BY <1>19 DEF StatsDone, Leave
<1>20. ASSUME NEW p \in Process, StartFails(p) PROVE Threads'
  BY <1>20 DEF StartFails
<1>21. ASSUME NEW p \in Process, StartWorks(p) PROVE Threads'
  BY <1>21 DEF StartWorks
<1>22. ASSUME NEW p \in Process, FinishStart(p) PROVE Threads'
  BY <1>22 DEF FinishStart, Enter
<1>23. ASSUME NEW p \in Process, Connected(p) PROVE Threads'
  BY <1>23 DEF Connected
<1>24. ASSUME NEW p \in Process, Stopped(p) PROVE Threads'
  BY <1>24 DEF Stopped
<1>25. ASSUME NEW p \in Process, NEW i \in Loop, Tick(p, i) PROVE Threads'
  BY <1>25 DEF Tick
<1>26. ASSUME NEW p \in Process, NEW i \in Loop, Report(p, i) PROVE Threads'
  BY <1>26 DEF Report
<1>27. ASSUME NEW p \in Process, NEW i \in Loop, QuitSeen(p, i) PROVE Threads'
  BY <1>27 DEF QuitSeen
<1>28. CASE Subscribe  BY <1>28 DEF Subscribe
<1>29. CASE Relay  BY <1>29 DEF Relay
<1>30. CASE ServiceEnds  BY <1>30 DEF ServiceEnds
<1>31. CASE ServiceStarts  BY <1>31 DEF ServiceStarts
<1>32. CASE UNCHANGED vars  BY <1>32 DEF vars
<1> HIDE DEF IInv, lifecycle, stats, callers, Types, Threads, Thread, Process,
        Critical, Calling, InStats, None
<1> QED
  BY <1>1, <1>2, <1>3, <1>4, <1>5, <1>6, <1>7, <1>8, <1>9, <1>10, <1>11,
     <1>12, <1>13, <1>14, <1>15, <1>16, <1>17, <1>18, <1>19, <1>20, <1>21,
     <1>22, <1>23, <1>24, <1>25, <1>26, <1>27, <1>28, <1>29, <1>30, <1>31,
     <1>32 DEF Next, Command, ThreadStep, StatsStep, ForwardStep,
     HandlerStep, LifecycleStep

\* Only the thread that took statsTransMu is in the transition.
LEMMA LockedKept ==
  ASSUME IInv, [Next]_vars
  PROVE  Locked'
<1> USE BoundAssumption
    DEF IInv, lifecycle, stats, callers, Types, Threads, Locked, Thread,
        Process, Critical, Calling, InStats, None
<1>1. ASSUME NEW t \in Call, NEW p \in Process, engineStart(t, p) PROVE Locked'
  BY <1>1 DEF engineStart, Issue
<1>2. ASSUME NEW t \in Call, engineStop(t) PROVE Locked'
  BY <1>2 DEF engineStop, Issue
<1>3. ASSUME NEW t \in Call, NEW g \in {"on", "off"}, StatsCommand(t, g) PROVE Locked'
  BY <1>3 DEF StatsCommand, Issue, Enter
<1>4. ASSUME NEW t \in Call, SetStatusSink(t) PROVE Locked'
  BY <1>4 DEF SetStatusSink, Issue
<1>5. ASSUME NEW t \in Thread, NEW p \in Process, Lock(t, p) PROVE Locked'
  BY <1>5 DEF Lock, Step
<1>6. ASSUME NEW t \in Thread, NEW p \in Process, StopHere(t, p) PROVE Locked'
  BY <1>6 DEF StopHere, Step
<1>7. ASSUME NEW t \in Thread, NEW p \in Process, Wait(t, p) PROVE Locked'
  BY <1>7 DEF Wait, Step, AfterStop
<1>8. ASSUME NEW t \in Thread, NEW p \in Process, StartHere(t, p) PROVE Locked'
  BY <1>8 DEF StartHere, Step
<1>9. ASSUME NEW t \in Thread, NEW p \in Process, Unlock(t, p) PROVE Locked'
  BY <1>9 DEF Unlock, Step
<1>10. ASSUME NEW t \in Thread, ForwardStop(t) PROVE Locked'
  BY <1>10 DEF ForwardStop, Forward, AfterStop
<1>11. ASSUME NEW t \in Thread, ForwardStart(t) PROVE Locked'
  BY <1>11 DEF ForwardStart, Forward
<1>12. ASSUME NEW t \in Thread, Answered(t) PROVE Locked'
  BY <1>12 DEF Answered, Step, AfterStop
<1>13. ASSUME NEW t \in Call, StartHandler(t) PROVE Locked'
  BY <1>13 DEF StartHandler, Goto, Leave, Enter
<1>14. ASSUME NEW t \in Call, Already(t) PROVE Locked'
  BY <1>14 DEF Already, Leave
<1>15. ASSUME NEW t \in Call, StopHandler(t) PROVE Locked'
  BY <1>15 DEF StopHandler, Goto, Leave, Enter
<1>16. ASSUME NEW t \in Call, StopGoes(t) PROVE Locked'
  BY <1>16 DEF StopGoes, Leave
<1>17. ASSUME NEW t \in Call, Replay(t) PROVE Locked'
  BY <1>17 DEF Replay, Goto, Leave
<1>18. ASSUME NEW t \in Call, ReplayEmits(t) PROVE Locked'
  BY <1>18 DEF ReplayEmits, Goto, Enter
<1>19. ASSUME NEW t \in Call, StatsDone(t) PROVE Locked'
  BY <1>19 DEF StatsDone, Leave
<1>20. ASSUME NEW p \in Process, StartFails(p) PROVE Locked'
  BY <1>20 DEF StartFails
<1>21. ASSUME NEW p \in Process, StartWorks(p) PROVE Locked'
  BY <1>21 DEF StartWorks
<1>22. ASSUME NEW p \in Process, FinishStart(p) PROVE Locked'
  BY <1>22 DEF FinishStart, Enter
<1>23. ASSUME NEW p \in Process, Connected(p) PROVE Locked'
  BY <1>23 DEF Connected
<1>24. ASSUME NEW p \in Process, Stopped(p) PROVE Locked'
  BY <1>24 DEF Stopped
<1>25. ASSUME NEW p \in Process, NEW i \in Loop, Tick(p, i) PROVE Locked'
  BY <1>25 DEF Tick
<1>26. ASSUME NEW p \in Process, NEW i \in Loop, Report(p, i) PROVE Locked'
  BY <1>26 DEF Report
<1>27. ASSUME NEW p \in Process, NEW i \in Loop, QuitSeen(p, i) PROVE Locked'
  BY <1>27 DEF QuitSeen
<1>28. CASE Subscribe  BY <1>28 DEF Subscribe
<1>29. CASE Relay  BY <1>29 DEF Relay
<1>30. CASE ServiceEnds  BY <1>30 DEF ServiceEnds
<1>31. CASE ServiceStarts  BY <1>31 DEF ServiceStarts
<1>32. CASE UNCHANGED vars  BY <1>32 DEF vars
<1> HIDE DEF IInv, lifecycle, stats, callers, Types, Threads, Locked, Thread,
        Process, Critical, Calling, InStats, None
<1> QED
  BY <1>1, <1>2, <1>3, <1>4, <1>5, <1>6, <1>7, <1>8, <1>9, <1>10, <1>11,
     <1>12, <1>13, <1>14, <1>15, <1>16, <1>17, <1>18, <1>19, <1>20, <1>21,
     <1>22, <1>23, <1>24, <1>25, <1>26, <1>27, <1>28, <1>29, <1>30, <1>31,
     <1>32 DEF Next, Command, ThreadStep, StatsStep, ForwardStep,
     HandlerStep, LifecycleStep

\* The owner stops the registered loop, waits for that one, and registers the
\* next only when no loop is left.
LEMMA OwnedKept ==
  ASSUME IInv, [Next]_vars
  PROVE  Owned'
<1> USE BoundAssumption
    DEF IInv, lifecycle, stats, callers, Types, Threads, Locked, Owned,
        Unregistered, Thread, Process, Critical, Calling,
        InStats, None, Loop
<1>1. ASSUME NEW t \in Call, NEW p \in Process, engineStart(t, p) PROVE Owned'
  BY <1>1 DEF engineStart, Issue
<1>2. ASSUME NEW t \in Call, engineStop(t) PROVE Owned'
  BY <1>2 DEF engineStop, Issue
<1>3. ASSUME NEW t \in Call, NEW g \in {"on", "off"}, StatsCommand(t, g) PROVE Owned'
  BY <1>3 DEF StatsCommand, Issue, Enter
<1>4. ASSUME NEW t \in Call, SetStatusSink(t) PROVE Owned'
  BY <1>4 DEF SetStatusSink, Issue
<1>5. ASSUME NEW t \in Thread, NEW p \in Process, Lock(t, p) PROVE Owned'
  BY <1>5 DEF Lock, Step
<1>6. ASSUME NEW t \in Thread, NEW p \in Process, StopHere(t, p) PROVE Owned'
  BY <1>6 DEF StopHere, Step
<1>7. ASSUME NEW t \in Thread, NEW p \in Process, Wait(t, p) PROVE Owned'
  BY <1>7 DEF Wait, Step, AfterStop
<1>8. ASSUME NEW t \in Thread, NEW p \in Process, StartHere(t, p) PROVE Owned'
  BY <1>8 DEF StartHere, Step
<1>9. ASSUME NEW t \in Thread, NEW p \in Process, Unlock(t, p) PROVE Owned'
  BY <1>9 DEF Unlock, Step
<1>10. ASSUME NEW t \in Thread, ForwardStop(t) PROVE Owned'
  BY <1>10 DEF ForwardStop, Forward, AfterStop
<1>11. ASSUME NEW t \in Thread, ForwardStart(t) PROVE Owned'
  BY <1>11 DEF ForwardStart, Forward
<1>12. ASSUME NEW t \in Thread, Answered(t) PROVE Owned'
  BY <1>12 DEF Answered, Step, AfterStop
<1>13. ASSUME NEW t \in Call, StartHandler(t) PROVE Owned'
  BY <1>13 DEF StartHandler, Goto, Leave, Enter
<1>14. ASSUME NEW t \in Call, Already(t) PROVE Owned'
  BY <1>14 DEF Already, Leave
<1>15. ASSUME NEW t \in Call, StopHandler(t) PROVE Owned'
  BY <1>15 DEF StopHandler, Goto, Leave, Enter
<1>16. ASSUME NEW t \in Call, StopGoes(t) PROVE Owned'
  BY <1>16 DEF StopGoes, Leave
<1>17. ASSUME NEW t \in Call, Replay(t) PROVE Owned'
  BY <1>17 DEF Replay, Goto, Leave
<1>18. ASSUME NEW t \in Call, ReplayEmits(t) PROVE Owned'
  BY <1>18 DEF ReplayEmits, Goto, Enter
<1>19. ASSUME NEW t \in Call, StatsDone(t) PROVE Owned'
  BY <1>19 DEF StatsDone, Leave
<1>20. ASSUME NEW p \in Process, StartFails(p) PROVE Owned'
  BY <1>20 DEF StartFails
<1>21. ASSUME NEW p \in Process, StartWorks(p) PROVE Owned'
  BY <1>21 DEF StartWorks
<1>22. ASSUME NEW p \in Process, FinishStart(p) PROVE Owned'
  BY <1>22 DEF FinishStart, Enter
<1>23. ASSUME NEW p \in Process, Connected(p) PROVE Owned'
  BY <1>23 DEF Connected
<1>24. ASSUME NEW p \in Process, Stopped(p) PROVE Owned'
  BY <1>24 DEF Stopped
<1>25. ASSUME NEW p \in Process, NEW i \in Loop, Tick(p, i) PROVE Owned'
  BY <1>25 DEF Tick
<1>26. ASSUME NEW p \in Process, NEW i \in Loop, Report(p, i) PROVE Owned'
  BY <1>26 DEF Report
<1>27. ASSUME NEW p \in Process, NEW i \in Loop, QuitSeen(p, i) PROVE Owned'
  BY <1>27 DEF QuitSeen
<1>28. CASE Subscribe  BY <1>28 DEF Subscribe
<1>29. CASE Relay  BY <1>29 DEF Relay
<1>30. CASE ServiceEnds  BY <1>30 DEF ServiceEnds
<1>31. CASE ServiceStarts  BY <1>31 DEF ServiceStarts
<1>32. CASE UNCHANGED vars  BY <1>32 DEF vars
<1> HIDE DEF IInv, lifecycle, stats, callers, Types, Threads, Locked, Owned,
        Unregistered, Thread, Process, Critical, Calling,
        InStats, None, Loop
<1> QED
  BY <1>1, <1>2, <1>3, <1>4, <1>5, <1>6, <1>7, <1>8, <1>9, <1>10, <1>11,
     <1>12, <1>13, <1>14, <1>15, <1>16, <1>17, <1>18, <1>19, <1>20, <1>21,
     <1>22, <1>23, <1>24, <1>25, <1>26, <1>27, <1>28, <1>29, <1>30, <1>31,
     <1>32 DEF Next, Command, ThreadStep, StatsStep, ForwardStep,
     HandlerStep, LifecycleStep

\* The owner clears statsQuit when it closes it.
LEMMA UnregisteredKept ==
  ASSUME IInv, [Next]_vars
  PROVE  Unregistered'
<1> USE BoundAssumption
    DEF IInv, lifecycle, stats, callers, Types, Threads, Locked,
        Unregistered, Thread, Process, Critical, Calling,
        InStats, None
<1>1. ASSUME NEW t \in Call, NEW p \in Process, engineStart(t, p) PROVE Unregistered'
  BY <1>1 DEF engineStart, Issue
<1>2. ASSUME NEW t \in Call, engineStop(t) PROVE Unregistered'
  BY <1>2 DEF engineStop, Issue
<1>3. ASSUME NEW t \in Call, NEW g \in {"on", "off"}, StatsCommand(t, g) PROVE Unregistered'
  BY <1>3 DEF StatsCommand, Issue, Enter
<1>4. ASSUME NEW t \in Call, SetStatusSink(t) PROVE Unregistered'
  BY <1>4 DEF SetStatusSink, Issue
<1>5. ASSUME NEW t \in Thread, NEW p \in Process, Lock(t, p) PROVE Unregistered'
  BY <1>5 DEF Lock, Step
<1>6. ASSUME NEW t \in Thread, NEW p \in Process, StopHere(t, p) PROVE Unregistered'
  BY <1>6 DEF StopHere, Step
<1>7. ASSUME NEW t \in Thread, NEW p \in Process, Wait(t, p) PROVE Unregistered'
  BY <1>7 DEF Wait, Step, AfterStop
<1>8. ASSUME NEW t \in Thread, NEW p \in Process, StartHere(t, p) PROVE Unregistered'
  BY <1>8 DEF StartHere, Step
<1>9. ASSUME NEW t \in Thread, NEW p \in Process, Unlock(t, p) PROVE Unregistered'
  BY <1>9 DEF Unlock, Step
<1>10. ASSUME NEW t \in Thread, ForwardStop(t) PROVE Unregistered'
  BY <1>10 DEF ForwardStop, Forward, AfterStop
<1>11. ASSUME NEW t \in Thread, ForwardStart(t) PROVE Unregistered'
  BY <1>11 DEF ForwardStart, Forward
<1>12. ASSUME NEW t \in Thread, Answered(t) PROVE Unregistered'
  BY <1>12 DEF Answered, Step, AfterStop
<1>13. ASSUME NEW t \in Call, StartHandler(t) PROVE Unregistered'
  BY <1>13 DEF StartHandler, Goto, Leave, Enter
<1>14. ASSUME NEW t \in Call, Already(t) PROVE Unregistered'
  BY <1>14 DEF Already, Leave
<1>15. ASSUME NEW t \in Call, StopHandler(t) PROVE Unregistered'
  BY <1>15 DEF StopHandler, Goto, Leave, Enter
<1>16. ASSUME NEW t \in Call, StopGoes(t) PROVE Unregistered'
  BY <1>16 DEF StopGoes, Leave
<1>17. ASSUME NEW t \in Call, Replay(t) PROVE Unregistered'
  BY <1>17 DEF Replay, Goto, Leave
<1>18. ASSUME NEW t \in Call, ReplayEmits(t) PROVE Unregistered'
  BY <1>18 DEF ReplayEmits, Goto, Enter
<1>19. ASSUME NEW t \in Call, StatsDone(t) PROVE Unregistered'
  BY <1>19 DEF StatsDone, Leave
<1>20. ASSUME NEW p \in Process, StartFails(p) PROVE Unregistered'
  BY <1>20 DEF StartFails
<1>21. ASSUME NEW p \in Process, StartWorks(p) PROVE Unregistered'
  BY <1>21 DEF StartWorks
<1>22. ASSUME NEW p \in Process, FinishStart(p) PROVE Unregistered'
  BY <1>22 DEF FinishStart, Enter
<1>23. ASSUME NEW p \in Process, Connected(p) PROVE Unregistered'
  BY <1>23 DEF Connected
<1>24. ASSUME NEW p \in Process, Stopped(p) PROVE Unregistered'
  BY <1>24 DEF Stopped
<1>25. ASSUME NEW p \in Process, NEW i \in Loop, Tick(p, i) PROVE Unregistered'
  BY <1>25 DEF Tick
<1>26. ASSUME NEW p \in Process, NEW i \in Loop, Report(p, i) PROVE Unregistered'
  BY <1>26 DEF Report
<1>27. ASSUME NEW p \in Process, NEW i \in Loop, QuitSeen(p, i) PROVE Unregistered'
  BY <1>27 DEF QuitSeen
<1>28. CASE Subscribe  BY <1>28 DEF Subscribe
<1>29. CASE Relay  BY <1>29 DEF Relay
<1>30. CASE ServiceEnds  BY <1>30 DEF ServiceEnds
<1>31. CASE ServiceStarts  BY <1>31 DEF ServiceStarts
<1>32. CASE UNCHANGED vars  BY <1>32 DEF vars
<1> HIDE DEF IInv, lifecycle, stats, callers, Types, Threads, Locked,
        Unregistered, Thread, Process, Critical, Calling,
        InStats, None
<1> QED
  BY <1>1, <1>2, <1>3, <1>4, <1>5, <1>6, <1>7, <1>8, <1>9, <1>10, <1>11,
     <1>12, <1>13, <1>14, <1>15, <1>16, <1>17, <1>18, <1>19, <1>20, <1>21,
     <1>22, <1>23, <1>24, <1>25, <1>26, <1>27, <1>28, <1>29, <1>30, <1>31,
     <1>32 DEF Next, Command, ThreadStep, StatsStep, ForwardStep,
     HandlerStep, LifecycleStep

-----------------------------------------------------------------------------
\* The service starts without a session or a client.
LEMMA InitInv == Init => IInv
<1> SUFFICES ASSUME Init PROVE IInv
  OBVIOUS
<1> USE BoundAssumption DEF Init, Thread, Process, None, Loop
<1>1. Types  BY DEF Types, InStats, Critical, Calling
<1>2. Threads /\ Unregistered  BY DEF Threads, Unregistered
<1>3. Locked  BY DEF Locked, Critical
<1>4. Owned  BY DEF Owned
<1> QED
  BY <1>1, <1>2, <1>3, <1>4 DEF IInv

\* Every step of the service and its clients keeps the invariant.
LEMMA Inductive == Spec => []IInv
<1>1. IInv /\ [Next]_vars => IInv'
  BY TypesKept, ThreadsKept, LockedKept, OwnedKept, UnregisteredKept DEF IInv
<1> QED
  BY InitInv, <1>1, PTL DEF Spec

\* The service has at most one statistics loop whose quit is open, the
\* registered one, and none but that one outside a transition, for any number
\* of clients that start and stop it (stats.go).
THEOREM ServiceHasOneLoop == Spec => []ServiceLoopOwned
<1>1. IInv => ServiceLoopOwned
  BY DEF IInv, Owned, ServiceLoopOwned
<1> QED
  BY Inductive, <1>1, PTL

\* The steps of a command move its own thread only, on from where it is, and
\* never back to the start of a stop.
LEMMA HandlersMoveOn ==
  ASSUME IInv, NEW t \in Call, HandlerStep(t)
  PROVE  /\ pc[t] # "idle"
         /\ \E to \in {"idle", "already", "quiet", "emit", "stats"} :
               pc' = [pc EXCEPT ![t] = to]
<1> USE DEF Goto, Leave
<1>1. CASE StartHandler(t)  BY <1>1, Zenon DEF StartHandler
<1>2. CASE Already(t)  BY <1>2, Zenon DEF Already
<1>3. CASE StopHandler(t)  BY <1>3, Zenon DEF StopHandler
<1>4. CASE StopGoes(t)  BY <1>4, Zenon DEF StopGoes
<1>5. CASE Replay(t)  BY <1>5, Zenon DEF Replay
<1>6. CASE ReplayEmits(t)  BY <1>6, Zenon DEF ReplayEmits
<1>7. CASE StatsDone(t)  BY <1>7, Zenon DEF StatsDone
<1> QED
  BY <1>1, <1>2, <1>3, <1>4, <1>5, <1>6, <1>7 DEF HandlerStep

\* A stop command issued while an in-process engine starts or runs goes to the
\* app's own controller, for any number of threads (engine.go).
THEOREM LocalStops == Spec => LocalStopStaysLocal
<1>1. ASSUME IInv, Next, NEW c \in Call,
             pc[c] = "idle", pc'[c] = "stop", running["app"] \/ tail["app"] # "idle"
      PROVE  where'[c] = "app"
  <2>0. pc \in [Call -> InStats \union {"idle", "start", "stop", "replay", "emit"}]
        /\ where \in [Call -> Process]
    BY <1>1 DEF IInv, Types
  <2>1. ASSUME NEW t \in Call, Command(t) PROVE where'[c] = "app"
    <3>1. ASSUME NEW p \in Process, engineStart(t, p) PROVE FALSE
      BY <1>1, <2>0, <3>1 DEF engineStart, Issue
    <3>2. CASE engineStop(t)
      <4>1. engaged("app")
        BY <1>1 DEF engaged
      <4> QED
        BY <1>1, <2>0, <3>2, <4>1 DEF engineStop, Issue
    <3>3. ASSUME NEW g \in {"on", "off"}, StatsCommand(t, g) PROVE FALSE
      BY <1>1, <2>0, <3>3 DEF StatsCommand, Issue
    <3>4. CASE SetStatusSink(t)
      BY <1>1, <2>0, <3>4 DEF SetStatusSink, Issue
    <3> QED
      BY <2>1, <3>1, <3>2, <3>3, <3>4 DEF Command
  <2>2. ASSUME NEW t \in Call, HandlerStep(t) PROVE FALSE
    BY <1>1, <2>0, <2>2, HandlersMoveOn
  <2>3. CASE ServiceEnds
    BY <1>1, <2>0, <2>3 DEF ServiceEnds
  <2>4. CASE UNCHANGED callers
    BY <1>1, <2>4 DEF callers
  <2>5. ASSUME NEW t \in Thread, NEW p \in Process, Lock(t, p) \/ StatsStep(t, p)
        PROVE  UNCHANGED callers
    BY <2>5, Zenon DEF callers, Lock, StatsStep, StopHere, Wait, StartHere, Unlock
  <2>6. ASSUME NEW t \in Thread, ForwardStep(t)
        PROVE  UNCHANGED callers
    BY <2>6, Zenon DEF callers, ForwardStep, ForwardStop, ForwardStart, Forward, Answered
  <2>7. ASSUME NEW p \in Process, LifecycleStep(p) \/ Stopped(p)
        PROVE  UNCHANGED callers
    BY <2>7, Zenon DEF callers, LifecycleStep, StartFails, StartWorks, FinishStart,
                       Connected, Stopped
  <2>8. ASSUME NEW p \in Process, NEW i \in Loop, Tick(p, i) \/ Report(p, i) \/ QuitSeen(p, i)
        PROVE  UNCHANGED callers
    BY <2>8, Zenon DEF callers, Tick, Report, QuitSeen
  <2>9. CASE Subscribe \/ Relay \/ ServiceStarts
    BY <2>4, <2>9, Zenon DEF callers, Subscribe, Relay, ServiceStarts
  <2> QED
    BY ZenonT(60), <1>1, <2>1, <2>2, <2>3, <2>4, <2>5, <2>6, <2>7, <2>8, <2>9
       DEF Next, ThreadStep
<1>2. IInv /\ [Next]_vars => [\A t \in Call : StopStaysLocal(t)]_vars
  BY <1>1, Zenon DEF StopStaysLocal
<1> QED
  BY Inductive, <1>2, PTL DEF Spec, LocalStopStaysLocal
=============================================================================
