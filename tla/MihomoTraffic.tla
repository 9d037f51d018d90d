--------------------------- MODULE MihomoTraffic ---------------------------
(***************************************************************************)
(* What mihomo's sessions report as proxied (engine_mihomo_traffic.go).    *)
(* mihomo's totals count every connection and last the whole process; the  *)
(* session takes a mark of them and takes out what DIRECT connections      *)
(* carried.  One direction; a chunk is one unit.  A DIRECT chunk is counted *)
(* as it is read, before the total sees it, and the counters are atomics   *)
(* that mu does not guard.                                                 *)
(***************************************************************************)
EXTENDS Naturals

CONSTANT MaxChunks   \* bound: chunks of traffic

ASSUME TrafficAssumption == MaxChunks \in Nat

VARIABLES
    total,        \* mihomo's manager: every connection's bytes
    direct,       \* directDown, or directUp
    unseen,       \* DIRECT chunks counted and not yet in the total
    base, shown,  \* the session's mark and what was reported
    mu,           \* mihomoTraffic.mu: free, start, read
    read,         \* the total a read took
    proxied,      \* history: bytes proxied since the session's mark
    carried       \* history: DIRECT chunks counted before the session's reset
                  \* that the total sees after its mark

trafficVars == <<total, direct, unseen, base, shown, mu, read, proxied, carried>>

TrafficInit ==
    /\ total = 0 /\ direct = 0 /\ unseen = 0
    /\ base = 0 /\ shown = 0
    /\ mu = "free" /\ read = 0
    /\ proxied = 0 /\ carried = 0

-----------------------------------------------------------------------------
\* The traffic of the session.

Within == total + unseen < MaxChunks

\* A chunk through the proxy reaches mihomo's total.
ProxiedChunk ==
    /\ Within
    /\ total' = total + 1
    /\ proxied' = proxied + 1
    /\ UNCHANGED <<direct, unseen, base, shown, mu, read, carried>>

\* countedConn: a DIRECT chunk is counted as it is read, and the total sees it
\* afterwards.
DirectChunk ==
    /\ Within
    /\ direct' = direct + 1
    /\ unseen' = unseen + 1
    /\ carried' = IF mu = "start" THEN carried + 1 ELSE carried
    /\ UNCHANGED <<total, base, shown, mu, read, proxied>>

DirectTotalled ==
    /\ unseen > 0
    /\ unseen' = unseen - 1
    /\ total' = total + 1
    /\ UNCHANGED <<direct, base, shown, mu, read, proxied, carried>>

\* startSession under mu: the mark first, then the counters.
StartMark ==
    /\ mu = "free"
    /\ mu' = "start"
    /\ base' = total
    /\ proxied' = 0
    /\ carried' = unseen
    /\ UNCHANGED <<total, direct, unseen, shown, read>>

\* Mutant: the new session goes on from what the last one reported.
StartResetKeepsShown ==
    /\ mu = "start"
    /\ mu' = "free"
    /\ direct' = 0
    /\ UNCHANGED <<total, unseen, base, shown, read, proxied, carried>>

StartReset ==
    /\ mu = "start"
    /\ mu' = "free"
    /\ direct' = 0
    /\ shown' = 0
    /\ UNCHANGED <<total, unseen, base, read, proxied, carried>>

\* proxied() under mu: the total first, then the DIRECT count.
ReadTotal ==
    /\ mu = "free"
    /\ mu' = "read"
    /\ read' = total
    /\ UNCHANGED <<total, direct, unseen, base, shown, proxied, carried>>

\* What was reported once is never taken back.
ReadShows ==
    LET d == IF read > base + direct THEN read - (base + direct) ELSE 0
    IN /\ mu = "read"
       /\ mu' = "free"
       /\ shown' = IF d > shown THEN d ELSE shown
       /\ read' = 0
       /\ UNCHANGED <<total, direct, unseen, base, proxied, carried>>

TrafficNext ==
    \/ ProxiedChunk \/ DirectChunk \/ DirectTotalled
    \/ StartMark \/ StartReset \/ ReadTotal \/ ReadShows

TrafficSpec == TrafficInit /\ [][TrafficNext]_trafficVars

-----------------------------------------------------------------------------
\* A session never reports more than was proxied since it started, but for
\* the DIRECT chunks that straddle its start: counted before the counters were
\* reset, totalled after the mark was taken.
OnlyProxied == mu # "start" => shown <= proxied + carried

\* What a session reported is never taken back.
NeverTakenBack == [][mu # "start" => shown' >= shown]_trafficVars
=============================================================================
