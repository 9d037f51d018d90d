--------------------------- MODULE SessionReport ---------------------------
(***************************************************************************)
(* What a session reports while it runs: the link (LinkWatch), the bytes   *)
(* it proxied (MihomoTraffic), the server in use (ServerWatch) and the     *)
(* external address (IpResolve).  The four are written by goroutines that  *)
(* share no state, so a behaviour here follows one of them and leaves the  *)
(* others at rest.                                                         *)
(***************************************************************************)
EXTENDS IpResolve, LinkWatch, MihomoTraffic, ServerWatch

VARIABLE part

ReportInit ==
    /\ Init /\ LinkInit /\ TrafficInit /\ WatchInit
    /\ part \in {"address", "link", "traffic", "server"}

ReportNext ==
    \/ /\ part = "address" /\ Next
       /\ UNCHANGED <<linkVars, trafficVars, watchVars, part>>
    \/ /\ part = "link" /\ LinkNext
       /\ UNCHANGED <<vars, trafficVars, watchVars, part>>
    \/ /\ part = "traffic" /\ TrafficNext
       /\ UNCHANGED <<vars, linkVars, watchVars, part>>
    \/ /\ part = "server" /\ WatchNext
       /\ UNCHANGED <<vars, linkVars, trafficVars, part>>

\* The callers and the loops go on; a probe ends, by its timeout at the latest.
LinkFairness ==
    /\ \A c \in Caller : WF_linkVars(CallerStep(c))
    /\ \A i \in Loop : WF_linkVars(LoopStep(i))

\* A fair step of a part at rest is not enabled, so each part's own fairness
\* says the same of this composition.
ReportSpec ==
    /\ ReportInit /\ [][ReportNext]_<<vars, linkVars, trafficVars, watchVars, part>>
    /\ Fairness /\ LinkFairness
=============================================================================
