---------------------------- MODULE MCStatusSink ----------------------------
(***************************************************************************)
(* StatusSink for TLC.  The two things that multiply its states, a second  *)
(* emitter and a host restart, are taken in behaviours of their own.       *)
(***************************************************************************)
EXTENDS StatusSink

CONSTANT Second   \* the emitter that takes part only where no host restarts

VARIABLE crowd

MCInit == Init /\ crowd \in BOOLEAN

MCNext ==
    /\ Next
    /\ IF crowd THEN isolate' = 1 ELSE pc'[Second] = "idle"
    /\ UNCHANGED crowd

\* A step that is kept out is one fairness asks nothing of: the start of an
\* isolate or of an emit.
MCSpec == MCInit /\ [][MCNext]_<<vars, crowd>> /\ Fairness
=============================================================================
