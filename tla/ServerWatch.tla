---------------------------- MODULE ServerWatch ----------------------------
(***************************************************************************)
(* Which server of a balancer the session reports (xray_selection.go,      *)
(* serverstate.go).  Every poll compares the outbounds' byte counters with *)
(* the poll before; the one that grew most is named when it clears a floor *)
(* and leads the runner-up by a factor, and a poll that names none keeps   *)
(* the last pick.                                                          *)
(***************************************************************************)
EXTENDS Integers

CONSTANTS
    Tags,                \* number of proxy outbounds
    minTagTrafficDelta,  \* the floor a pick must clear
    tagTrafficLead,      \* and its lead over the runner-up
    MaxDelta             \* bound: growth of a counter between two polls

ASSUME WatchAssumption ==
    /\ Tags \in Nat \ {0}
    /\ minTagTrafficDelta \in Nat \ {0}
    /\ tagTrafficLead \in Nat \ {0, 1}
    /\ MaxDelta \in Nat

Tag == 1..Tags
Delta == [Tag -> 0..MaxDelta]
Nobody == 0       \* the pool is reported without a pick
Nothing == -1     \* no selection is held

VARIABLES
    watching,  \* the poller runs
    compared,  \* it has counters to compare with
    last,      \* the index it named last
    selection, \* serverSelJSON: Nothing, the pool (Nobody) or a pick
    delta,     \* the growth the latest poll saw
    cause      \* history: the growth the present pick was named for

watchVars == <<watching, compared, last, selection, delta, cause>>

Still == [i \in Tag |-> 0]

WatchInit ==
    /\ watching = FALSE /\ compared = FALSE
    /\ last = Nobody /\ selection = Nothing
    /\ delta = Still /\ cause = Still

-----------------------------------------------------------------------------
\* Mutant: a new best forgets the one it passed.
seenForgets(d, was, i) ==
    IF d[i] > was.most THEN [best |-> i, most |-> d[i], second |-> was.second]
    ELSE IF d[i] > was.second THEN [was EXCEPT !.second = d[i]]
    ELSE was

\* One turn of the picker's loop over the tags.
seen(d, was, i) ==
    IF d[i] > was.most THEN [best |-> i, most |-> d[i], second |-> was.most]
    ELSE IF d[i] > was.second THEN [was EXCEPT !.second = d[i]]
    ELSE was

\* The picker's loop: what it holds after the first i tags.
scanned(d) ==
    LET scan[i \in 0..Tags] ==
            IF i = 0 THEN [best |-> Nobody, most |-> 0, second |-> 0]
            ELSE seen(d, scan[i - 1], i)
    IN  scan

\* tagTrafficPickerFrom on the growth of a poll: a tag, or Nobody.
pick(d) ==
    LET r == scanned(d)[Tags]
    IN IF r.most < minTagTrafficDelta \/ r.most < r.second * tagTrafficLead
       THEN Nobody
       ELSE r.best

\* initXrayServerState of a leastping balancer: the pool, no pick, the poller.
StartWatch ==
    /\ ~watching
    /\ watching' = TRUE
    /\ compared' = FALSE
    /\ last' = Nobody
    /\ selection' = Nobody
    /\ UNCHANGED <<delta, cause>>

\* The first poll only remembers the counters.
Seed ==
    /\ watching /\ ~compared
    /\ compared' = TRUE
    /\ delta' = Still
    /\ UNCHANGED <<watching, last, selection, cause>>

\* A poll: nobody stands out, or the one named last does, or the pick changes
\* and setServerSelection stores it.
Poll(d) ==
    /\ watching /\ compared
    /\ delta' = d
    /\ IF pick(d) \in {Nobody, last}
       THEN UNCHANGED <<last, selection, cause>>
       ELSE last' = pick(d) /\ selection' = pick(d) /\ cause' = d
    /\ UNCHANGED <<watching, compared>>

\* stopSelectionWatch waits for the poller, then the selection is cleared.
EndWatch ==
    /\ watching
    /\ watching' = FALSE
    /\ selection' = Nothing
    /\ delta' = Still
    /\ cause' = Still
    /\ compared' = FALSE
    /\ last' = Nobody

WatchNext == StartWatch \/ Seed \/ EndWatch \/ \E d \in Delta : Poll(d)

-----------------------------------------------------------------------------
\* Tag i stands out in d: above the floor, and the factor above every other.
Leads(i, d) ==
    /\ d[i] >= minTagTrafficDelta
    /\ \A j \in Tag \ {i} : d[i] >= tagTrafficLead * d[j]

\* The server reported is one whose traffic stood out when it was named, and
\* whoever stands out in the latest poll is the one reported: "No pick is named
\* until traffic identifies one" (xray_selection.go:42).
PickStandsOut ==
    /\ selection \in Tag => Leads(selection, cause)
    /\ \A i \in Tag : Leads(i, delta) => selection = i
=============================================================================
