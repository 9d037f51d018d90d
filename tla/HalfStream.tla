----------------------------- MODULE HalfStream -----------------------------
(***************************************************************************)
(* What the bridge promises an app's TCP connection: two byte streams that *)
(* close one by one, as a socket's do.  put[e] counts the bytes end e's    *)
(* writes reported written, got[e] those its reads returned; a step that   *)
(* moves bytes moves them in both counts.  A reader is told the end of its *)
(* stream only after the other end shut it, and gets nothing after that.   *)
(***************************************************************************)
EXTENDS Integers

CONSTANT MaxMove   \* bound: bytes one call carries

VARIABLES
    put,    \* per end, bytes reported written
    got,    \* per end, bytes returned by reads
    shut,   \* per end, it called CloseWrite
    gone,   \* per end, it called Close
    eof     \* per end, a read returned EOF

vars == <<put, got, shut, gone, eof>>
End == {"a", "b"}
Peer(e) == IF e = "a" THEN "b" ELSE "a"

Init ==
    /\ put = [e \in End |-> 0] /\ got = [e \in End |-> 0]
    /\ shut = [e \in End |-> FALSE] /\ gone = [e \in End |-> FALSE]
    /\ eof = [e \in End |-> FALSE]

\* n bytes that e writes are read at the other end.
Move(e, n) ==
    /\ ~eof[Peer(e)]
    /\ put' = [put EXCEPT ![e] = @ + n]
    /\ got' = [got EXCEPT ![Peer(e)] = @ + n]
    /\ UNCHANGED <<shut, gone, eof>>

ReadsEof(e) ==
    /\ shut[Peer(e)] \/ gone[Peer(e)]
    /\ eof' = [eof EXCEPT ![e] = TRUE]
    /\ UNCHANGED <<put, got, shut, gone>>

CloseWrite(e) ==
    /\ shut' = [shut EXCEPT ![e] = TRUE]
    /\ UNCHANGED <<put, got, gone, eof>>

Close(e) ==
    /\ gone' = [gone EXCEPT ![e] = TRUE]
    /\ UNCHANGED <<put, got, shut, eof>>

Next == \E e \in End :
    \/ \E n \in 0..MaxMove : Move(e, n)
    \/ ReadsEof(e) \/ CloseWrite(e) \/ Close(e)

Spec == Init /\ [][Next]_vars
=============================================================================
