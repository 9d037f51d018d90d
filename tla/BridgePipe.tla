----------------------------- MODULE BridgePipe -----------------------------
(***************************************************************************)
(* The in-memory connection between tun2socks and mihomo                   *)
(* (core/bridge_pipe.go).  The read deadline of an end is here what        *)
(* bridgeDeadline shows a Read: a channel that is open or closed, and that *)
(* a later deadline replaces only once it is closed.  BridgeFlow models    *)
(* how it does that.                                                       *)
(*                                                                         *)
(* Each end has one goroutine that writes and one that reads, as a relay   *)
(* has; any goroutine may close, half-close or move the read deadline at   *)
(* any time.  An unbuffered send and its receive are one step of both      *)
(* goroutines; a select with several cases ready takes any of them.        *)
(***************************************************************************)
EXTENDS Integers

CONSTANTS
    MaxChunk,   \* bound: bytes of one Write, and of one Read buffer
    MaxBytes,   \* bound: per end, bytes written from it in a behaviour
    Timed       \* bound: the ends whose read deadline moves

End == {"a", "b"}
Peer(e) == IF e = "a" THEN "b" ELSE "a"

ASSUME BoundAssumption ==
    /\ MaxChunk \in Nat /\ MaxBytes \in [End -> Nat]
    /\ Timed \subseteq End

VARIABLES
    localDone,  \* per end, Close closed its channel
    writeDone,  \* per end, CloseWrite closed its channel
    wpc,        \* per end, where its writer is
    left,       \* per end, bytes of the Write still to hand over
    rpc,        \* per end, where its reader is
    size,       \* per end, the Read's buffer
    late,       \* per end, the deadline channel the Read holds is closed
    expired,    \* per end, the deadline's current channel is closed
    put, got, eof   \* per end, what its calls returned so far: see HalfStream

streams == <<put, got, eof>>
writer == <<wpc, left>>
reader == <<rpc, size, late>>
vars == <<localDone, writeDone, writer, reader, streams, expired>>

Init ==
    /\ localDone = [e \in End |-> FALSE] /\ writeDone = [e \in End |-> FALSE]
    /\ wpc = [e \in End |-> "idle"] /\ left = [e \in End |-> 0]
    /\ rpc = [e \in End |-> "idle"] /\ size = [e \in End |-> 0]
    /\ late = [e \in End |-> FALSE] /\ expired = [e \in End |-> FALSE]
    /\ put = [e \in End |-> 0] /\ got = [e \in End |-> 0]
    /\ eof = [e \in End |-> FALSE]

-----------------------------------------------------------------------------
(* Write. *)

\* Mutant: the other end's Close does not end a Write.
WriteStoppedLocal(e) == localDone[e] \/ writeDone[e]

WriteStopped(e) == localDone[e] \/ writeDone[e] \/ localDone[Peer(e)]

Write(e, n) ==
    /\ wpc[e] = "idle" /\ put[e] + n <= MaxBytes[e]
    /\ wpc' = [wpc EXCEPT ![e] = "check"]
    /\ left' = [left EXCEPT ![e] = n]
    /\ UNCHANGED <<localDone, writeDone, reader, streams, expired>>

\* The check at the head of the loop: ErrClosedPipe, or on to the select.
WriteCheck(e) ==
    /\ wpc[e] = "check"
    /\ wpc' = [wpc EXCEPT ![e] = IF WriteStopped(e) THEN "idle" ELSE "select"]
    /\ left' = [left EXCEPT ![e] = IF WriteStopped(e) THEN 0 ELSE @]
    /\ UNCHANGED <<localDone, writeDone, reader, streams, expired>>

WriteEnds(e) ==
    /\ wpc[e] = "select" /\ WriteStopped(e)
    /\ wpc' = [wpc EXCEPT ![e] = "idle"]
    /\ left' = [left EXCEPT ![e] = 0]
    /\ UNCHANGED <<localDone, writeDone, reader, streams, expired>>

-----------------------------------------------------------------------------
(* Read. *)

Read(e, n) ==
    /\ rpc[e] = "idle"
    /\ rpc' = [rpc EXCEPT ![e] = "check"]
    /\ size' = [size EXCEPT ![e] = n]
    /\ late' = [late EXCEPT ![e] = expired[e]]
    /\ UNCHANGED <<localDone, writeDone, writer, streams, expired>>

PeerEnded(e) == localDone[Peer(e)] \/ writeDone[Peer(e)]

ReadReturns(e) ==
    /\ rpc' = [rpc EXCEPT ![e] = "idle"]
    /\ size' = [size EXCEPT ![e] = 0]
    /\ late' = [late EXCEPT ![e] = FALSE]
    /\ UNCHANGED <<localDone, writeDone, writer, put, got, expired>>

ReadClosed(e) ==
    /\ rpc[e] \in {"check", "select"} /\ localDone[e]
    /\ ReadReturns(e)
    /\ UNCHANGED eof

ReadEof(e) ==
    /\ \/ rpc[e] = "check" /\ ~localDone[e]
       \/ rpc[e] = "select"
    /\ PeerEnded(e)
    /\ ReadReturns(e)
    /\ eof' = [eof EXCEPT ![e] = TRUE]

ReadExpired(e) ==
    /\ \/ rpc[e] = "check" /\ ~localDone[e] /\ ~PeerEnded(e)
       \/ rpc[e] = "select"
    /\ late[e]
    /\ ReadReturns(e)
    /\ UNCHANGED eof

\* Mutant: the peer's half-close is left to the select.
ReadWaitsOnly(e) ==
    /\ rpc[e] = "check"
    /\ ~localDone[e] /\ ~localDone[Peer(e)] /\ ~late[e]
    /\ rpc' = [rpc EXCEPT ![e] = "select"]
    /\ UNCHANGED <<localDone, writeDone, writer, size, late, streams, expired>>

ReadWaits(e) ==
    /\ rpc[e] = "check"
    /\ ~localDone[e] /\ ~PeerEnded(e) /\ ~late[e]
    /\ rpc' = [rpc EXCEPT ![e] = "select"]
    /\ UNCHANGED <<localDone, writeDone, writer, size, late, streams, expired>>

-----------------------------------------------------------------------------
(* The exchange: a chunk from e's Write to its peer's Read, then the count. *)

\* p.wrTx <- b meets <-p.rdRx.
Chunk(e) ==
    /\ wpc[e] = "select" /\ rpc[Peer(e)] = "select"
    /\ wpc' = [wpc EXCEPT ![e] = "await"]
    /\ rpc' = [rpc EXCEPT ![Peer(e)] = "answer"]
    /\ UNCHANGED <<localDone, writeDone, left, size, late, streams, expired>>

Taken(e) == IF size[Peer(e)] < left[e] THEN size[Peer(e)] ELSE left[e]

\* p.rdTx <- n meets <-p.wrRx: the Read returns, the Write goes on with the
\* rest or returns.
Answer(e) ==
    /\ wpc[e] = "await" /\ rpc[Peer(e)] = "answer"
    /\ left' = [left EXCEPT ![e] = @ - Taken(e)]
    /\ wpc' = [wpc EXCEPT ![e] = IF left[e] > Taken(e) THEN "check" ELSE "idle"]
    /\ rpc' = [rpc EXCEPT ![Peer(e)] = "idle"]
    /\ size' = [size EXCEPT ![Peer(e)] = 0]
    /\ late' = [late EXCEPT ![Peer(e)] = FALSE]
    /\ put' = [put EXCEPT ![e] = @ + Taken(e)]
    /\ got' = [got EXCEPT ![Peer(e)] = @ + Taken(e)]
    /\ UNCHANGED <<localDone, writeDone, eof, expired>>

-----------------------------------------------------------------------------
(* Close and CloseWrite, each at most once. *)

CloseWrite(e) ==
    /\ ~writeDone[e]
    /\ writeDone' = [writeDone EXCEPT ![e] = TRUE]
    /\ UNCHANGED <<localDone, writer, reader, streams, expired>>

Close(e) ==
    /\ ~localDone[e]
    /\ localDone' = [localDone EXCEPT ![e] = TRUE]
    /\ UNCHANGED <<writeDone, writer, reader, streams, expired>>

-----------------------------------------------------------------------------
(* The read deadline, moved by another goroutine or by its timer. *)

\* The channel closes, under the Read that holds it too.
DeadlineExpires(e) ==
    /\ ~expired[e]
    /\ expired' = [expired EXCEPT ![e] = TRUE]
    /\ late' = [late EXCEPT ![e] = rpc[e] \in {"check", "select"}]
    /\ UNCHANGED <<localDone, writeDone, writer, rpc, size, streams>>

\* A later deadline, or none, after one that expired: a channel of its own.
DeadlineMoves(e) ==
    /\ expired[e]
    /\ expired' = [expired EXCEPT ![e] = FALSE]
    /\ UNCHANGED <<localDone, writeDone, writer, reader, streams>>

-----------------------------------------------------------------------------
WriterStep(e) == WriteCheck(e) \/ WriteEnds(e)
ReaderStep(e) == ReadClosed(e) \/ ReadEof(e) \/ ReadExpired(e) \/ ReadWaits(e)
Exchange(e) == Chunk(e) \/ Answer(e)

Next ==
    \/ \E e \in End :
          \/ \E n \in 0..MaxChunk : Write(e, n)
          \/ \E n \in 1..MaxChunk : Read(e, n)
          \/ WriterStep(e) \/ ReaderStep(e) \/ Exchange(e)
          \/ CloseWrite(e) \/ Close(e)
    \/ \E e \in Timed : DeadlineExpires(e) \/ DeadlineMoves(e)

Spec == Init /\ [][Next]_vars

\* Goroutines that can go on do; calls, closes and deadlines are the users'.
Fairness ==
    \A e \in End :
        /\ WF_vars(WriterStep(e)) /\ WF_vars(ReaderStep(e)) /\ WF_vars(Answer(e))

FairSpec == Spec /\ Fairness

TypeOK ==
    /\ localDone \in [End -> BOOLEAN] /\ writeDone \in [End -> BOOLEAN]
    /\ wpc \in [End -> {"idle", "check", "select", "await"}]
    /\ rpc \in [End -> {"idle", "check", "select", "answer"}]
    /\ left \in [End -> Nat] /\ size \in [End -> Nat]
    /\ late \in [End -> BOOLEAN] /\ expired \in [End -> BOOLEAN]
    /\ put \in [End -> Nat] /\ got \in [End -> Nat] /\ eof \in [End -> BOOLEAN]

-----------------------------------------------------------------------------
(* Properties. *)

Stream == INSTANCE HalfStream WITH shut <- writeDone, gone <- localDone, MaxMove <- MaxChunk

\* The pipe is a pair of half-closable streams: a byte a Write reports was
\* returned by a Read, EOF comes only after the peer closed, and nothing
\* follows it, however closes race reads and writes.
IsHalfStream == Stream!Spec

\* A goroutine between a chunk and its count has its partner there: neither
\* end is ever left waiting on rdTx or wrRx by a close.
ExchangePaired == \A e \in End : wpc[e] = "await" <=> rpc[Peer(e)] = "answer"

Closed == \E e \in End : localDone[e]

\* Close at either end releases every call that waits: none hangs on a
\* connection that is gone.
CloseReleases ==
    \A e \in End :
        /\ (Closed /\ rpc[e] # "idle") ~> rpc[e] = "idle"
        /\ (Closed /\ wpc[e] # "idle") ~> wpc[e] = "idle"
=============================================================================
