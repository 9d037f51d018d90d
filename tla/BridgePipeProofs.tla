-------------------------- MODULE BridgePipeProofs --------------------------
(***************************************************************************)
(* The bridge's pipe implements a pair of half-closable streams, for every *)
(* size of chunk and buffer and every number of bytes.                     *)
(***************************************************************************)
EXTENDS BridgePipe, TLAPS

USE SMTT(60), ZenonT(60)

\* What makes a transfer fit HalfStream's: the counts are those of one call.
CallsFit == \A e \in End : left[e] <= MaxChunk /\ size[e] <= MaxChunk

\* A reader told of the end is not between its check and its answer, and the
\* channel that told it stays closed.
EofStays == \A e \in End : eof[e] => PeerEnded(e) /\ rpc[e] \in {"idle", "check"}

IInv == TypeOK /\ CallsFit /\ ExchangePaired /\ EofStays

\* The ends are each other's peer.
LEMMA PeerFacts == \A e \in End : Peer(e) \in End /\ Peer(e) # e /\ Peer(Peer(e)) = e
BY DEF End, Peer

\* The count a Read answers is at most both the chunk and the buffer.
LEMMA TakenFits ==
    ASSUME TypeOK, CallsFit, NEW e \in End
    PROVE  Taken(e) \in 0..MaxChunk /\ Taken(e) <= left[e]
<1>1. Peer(e) \in End
  BY PeerFacts
<1>2. left[e] \in Nat /\ size[Peer(e)] \in Nat
  BY <1>1 DEF TypeOK
<1>3. left[e] <= MaxChunk /\ size[Peer(e)] <= MaxChunk
  BY <1>1 DEF CallsFit
<1>4. MaxChunk \in Nat
  BY BoundAssumption
<1> QED
  BY <1>2, <1>3, <1>4 DEF Taken

\* The pipe starts in the invariant.
LEMMA InitIInv == Init => IInv
BY BoundAssumption, PeerFacts DEF Init, IInv, TypeOK, CallsFit, ExchangePaired, EofStays, PeerEnded, End

\* A step that only moves a writer, between its own states, keeps the invariant.
WriterMoves(e) ==
    /\ wpc[e] # "await"
    /\ wpc' \in [End -> {"idle", "check", "select", "await"}]
    /\ wpc'[e] # "await" /\ \A x \in End \ {e} : wpc'[x] = wpc[x]
    /\ left' \in [End -> Nat] /\ \A x \in End : left'[x] <= MaxChunk
    /\ UNCHANGED <<localDone, writeDone, rpc, size, late, put, got, eof, expired>>

\* The writer's case.
LEMMA WriterMovesIInv ==
    ASSUME IInv, NEW e \in End, WriterMoves(e)
    PROVE  IInv'
<1>1. TypeOK'
  BY DEF IInv, TypeOK, WriterMoves
<1>2. CallsFit'
  BY DEF IInv, CallsFit, WriterMoves
<1>3. ExchangePaired'
  <2> SUFFICES ASSUME NEW x \in End
               PROVE  wpc'[x] = "await" <=> rpc'[Peer(x)] = "answer"
    BY DEF ExchangePaired
  <2>1. (wpc[x] = "await" <=> rpc[Peer(x)] = "answer") /\ rpc' = rpc
    BY DEF IInv, ExchangePaired, WriterMoves
  <2>2. wpc'[x] = "await" <=> wpc[x] = "await"
    BY DEF WriterMoves
  <2> QED
    BY <2>1, <2>2
<1>4. EofStays'
  BY DEF IInv, EofStays, PeerEnded, WriterMoves
<1> QED
  BY <1>1, <1>2, <1>3, <1>4 DEF IInv

\* A step that only moves a reader that has no chunk keeps the invariant when
\* EOF is reported only of an ended peer, and a reader waits only on a live one.
ReaderMoves(e) ==
    /\ rpc[e] # "answer"
    /\ rpc' \in [End -> {"idle", "check", "select", "answer"}]
    /\ rpc'[e] # "answer" /\ \A x \in End \ {e} : rpc'[x] = rpc[x]
    /\ rpc'[e] = "select" => ~PeerEnded(e)
    /\ size' \in [End -> Nat] /\ \A x \in End : size'[x] <= MaxChunk
    /\ late' \in [End -> BOOLEAN]
    /\ eof' \in [End -> BOOLEAN] /\ \A x \in End \ {e} : eof'[x] = eof[x]
    /\ eof'[e] # eof[e] => PeerEnded(e)
    /\ UNCHANGED <<localDone, writeDone, wpc, left, put, got, expired>>

\* The reader's case.
LEMMA ReaderMovesIInv ==
    ASSUME IInv, NEW e \in End, ReaderMoves(e)
    PROVE  IInv'
<1>1. TypeOK'
  BY DEF IInv, TypeOK, ReaderMoves
<1>2. CallsFit'
  BY DEF IInv, CallsFit, ReaderMoves
<1>3. ExchangePaired'
  <2> SUFFICES ASSUME NEW x \in End
               PROVE  wpc'[x] = "await" <=> rpc'[Peer(x)] = "answer"
    BY DEF ExchangePaired
  <2>1. (wpc[x] = "await" <=> rpc[Peer(x)] = "answer") /\ wpc' = wpc
    BY DEF IInv, ExchangePaired, ReaderMoves
  <2>2. Peer(x) \in End
    BY PeerFacts
  <2>3. rpc'[Peer(x)] = "answer" <=> rpc[Peer(x)] = "answer"
    BY <2>2 DEF ReaderMoves
  <2> QED
    BY <2>1, <2>3
<1>4. EofStays'
  <2> SUFFICES ASSUME NEW x \in End, eof'[x]
               PROVE  PeerEnded(x)' /\ rpc'[x] \in {"idle", "check"}
    BY DEF EofStays
  <2>1. PeerEnded(x)' <=> PeerEnded(x)
    BY DEF PeerEnded, ReaderMoves
  <2>2. CASE x # e
    BY <2>1, <2>2 DEF IInv, EofStays, ReaderMoves
  <2>3. CASE x = e
    <3>1. PeerEnded(e)
      BY <2>3, ZenonT(60) DEF IInv, EofStays, ReaderMoves, TypeOK
    <3>2. rpc'[e] \in {"idle", "check"}
      BY <3>1 DEF ReaderMoves
    <3> QED
      BY <2>1, <2>3, <3>1, <3>2
  <2> QED
    BY <2>2, <2>3
<1> QED
  BY <1>1, <1>2, <1>3, <1>4 DEF IInv

\* A close, or a deadline that moves, disturbs no call.
SignalMoves ==
    /\ localDone' \in [End -> BOOLEAN] /\ \A x \in End : localDone[x] => localDone'[x]
    /\ writeDone' \in [End -> BOOLEAN] /\ \A x \in End : writeDone[x] => writeDone'[x]
    /\ late' \in [End -> BOOLEAN] /\ expired' \in [End -> BOOLEAN]
    /\ UNCHANGED <<wpc, left, rpc, size, put, got, eof>>

\* The case of closes and deadlines.
LEMMA SignalMovesIInv ==
    ASSUME IInv, SignalMoves
    PROVE  IInv'
<1>1. TypeOK'
  BY DEF IInv, TypeOK, SignalMoves
<1>2. CallsFit' /\ ExchangePaired'
  BY DEF IInv, CallsFit, ExchangePaired, SignalMoves
<1>3. EofStays'
  <2> SUFFICES ASSUME NEW x \in End, eof[x]
               PROVE  PeerEnded(x)' /\ rpc[x] \in {"idle", "check"}
    BY DEF EofStays, SignalMoves
  <2>1. PeerEnded(x) /\ rpc[x] \in {"idle", "check"}
    BY DEF IInv, EofStays
  <2> QED
    BY <2>1, PeerFacts DEF PeerEnded, SignalMoves
<1> QED
  BY <1>1, <1>2, <1>3 DEF IInv

\* A chunk passes to a reader that waits: both go to the answer together.
LEMMA ChunkIInv ==
    ASSUME IInv, NEW e \in End, Chunk(e)
    PROVE  IInv'
<1>0. Peer(e) \in End
  BY PeerFacts
<1>1. TypeOK'
  BY <1>0 DEF IInv, TypeOK, Chunk, streams
<1>2. CallsFit'
  BY DEF IInv, CallsFit, Chunk
<1>3. ExchangePaired'
  <2> SUFFICES ASSUME NEW x \in End
               PROVE  wpc'[x] = "await" <=> rpc'[Peer(x)] = "answer"
    BY DEF ExchangePaired
  <2>1. CASE x = e
    BY <1>0, <2>1 DEF IInv, TypeOK, Chunk
  <2>2. CASE x # e
    <3>1. Peer(x) # Peer(e) /\ Peer(x) \in End
      BY <2>2, PeerFacts
    <3>2. wpc'[x] = wpc[x] /\ rpc'[Peer(x)] = rpc[Peer(x)]
      BY <1>0, <2>2, <3>1 DEF IInv, TypeOK, Chunk
    <3> QED
      BY <3>2 DEF IInv, ExchangePaired
  <2> QED
    BY <2>1, <2>2
<1>4. EofStays'
  <2>1. ~eof[Peer(e)]
    BY <1>0 DEF IInv, EofStays, Chunk
  <2> QED
    BY <1>0, <2>1 DEF IInv, EofStays, PeerEnded, Chunk, TypeOK, streams
<1> QED
  BY <1>1, <1>2, <1>3, <1>4 DEF IInv

\* The answer frees the reader and sends the writer on with what is left.
LEMMA AnswerIInv ==
    ASSUME IInv, NEW e \in End, Answer(e)
    PROVE  IInv'
<1>0. Peer(e) \in End /\ Peer(e) # e
  BY PeerFacts
<1>t. Taken(e) \in Nat /\ Taken(e) <= left[e]
  BY TakenFits DEF IInv
<1>l. left' \in [End -> Nat] /\ \A x \in End : left'[x] <= left[x]
  BY <1>t DEF IInv, TypeOK, Answer
<1>1. TypeOK'
  <2>1. put' \in [End -> Nat] /\ got' \in [End -> Nat]
    BY <1>0, <1>t DEF IInv, TypeOK, Answer
  <2>2. wpc' \in [End -> {"idle", "check", "select", "await"}]
    BY DEF IInv, TypeOK, Answer
  <2>3. /\ rpc' \in [End -> {"idle", "check", "select", "answer"}]
        /\ size' \in [End -> Nat] /\ late' \in [End -> BOOLEAN]
    BY <1>0 DEF IInv, TypeOK, Answer
  <2>4. UNCHANGED <<localDone, writeDone, eof, expired>>
    BY DEF Answer
  <2> QED
    BY <1>l, <2>1, <2>2, <2>3, <2>4 DEF IInv, TypeOK
<1>2. CallsFit'
  <2>1. \A x \in End : size'[x] = size[x] \/ size'[x] = 0
    BY <1>0 DEF IInv, TypeOK, Answer
  <2>2. MaxChunk \in Nat /\ left \in [End -> Nat]
    BY BoundAssumption DEF IInv, TypeOK
  <2> QED
    BY <1>l, <2>1, <2>2 DEF IInv, CallsFit
<1>3. ExchangePaired'
  <2> SUFFICES ASSUME NEW x \in End
               PROVE  wpc'[x] = "await" <=> rpc'[Peer(x)] = "answer"
    BY DEF ExchangePaired
  <2>1. CASE x = e
    BY <1>0, <2>1 DEF IInv, TypeOK, Answer
  <2>2. CASE x # e
    <3>1. Peer(x) # Peer(e) /\ Peer(x) \in End
      BY <2>2, PeerFacts
    <3>2. wpc'[x] = wpc[x] /\ rpc'[Peer(x)] = rpc[Peer(x)]
      BY <1>0, <2>2, <3>1 DEF IInv, TypeOK, Answer
    <3> QED
      BY <3>2 DEF IInv, ExchangePaired
  <2> QED
    BY <2>1, <2>2
<1>4. EofStays'
  <2>1. ~eof[Peer(e)]
    BY <1>0 DEF IInv, EofStays, Answer
  <2> QED
    BY <1>0, <2>1 DEF IInv, EofStays, PeerEnded, Answer, TypeOK
<1> QED
  BY <1>1, <1>2, <1>3, <1>4 DEF IInv

\* Every step of the pipe keeps the invariant.
LEMMA NextIInv == IInv /\ [Next]_vars => IInv'
<1> SUFFICES ASSUME IInv, [Next]_vars
             PROVE  IInv'
  OBVIOUS
<1>b. MaxChunk \in Nat
  BY BoundAssumption
<1>1. ASSUME NEW e \in End, NEW n \in 0..MaxChunk, Write(e, n)
      PROVE  IInv'
  <2>1. WriterMoves(e)
    BY <1>1, <1>b DEF Write, WriterMoves, IInv, TypeOK, CallsFit, reader, streams
  <2> QED
    BY <2>1, WriterMovesIInv
<1>2. ASSUME NEW e \in End, NEW n \in 1..MaxChunk, Read(e, n)
      PROVE  IInv'
  <2>1. ReaderMoves(e)
    BY <1>2, <1>b DEF Read, ReaderMoves, IInv, TypeOK, CallsFit, writer, streams
  <2> QED
    BY <2>1, ReaderMovesIInv
<1>3. ASSUME NEW e \in End, WriterStep(e)
      PROVE  IInv'
  <2>1. WriterMoves(e)
    <3>1. CASE WriteCheck(e)
      BY <1>b, <3>1 DEF WriteCheck, WriterMoves, IInv, TypeOK, CallsFit, reader, streams
    <3>2. CASE WriteEnds(e)
      BY <1>b, <3>2 DEF WriteEnds, WriterMoves, IInv, TypeOK, CallsFit, reader, streams
    <3> QED
      BY <1>3, <3>1, <3>2 DEF WriterStep
  <2> QED
    BY <2>1, WriterMovesIInv
<1>4. ASSUME NEW e \in End, ReaderStep(e)
      PROVE  IInv'
  <2>1. ReaderMoves(e)
    <3>1. CASE ReadClosed(e)
      BY <1>b, <3>1 DEF ReadClosed, ReadReturns, ReaderMoves, IInv, TypeOK, CallsFit, writer
    <3>2. CASE ReadEof(e)
      BY <1>b, <3>2 DEF ReadEof, ReadReturns, ReaderMoves, IInv, TypeOK, CallsFit, writer
    <3>3. CASE ReadExpired(e)
      BY <1>b, <3>3 DEF ReadExpired, ReadReturns, ReaderMoves, IInv, TypeOK, CallsFit, writer
    <3>4. CASE ReadWaits(e)
      BY <1>b, <3>4 DEF ReadWaits, ReaderMoves, IInv, TypeOK, CallsFit, writer, streams
    <3> QED
      BY <1>4, <3>1, <3>2, <3>3, <3>4 DEF ReaderStep
  <2> QED
    BY <2>1, ReaderMovesIInv
<1>5. ASSUME NEW e \in End, Exchange(e)
      PROVE  IInv'
  BY <1>5, ChunkIInv, AnswerIInv DEF Exchange
<1>6. ASSUME NEW e \in End, CloseWrite(e) \/ Close(e) \/ DeadlineExpires(e) \/ DeadlineMoves(e)
      PROVE  IInv'
  <2>1. SignalMoves
    <3>1. CASE CloseWrite(e)
      BY <3>1 DEF CloseWrite, SignalMoves, IInv, TypeOK, writer, reader, streams
    <3>2. CASE Close(e)
      BY <3>2 DEF Close, SignalMoves, IInv, TypeOK, writer, reader, streams
    <3>3. CASE DeadlineExpires(e)
      <4>1. (rpc[e] \in {"check", "select"}) \in BOOLEAN
        OBVIOUS
      <4>2. late' \in [End -> BOOLEAN] /\ expired' \in [End -> BOOLEAN]
        BY <3>3, <4>1 DEF DeadlineExpires, IInv, TypeOK
      <4> QED
        BY <3>3, <4>2 DEF DeadlineExpires, SignalMoves, IInv, TypeOK, writer, streams
    <3>4. CASE DeadlineMoves(e)
      BY <3>4 DEF DeadlineMoves, SignalMoves, IInv, TypeOK, writer, reader, streams
    <3> QED
      BY <1>6, <3>1, <3>2, <3>3, <3>4
  <2> QED
    BY <2>1, SignalMovesIInv
<1>7. CASE UNCHANGED vars
  BY <1>7 DEF vars, writer, reader, streams, IInv, TypeOK, CallsFit, ExchangePaired, EofStays, PeerEnded
<1>8. Timed \subseteq End
  BY BoundAssumption
<1> QED
  BY <1>1, <1>2, <1>3, <1>4, <1>5, <1>6, <1>7, <1>8 DEF Next

\* The invariant holds of every state of the pipe.
THEOREM PipeInvariant == Spec => []IInv
BY InitIInv, NextIInv, PTL DEF Spec

\* A goroutine between a chunk and its count always has its partner there
\* (bridge_pipe.go: "A receive on rdRx is always answered on rdTx").
THEOREM ExchangesPaired == Spec => []ExchangePaired
<1>1. IInv => ExchangePaired
  BY DEF IInv
<1> QED
  BY <1>1, PipeInvariant, PTL

\* A step of the pipe from a state of the invariant is a step of the streams.
LEMMA StepMaps == IInv /\ [Next]_vars => [Stream!Next]_(Stream!vars)
<1> SUFFICES ASSUME IInv, [Next]_vars
             PROVE  [Stream!Next]_(Stream!vars)
  OBVIOUS
<1> DEFINE Same == UNCHANGED <<put, got, writeDone, localDone, eof>>
<1>s. Same => UNCHANGED Stream!vars
  BY DEF Stream!vars
<1>p. Stream!End = End /\ \A e \in End : Stream!Peer(e) = Peer(e)
  BY DEF Stream!End, End, Stream!Peer, Peer
<1>1. ASSUME NEW e \in End, Answer(e)
      PROVE  Stream!Next
  <2>1. Peer(e) \in End /\ ~eof[Peer(e)]
    BY <1>1, PeerFacts DEF IInv, EofStays, Answer
  <2>2. Taken(e) \in 0..MaxChunk
    BY TakenFits DEF IInv
  <2>3. Stream!Move(e, Taken(e))
    BY <1>1, <1>p, <2>1, ZenonT(60) DEF Answer, Stream!Move
  <2> QED
    BY <1>p, <2>2, <2>3 DEF Stream!Next
<1>2. ASSUME NEW e \in End, ReadEof(e)
      PROVE  Stream!Next
  <2>1. Stream!ReadsEof(e)
    BY <1>2, <1>p DEF ReadEof, ReadReturns, PeerEnded, Stream!ReadsEof
  <2> QED
    BY <1>p, <2>1 DEF Stream!Next
<1>3. ASSUME NEW e \in End, CloseWrite(e)
      PROVE  Stream!Next
  <2>1. Stream!CloseWrite(e)
    BY <1>3 DEF CloseWrite, Stream!CloseWrite, streams
  <2> QED
    BY <1>p, <2>1 DEF Stream!Next
<1>4. ASSUME NEW e \in End, Close(e)
      PROVE  Stream!Next
  <2>1. Stream!Close(e)
    BY <1>4 DEF Close, Stream!Close, streams
  <2> QED
    BY <1>p, <2>1 DEF Stream!Next
<1>5. ASSUME NEW e \in End,
             \/ \E n \in 0..MaxChunk : Write(e, n)
             \/ \E n \in 1..MaxChunk : Read(e, n)
             \/ WriterStep(e) \/ Chunk(e) \/ DeadlineExpires(e) \/ DeadlineMoves(e)
             \/ ReadClosed(e) \/ ReadExpired(e) \/ ReadWaits(e)
      PROVE  Same
  BY <1>5 DEF Write, Read, WriterStep, WriteCheck, WriteEnds, Chunk, DeadlineExpires, DeadlineMoves,
              ReadClosed, ReadExpired, ReadWaits, ReadReturns, streams
<1>6. CASE UNCHANGED vars
  BY <1>6, <1>s DEF vars, streams
<1>7. Timed \subseteq End
  BY BoundAssumption
<1> QED
  BY <1>1, <1>2, <1>3, <1>4, <1>5, <1>6, <1>7, <1>s DEF Next, ReaderStep, Exchange

\* The pipe implements the pair of half-closable streams: no byte reported
\* written is lost, and nothing follows an EOF.
THEOREM PipeIsHalfStream == Spec => IsHalfStream
<1>1. Init => Stream!Init
  BY DEF Init, Stream!Init, Stream!End, End
<1> QED
  BY <1>1, StepMaps, PipeInvariant, PTL DEF Spec, IsHalfStream, Stream!Spec
=============================================================================
