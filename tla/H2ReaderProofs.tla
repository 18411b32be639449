--------------------------- MODULE H2ReaderProofs ---------------------------
(***************************************************************************)
(* Proofs about H2Reader, for any bytes, window and buffer lengths: the    *)
(* window is conserved, memory is bounded, and a peer that sends no empty  *)
(* DATA frames makes poll_read a byte stream; and of H2Stream, where the   *)
(* stream is read, written and reset at once.                              *)
(***************************************************************************)
EXTENDS H2Stream, SequenceTheorems, TLAPS

(* What the caller has, what is left over and what h2 holds are, in this   *)
(* order, what the peer sent.                                              *)
OrderInv == sent = (got \o buf) \o recv

(* What is left over is less than one frame, and a frame fits the window.  *)
SizeInv == Len(buf) < Window

IInv == TypeOK /\ CreditConserved /\ SizeInv /\ OrderInv

-----------------------------------------------------------------------------
(* Sequences.                                                              *)

LEMMA PrefixSuffix ==
  ASSUME NEW s \in Seq(Bytes), NEW n \in 0 .. Len(s)
  PROVE  /\ Prefix(s, n) \in Seq(Bytes) /\ Len(Prefix(s, n)) = n
         /\ Suffix(s, n) \in Seq(Bytes) /\ Len(Suffix(s, n)) = Len(s) - n
         /\ Prefix(s, n) \o Suffix(s, n) = s
<1>1. Len(s) \in Nat /\ \A i \in 1 .. Len(s) : s[i] \in Bytes
  BY LenProperties, ElementOfSeq
<1>2. /\ SubSeq(s, 1, n) \in Seq(Bytes) /\ Len(SubSeq(s, 1, n)) = n
      /\ SubSeq(s, n + 1, Len(s)) \in Seq(Bytes)
      /\ Len(SubSeq(s, n + 1, Len(s))) = Len(s) - n
  BY <1>1, SubSeqProperties
<1>3. /\ 1 \in 1 .. Len(s) + 1
      /\ n \in 1 - 1 .. Len(s)
      /\ Len(s) \in n .. Len(s)
  BY <1>1
<1>4. SubSeq(s, 1, n) \o SubSeq(s, n + 1, Len(s)) = SubSeq(s, 1, Len(s))
  BY <1>3, ConcatAdjacentSubSeq
<1>5. SubSeq(s, 1, Len(s)) = s
  BY SubSeqFull
<1> QED BY <1>2, <1>4, <1>5 DEF Prefix, Suffix

LEMMA Concat ==
  ASSUME NEW s \in Seq(Bytes), NEW t \in Seq(Bytes)
  PROVE  s \o t \in Seq(Bytes) /\ Len(s \o t) = Len(s) + Len(t)
BY ConcatProperties

LEMMA Associative ==
  ASSUME NEW s \in Seq(Bytes), NEW t \in Seq(Bytes), NEW u \in Seq(Bytes)
  PROVE  (s \o t) \o u = s \o (t \o u)
BY ConcatAssociative

LEMMA PrefixOfConcat ==
  ASSUME NEW s \in Seq(Bytes), NEW t \in Seq(Bytes)
  PROVE  SubSeq(s \o t, 1, Len(s)) = s
BY LenProperties, ConcatProperties, SubSeqProperties

LEMMA LesserType ==
  ASSUME NEW m \in Nat \ {0}, NEW n \in Nat \ {0}
  PROVE  Lesser(m, n) \in 1 .. n
BY DEF Lesser

-----------------------------------------------------------------------------
(* The two reads that deliver bytes.                                       *)

LEMMA ReadBufferStep ==
  ASSUME IInv, NEW m \in 1 .. MaxOut, ReadBuffer(m)
  PROVE  /\ got' \in Seq(Bytes) /\ buf' \in Seq(Bytes)
         /\ Len(got') > Len(got) /\ Len(buf') < Window
         /\ sent = (got' \o buf') \o recv
<1> DEFINE n == Lesser(m, Len(buf))
<1>1. /\ got \in Seq(Bytes) /\ buf \in Seq(Bytes) /\ Len(got) \in Nat
      /\ Len(buf) \in Nat \ {0} /\ Len(buf) < Window /\ Window \in Nat
  BY H2ReaderAssumption, LenProperties, EmptySeq DEF IInv, TypeOK, SizeInv, ReadBuffer
<1>2. n \in 1 .. Len(buf)
  <2>1. m \in Nat \ {0}
    BY H2ReaderAssumption
  <2> QED BY <1>1, <2>1, LesserType
<1>3. got' = got \o Prefix(buf, n) /\ buf' = Suffix(buf, n)
  BY DEF ReadBuffer
<1> HIDE DEF n
<1>4. /\ Prefix(buf, n) \in Seq(Bytes) /\ Len(Prefix(buf, n)) = n
      /\ Suffix(buf, n) \in Seq(Bytes) /\ Len(Suffix(buf, n)) = Len(buf) - n
      /\ Prefix(buf, n) \o Suffix(buf, n) = buf
  <2>1. n \in 0 .. Len(buf)
    BY <1>2
  <2> QED BY <1>1, <2>1, PrefixSuffix
<1>5. got' \in Seq(Bytes) /\ Len(got') = Len(got) + n
  BY <1>1, <1>3, <1>4, Concat
<1>6. got' \o buf' = got \o buf
  <2>1. (got \o Prefix(buf, n)) \o Suffix(buf, n)
          = got \o (Prefix(buf, n) \o Suffix(buf, n))
    BY <1>1, <1>4, Associative
  <2> QED BY <1>3, <1>4, <2>1
<1> QED BY <1>1, <1>2, <1>3, <1>4, <1>5, <1>6 DEF IInv, OrderInv

LEMMA ReadFrameStep ==
  ASSUME IInv, NEW m \in 1 .. MaxOut, NEW k \in 1 .. Window, ReadFrame(m, k)
  PROVE  /\ got' \in Seq(Bytes) /\ buf' \in Seq(Bytes) /\ recv' \in Seq(Bytes)
         /\ Len(got') > Len(got) /\ Len(buf') < Window
         /\ Len(recv') = Len(recv) - k
         /\ sent = (got' \o buf') \o recv'
<1> DEFINE data == Prefix(recv, k)
           rest == Suffix(recv, k)
           n == Lesser(m, k)
<1>1. /\ got \in Seq(Bytes) /\ recv \in Seq(Bytes) /\ buf = <<>>
      /\ Len(got) \in Nat /\ Len(recv) \in Nat /\ k \in 0 .. Len(recv)
      /\ Window \in Nat
  BY H2ReaderAssumption, LenProperties DEF IInv, TypeOK, ReadFrame
<1>2. n \in 1 .. k
  BY LesserType, H2ReaderAssumption
<1>3. got' = got \o Prefix(data, n) /\ buf' = Suffix(data, n) /\ recv' = rest
  BY DEF ReadFrame
<1>4. /\ data \in Seq(Bytes) /\ Len(data) = k
      /\ rest \in Seq(Bytes) /\ Len(rest) = Len(recv) - k
      /\ data \o rest = recv
  BY <1>1, PrefixSuffix
<1> HIDE DEF data, rest, n
<1>5. /\ Prefix(data, n) \in Seq(Bytes) /\ Len(Prefix(data, n)) = n
      /\ Suffix(data, n) \in Seq(Bytes) /\ Len(Suffix(data, n)) = k - n
      /\ Prefix(data, n) \o Suffix(data, n) = data
  <2>1. n \in 0 .. Len(data)
    BY <1>2, <1>4
  <2> QED BY <1>4, <2>1, PrefixSuffix
<1>6. got' \in Seq(Bytes) /\ Len(got') = Len(got) + n
  BY <1>1, <1>3, <1>5, Concat
<1>7. got' \o buf' = got \o data
  <2>1. (got \o Prefix(data, n)) \o Suffix(data, n)
          = got \o (Prefix(data, n) \o Suffix(data, n))
    BY <1>1, <1>5, Associative
  <2> QED BY <1>3, <1>5, <2>1
<1>8. (got \o data) \o rest = got \o recv
  BY <1>1, <1>4, Associative
<1>9. sent = got \o recv
  BY <1>1, ConcatEmptySeq DEF IInv, OrderInv
<1> QED BY <1>1, <1>2, <1>3, <1>4, <1>5, <1>6, <1>7, <1>8, <1>9

-----------------------------------------------------------------------------
(* The invariants.                                                         *)

LEMMA IInvStep ==
  ASSUME IInv, [Next]_vars
  PROVE  IInv'
<1>1. ASSUME NEW m \in 1 .. MaxOut, ReadBuffer(m) PROVE IInv'
  BY <1>1, ReadBufferStep
     DEF ReadBuffer, IInv, TypeOK, CreditConserved, SizeInv, OrderInv, peerVars
<1>2. ASSUME NEW m \in 1 .. MaxOut, NEW k \in 1 .. Window, ReadFrame(m, k)
      PROVE  IInv'
  <2>1. Len(recv) \in Nat /\ k <= Len(recv) /\ Window \in Nat
    BY <1>2, H2ReaderAssumption, LenProperties DEF ReadFrame, IInv, TypeOK
  <2>2. /\ released' = released + k
        /\ UNCHANGED <<sent, sender, empties, credit, reader>>
        /\ credit + released + Len(recv) = Window
        /\ credit \in 0 .. Window /\ released \in 0 .. Window
    BY <1>2 DEF ReadFrame, peerVars, IInv, CreditConserved, TypeOK
  <2>3. /\ got' \in Seq(Bytes) /\ buf' \in Seq(Bytes) /\ recv' \in Seq(Bytes)
        /\ Len(buf') < Window /\ Len(recv') = Len(recv) - k
        /\ sent = (got' \o buf') \o recv'
    BY <1>2, ReadFrameStep
  <2>4. released' \in 0 .. Window /\ credit' + released' + Len(recv') = Window
    <3>1. /\ released' = released + k /\ Len(recv') = Len(recv) - k
          /\ credit' = credit /\ credit + released + Len(recv) = Window
          /\ credit \in 0 .. Window /\ released \in 0 .. Window
      BY <2>2, <2>3
    <3> QED BY <2>1, <3>1
  <2> QED
    BY <2>2, <2>3, <2>4 DEF IInv, TypeOK, CreditConserved, SizeInv, OrderInv
<1>3. CASE PeerSends
  <2>1. PICK b \in Bytes : sent' = Append(sent, b) /\ recv' = Append(recv, b)
    BY <1>3 DEF PeerSends
  <2>2. /\ got \in Seq(Bytes) /\ buf \in Seq(Bytes) /\ recv \in Seq(Bytes)
        /\ sent \in Seq(Bytes) /\ <<b>> \in Seq(Bytes) /\ Len(recv) \in Nat
    BY LenProperties DEF IInv, TypeOK
  <2>3. (got \o buf) \o recv' = sent'
    <3>1. recv' = recv \o <<b>> /\ sent' = sent \o <<b>>
      BY <2>1, <2>2, AppendIsConcat
    <3>2. ((got \o buf) \o recv) \o <<b>> = (got \o buf) \o (recv \o <<b>>)
      <4>1. got \in Seq(Bytes) /\ buf \in Seq(Bytes)
        BY <2>2
      <4>2. got \o buf \in Seq(Bytes)
        BY <4>1, Concat
      <4>3. recv \in Seq(Bytes) /\ <<b>> \in Seq(Bytes)
        BY <2>2
      <4> QED BY <4>2, <4>3, Associative
    <3> QED BY <3>1, <3>2 DEF IInv, OrderInv
  <2>4. /\ sent' \in Seq(Bytes) /\ recv' \in Seq(Bytes)
        /\ Len(recv') = Len(recv) + 1
    BY <2>1, <2>2, AppendProperties
  <2>5. /\ credit' = credit - 1 /\ credit > 0 /\ credit \in 0 .. Window
        /\ Window \in Nat
        /\ UNCHANGED <<sender, empties, released, buf, got, reader>>
        /\ released \in 0 .. Window /\ credit + released + Len(recv) = Window
    BY <1>3, H2ReaderAssumption DEF PeerSends, IInv, TypeOK, CreditConserved
  <2>6. credit' \in 0 .. Window /\ credit' + released' + Len(recv') = Window
    <3>1. /\ credit' = credit - 1 /\ Len(recv') = Len(recv) + 1
          /\ released' = released /\ released \in 0 .. Window
          /\ credit + released + Len(recv) = Window
          /\ credit \in 0 .. Window /\ credit > 0
          /\ Len(recv) \in Nat /\ Window \in Nat
      BY <2>2, <2>4, <2>5
    <3> QED BY <3>1
  <2> QED
    BY <2>3, <2>4, <2>5, <2>6
       DEF IInv, TypeOK, CreditConserved, SizeInv, OrderInv
<1>4. CASE PeerEnds \/ PeerResets
  BY <1>4
     DEF PeerEnds, PeerResets, IInv, TypeOK, CreditConserved, SizeInv, OrderInv
<1>5. CASE ReadEmptyFrame \/ ReadEnd \/ ReadError
  BY <1>5
     DEF ReadEmptyFrame, ReadEnd, ReadError, peerVars, IInv, TypeOK,
         CreditConserved, SizeInv, OrderInv
<1>6. CASE WindowUpdate
  <2>1. Len(recv) \in Nat /\ Window \in Nat
    BY H2ReaderAssumption, LenProperties DEF IInv, TypeOK
  <2> QED
    BY <1>6, <2>1
       DEF WindowUpdate, peerVars, IInv, TypeOK, CreditConserved, SizeInv, OrderInv
<1>7. CASE UNCHANGED vars
  BY <1>7
     DEF vars, peerVars, IInv, TypeOK, CreditConserved, SizeInv, OrderInv
<1> QED BY <1>1, <1>2, <1>3, <1>4, <1>5, <1>6, <1>7 DEF Next, PollRead

LEMMA IInvInit == Init => IInv
<1> SUFFICES ASSUME Init PROVE IInv
  OBVIOUS
<1>1. <<>> \in Seq(Bytes) /\ Len(<<>>) = 0 /\ (<<>> \o <<>>) \o <<>> = <<>>
  BY EmptySeq, ConcatEmptySeq
<1> QED
  BY <1>1, H2ReaderAssumption
     DEF Init, IInv, TypeOK, CreditConserved, SizeInv, OrderInv

LEMMA Inductive == Spec => []IInv
BY IInvInit, IInvStep, PTL DEF Spec

(* Every variable of the reader keeps to its type (H2Reader).              *)
THEOREM TypeCorrect == Spec => []TypeOK
BY Inductive, PTL DEF IInv

(* The peer's credit, the receive queue and what was given back to h2 make *)
(* up the window (release_capacity in poll_read).                          *)
THEOREM WindowConserved == Spec => []CreditConserved
BY Inductive, PTL DEF IInv

(* The receive queue and what is left over of a frame never hold more than *)
(* two windows of bytes (poll_read).                                       *)
THEOREM BoundedMemory == Spec => []MemoryBounded
<1>1. IInv => MemoryBounded
  <2> SUFFICES ASSUME IInv PROVE MemoryBounded
    OBVIOUS
  <2>1. Len(recv) \in Nat /\ Len(buf) \in Nat
    BY LenProperties DEF IInv, TypeOK
  <2> QED
    BY <2>1, H2ReaderAssumption
       DEF IInv, TypeOK, CreditConserved, SizeInv, MemoryBounded
<1> QED BY Inductive, <1>1, PTL

-----------------------------------------------------------------------------
(* The refinement.                                                         *)

(* What the caller has is a prefix of what was sent.                       *)
LEMMA FirstIsPrefix ==
  ASSUME NEW g \in Seq(Bytes), NEW b \in Seq(Bytes), NEW r \in Seq(Bytes)
  PROVE  /\ Len(g) \in 0 .. Len((g \o b) \o r)
         /\ SubSeq((g \o b) \o r, 1, Len(g)) = g
<1>1. b \o r \in Seq(Bytes) /\ (g \o b) \o r = g \o (b \o r)
  BY Concat, Associative
<1>2. /\ Len(g \o (b \o r)) = Len(g) + Len(b \o r)
      /\ Len(g) \in Nat /\ Len(b \o r) \in Nat
  BY <1>1, Concat, LenProperties
<1>3. SubSeq(g \o (b \o r), 1, Len(g)) = g
  BY <1>1, PrefixOfConcat
<1> QED BY <1>1, <1>2, <1>3

LEMMA DeliversPrefix ==
  ASSUME IInv, IInv', sent' = sent, Len(got') > Len(got), reader = "open",
         UNCHANGED <<sender, reader>>
  PROVE  Stream!Receive
<1>1. /\ got' \in Seq(Bytes) /\ buf' \in Seq(Bytes) /\ recv' \in Seq(Bytes)
      /\ sent = (got' \o buf') \o recv' /\ got \in Seq(Bytes)
  BY DEF IInv, TypeOK, OrderInv
<1>2. Len(got') \in 0 .. Len(sent) /\ got' = SubSeq(sent, 1, Len(got'))
  BY <1>1, FirstIsPrefix
<1>3. Len(got) \in Nat
  BY <1>1, LenProperties
<1>4. Len(got') \in Len(got) + 1 .. Len(sent)
  BY <1>2, <1>3, <1>1, LenProperties
<1> QED BY <1>2, <1>4 DEF Stream!Receive

LEMMA StreamStep ==
  ASSUME IInv, IInv', ~empties, [Next]_vars
  PROVE  [Stream!Next]_<<sent, sender, got, reader>>
<1> USE DEF Stream!Next
<1>1. ASSUME NEW m \in 1 .. MaxOut, ReadBuffer(m)
      PROVE  Stream!Receive
  BY <1>1, ReadBufferStep, DeliversPrefix DEF ReadBuffer, peerVars
<1>2. ASSUME NEW m \in 1 .. MaxOut, NEW k \in 1 .. Window, ReadFrame(m, k)
      PROVE  Stream!Receive
  BY <1>2, ReadFrameStep, DeliversPrefix DEF ReadFrame, peerVars
<1>3. CASE PeerSends
  <2>1. PICK b \in Bytes : sent' = Append(sent, b)
    BY <1>3 DEF PeerSends
  <2>2. sent \in Seq(Bytes) /\ <<b>> \in Seq(Bytes) /\ sent' \in Seq(Bytes)
    BY DEF IInv, TypeOK
  <2>3. sent' = sent \o <<b>> /\ Len(sent') > Len(sent)
    BY <2>1, <2>2, AppendIsConcat, AppendProperties, LenProperties
  <2>4. SubSeq(sent', 1, Len(sent)) = sent
    BY <2>2, <2>3, PrefixOfConcat
  <2> QED BY <1>3, <2>2, <2>3, <2>4 DEF PeerSends, Stream!Send
<1>4. CASE PeerEnds \/ PeerResets
  BY <1>4 DEF PeerEnds, PeerResets, Stream!Close, IInv, TypeOK
<1>5. CASE ReadEnd
  <2>1. got = sent
    <3>1. got \in Seq(Bytes) /\ buf = <<>> /\ recv = <<>>
      BY <1>5 DEF ReadEnd, IInv, TypeOK
    <3> QED BY <3>1, ConcatEmptySeq DEF IInv, OrderInv
  <2> QED BY <1>5, <2>1 DEF ReadEnd, peerVars, Stream!ReportEnd
<1>6. CASE ReadError
  BY <1>6 DEF ReadError, peerVars, Stream!ReportError
<1>7. CASE ReadEmptyFrame
  BY <1>7 DEF ReadEmptyFrame
<1>8. CASE WindowUpdate \/ UNCHANGED vars
  BY <1>8 DEF WindowUpdate, vars, peerVars
<1> QED BY <1>1, <1>2, <1>3, <1>4, <1>5, <1>6, <1>7, <1>8 DEF Next, PollRead

(* To a peer that sends no empty DATA frames poll_read is a byte stream:   *)
(* nothing is lost, doubled or reordered, and the end is the end.          *)
THEOREM ReadsByteStream == Spec => IsByteStream
<1>1. Init => Stream!Init
  BY DEF Init, Stream!Init
<1>2. IInv /\ IInv' /\ [Next]_vars
        => [~empties => Stream!Next]_<<sent, sender, got, reader>>
  BY StreamStep
<1> QED BY Inductive, <1>1, <1>2, PTL DEF Spec, IsByteStream
-----------------------------------------------------------------------------
(* The two directions together (H2Stream): no step of the stream is more   *)
(* than a step of each direction, so that what is proved of one holds of   *)
(* the stream, whatever the other one does.                                *)

WriterProofs == INSTANCE H2WriterProofs WITH
  MaxSent <- MaxWritten, Window <- PeerWindow,
  sent <- wSent, sender <- wSender, queue <- wQueue, credit <- wCredit,
  got <- wGot, reader <- wReader

LEMMA ReaderPart ==
  ASSUME [StreamNext]_streamVars
  PROVE  [Next]_vars
BY DEF StreamNext, Reads, Writes, Resets, Next, streamVars

LEMMA WriterPart ==
  ASSUME [StreamNext]_streamVars
  PROVE  [WriterProofs!Next]_(WriterProofs!vars)
BY DEF StreamNext, Reads, Writes, Resets, streamVars, writerVars, WriterProofs!Next,
       WriterProofs!vars, Writer!PollWrite, Writer!PollClose, Writer!Connection,
       Writer!SendBytes, Writer!SendEnd, Writer!PeerGrants, Writer!Resets,
       WriterProofs!PollWrite, WriterProofs!PollClose, WriterProofs!Connection,
       WriterProofs!SendBytes, WriterProofs!SendEnd, WriterProofs!PeerGrants,
       WriterProofs!Resets

LEMMA StreamIsReader == StreamSpec => Spec
<1>1. StreamInit => Init
  BY DEF StreamInit
<1>2. [StreamNext]_streamVars => [Next]_vars
  BY ReaderPart
<1> QED BY <1>1, <1>2, PTL DEF StreamSpec, Spec

LEMMA StreamIsWriter == StreamSpec => WriterProofs!Spec
<1>1. StreamInit => WriterProofs!Init
  BY DEF StreamInit, Writer!Init, WriterProofs!Init
<1>2. [StreamNext]_streamVars => [WriterProofs!Next]_(WriterProofs!vars)
  BY WriterPart
<1> QED BY <1>1, <1>2, PTL DEF StreamSpec, WriterProofs!Spec

(* On a stream that is written and reset at the same time, poll_read still *)
(* keeps its types, the window and the bound on memory, and reads a byte   *)
(* stream (H2Stream, H2Reader).                                            *)
THEOREM StreamReads ==
  StreamSpec => /\ [](TypeOK /\ CreditConserved /\ MemoryBounded)
                /\ IsByteStream
BY StreamIsReader, TypeCorrect, WindowConserved, BoundedMemory, ReadsByteStream, PTL

(* On a stream that is read and reset at the same time, poll_write and     *)
(* poll_close are still a byte stream for the peer (H2Stream, H2Writer).   *)
THEOREM StreamWrites == StreamSpec => WriterIsByteStream
<1>1. WriterProofs!Spec => WriterProofs!IsByteStream
  BY WriterProofs!WritesByteStream
<1>2. WriterProofs!IsByteStream => Writer!IsByteStream
  <2>1. /\ WriterProofs!Stream!Init => Writer!Stream!Init
        /\ [WriterProofs!Stream!Next]_<<wSent, wSender, wGot, wReader>>
             => [Writer!Stream!Next]_<<wSent, wSender, wGot, wReader>>
    BY DEF WriterProofs!Stream!Init, WriterProofs!Stream!Next, WriterProofs!Stream!Send,
           WriterProofs!Stream!Close, WriterProofs!Stream!Receive,
           WriterProofs!Stream!ReportEnd, WriterProofs!Stream!ReportError,
           Writer!Stream!Init, Writer!Stream!Next, Writer!Stream!Send,
           Writer!Stream!Close, Writer!Stream!Receive,
           Writer!Stream!ReportEnd, Writer!Stream!ReportError
  <2> QED BY <2>1, PTL DEF WriterProofs!IsByteStream, Writer!IsByteStream,
                     WriterProofs!Stream!Spec, Writer!Stream!Spec
<1> QED BY <1>1, <1>2, StreamIsWriter, PTL DEF WriterIsByteStream
=============================================================================
