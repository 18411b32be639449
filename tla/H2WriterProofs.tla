--------------------------- MODULE H2WriterProofs ---------------------------
(***************************************************************************)
(* Proofs about H2Writer, for any bytes and windows: what poll_write takes *)
(* reaches the peer as a byte stream.                                      *)
(***************************************************************************)
EXTENDS H2Writer, SequenceTheorems, TLAPS

Typed ==
  /\ sent \in Seq(Bytes) /\ queue \in Seq(Bytes) /\ got \in Seq(Bytes)
  /\ sender \in {"open", "ended", "reset"}
  /\ reader \in {"open", "eof"}

(* What has not reached the peer waits in h2's send buffer, unless the     *)
(* stream was reset; then the buffer is empty.                             *)
QueueInv ==
  IF sender = "reset" THEN queue = <<>> ELSE sent = got \o queue

(* The end is behind the bytes.                                            *)
EndInv == reader = "eof" => sender # "open" /\ queue = <<>>

IInv == Typed /\ QueueInv /\ EndInv

-----------------------------------------------------------------------------
LEMMA PrefixOfConcat ==
  ASSUME NEW s \in Seq(Bytes), NEW t \in Seq(Bytes)
  PROVE  /\ s \o t \in Seq(Bytes) /\ Len(s \o t) = Len(s) + Len(t)
         /\ SubSeq(s \o t, 1, Len(s)) = s
BY LenProperties, ConcatProperties, SubSeqProperties

LEMMA Associative ==
  ASSUME NEW s \in Seq(Bytes), NEW t \in Seq(Bytes), NEW u \in Seq(Bytes)
  PROVE  (s \o t) \o u = s \o (t \o u)
BY ConcatAssociative

LEMMA PollWriteStep ==
  ASSUME IInv, PollWrite
  PROVE  IInv' /\ Stream!Send
<1>0. PICK n \in 1 .. MaxWrite :
        \E bytes \in [1 .. n -> Bytes] :
          sent' = sent \o bytes /\ queue' = queue \o bytes
  BY DEF PollWrite
<1>1. PICK bytes \in [1 .. n -> Bytes] :
        sent' = sent \o bytes /\ queue' = queue \o bytes
  BY <1>0
<1>2. sent \in Seq(Bytes) /\ queue \in Seq(Bytes) /\ got \in Seq(Bytes)
  BY DEF IInv, Typed
<1>3. bytes \in Seq(Bytes) /\ Len(bytes) = n /\ n > 0
  OBVIOUS
<1>4. /\ sent' \in Seq(Bytes) /\ Len(sent') = Len(sent) + Len(bytes)
      /\ SubSeq(sent', 1, Len(sent)) = sent /\ queue' \in Seq(Bytes)
  BY <1>1, <1>2, <1>3, PrefixOfConcat
<1>5. Len(sent') > Len(sent)
  BY <1>2, <1>3, <1>4, LenProperties
<1>6. /\ sender = "open" /\ reader = "open"
      /\ UNCHANGED <<sender, got, reader>> /\ sent = got \o queue
  BY DEF PollWrite, IInv, Typed, QueueInv, EndInv
<1>7. (got \o queue) \o bytes = got \o (queue \o bytes)
  BY <1>2, <1>3, Associative
<1>8. IInv'
  BY <1>1, <1>2, <1>4, <1>6, <1>7 DEF IInv, Typed, QueueInv, EndInv
<1> QED BY <1>4, <1>5, <1>6, <1>8 DEF Stream!Send

LEMMA SendBytesStep ==
  ASSUME IInv, SendBytes
  PROVE  IInv' /\ Stream!Receive
<1>1. /\ queue # <<>> /\ queue \in Seq(Bytes) /\ got \in Seq(Bytes)
      /\ got' = Append(got, Head(queue)) /\ queue' = Tail(queue)
  BY DEF SendBytes, IInv, Typed
<1>2. /\ sender # "reset" /\ reader = "open" /\ sent = got \o queue
      /\ UNCHANGED <<sent, sender, reader>>
  BY <1>1 DEF SendBytes, IInv, Typed, QueueInv, EndInv
<1>3. /\ <<Head(queue)>> \in Seq(Bytes) /\ Head(queue) \in Bytes
      /\ Tail(queue) \in Seq(Bytes) /\ queue = <<Head(queue)>> \o Tail(queue)
  BY <1>1, HeadTailProperties, ConcatProperties
<1>4. /\ Append(got, Head(queue)) = got \o <<Head(queue)>>
      /\ Append(got, Head(queue)) \in Seq(Bytes)
      /\ Len(Append(got, Head(queue))) = Len(got) + 1
  BY <1>1, <1>3, AppendIsConcat, AppendProperties
<1>5. (got \o <<Head(queue)>>) \o Tail(queue) = got \o (<<Head(queue)>> \o Tail(queue))
  BY <1>1, <1>3, Associative
<1>6. sent = got' \o queue' /\ got' \in Seq(Bytes) /\ queue' \in Seq(Bytes)
  BY <1>1, <1>2, <1>3, <1>4, <1>5
<1>7. IInv'
  BY <1>2, <1>6 DEF IInv, Typed, QueueInv, EndInv
<1>8. /\ Len(sent) = Len(got') + Len(queue')
      /\ SubSeq(sent, 1, Len(got')) = got'
  BY <1>6, PrefixOfConcat
<1>9. /\ Len(got) \in Nat /\ Len(queue') \in Nat
      /\ Len(got') = Len(got) + 1
  BY <1>1, <1>4, <1>6, LenProperties
<1>10. Len(got') \in Len(got) + 1 .. Len(sent)
  BY <1>8, <1>9
<1> QED BY <1>2, <1>7, <1>8, <1>10 DEF Stream!Receive

LEMMA WriterStep ==
  ASSUME IInv, [Next]_vars
  PROVE  IInv' /\ [Stream!Next]_<<sent, sender, got, reader>>
<1> USE DEF Stream!Next
<1>1. CASE PollWrite
  BY <1>1, PollWriteStep
<1>2. CASE SendBytes
  BY <1>2, SendBytesStep
<1>3. CASE PollClose
  BY <1>3 DEF PollClose, Stream!Close, IInv, Typed, QueueInv, EndInv
<1>4. CASE Resets
  <2>1. IInv'
    BY <1>4, EmptySeq DEF Resets, IInv, Typed, QueueInv, EndInv
  <2>2. Stream!Close
    BY <1>4 DEF Resets, Stream!Close, IInv, Typed
  <2> QED BY <2>1, <2>2
<1>5. CASE SendEnd
  <2>1. got = sent
    <3>1. got \in Seq(Bytes) /\ sent = got \o <<>>
      BY <1>5 DEF SendEnd, IInv, Typed, QueueInv
    <3> QED BY <3>1, ConcatEmptySeq
  <2> QED
    BY <1>5, <2>1 DEF SendEnd, Stream!ReportEnd, IInv, Typed, QueueInv, EndInv
<1>6. CASE PeerGrants \/ UNCHANGED vars
  BY <1>6 DEF PeerGrants, vars, IInv, Typed, QueueInv, EndInv
<1> QED
  BY <1>1, <1>2, <1>3, <1>4, <1>5, <1>6 DEF Next, Connection

(* What poll_write takes reaches the peer in order and before the end that *)
(* poll_close queues, whatever the windows are (H2Writer).                 *)
THEOREM WritesByteStream == Spec => IsByteStream
<1>1. Init => IInv
  BY EmptySeq, ConcatEmptySeq DEF Init, IInv, Typed, QueueInv, EndInv
<1>2. Init => Stream!Init
  BY DEF Init, Stream!Init
<1>3. IInv /\ [Next]_vars
        => IInv' /\ [Stream!Next]_<<sent, sender, got, reader>>
  BY WriterStep
<1> QED BY <1>1, <1>2, <1>3, PTL DEF Spec, IsByteStream, Stream!Spec
=============================================================================
