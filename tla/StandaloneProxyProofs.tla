----------------------- MODULE StandaloneProxyProofs -----------------------
(***************************************************************************)
(* Proofs about StandaloneProxy, for any bytes and buffer: what the other  *)
(* side has is a prefix of what was sent, and all of it in the direction   *)
(* that ended first.                                                       *)
(***************************************************************************)
EXTENDS StandaloneProxy, SequenceTheorems, TLAPS

Live == phase \in {"none", "connect", "copy"}

(* What was relayed is a prefix of what was sent; while the task lives the *)
(* rest is in its buffers.                                                 *)
RelayedIsPrefix(s) ==
  \E rest \in Seq(Bytes) : sent[s] = (got[s] \o out[s]) \o rest

RestIsHeld(s) ==
  Live => sent[s] = (got[s] \o out[s]) \o (buf[s] \o inbox[s])

(* An end is only seen of sockets that were dropped, the orderly one       *)
(* behind all that was written.                                            *)
EndIsLast(s) ==
  /\ end[s] # "open" => ~Live
  /\ end[s] = "eof" => out[s] = <<>>

(* The direction that ended first was written to its end.                  *)
FirstIsWritten(s) ==
  first = s =>
    /\ ~Live
    /\ end[s] # "reset" => sent[s] = got[s] \o out[s]

LineInv(s) == RelayedIsPrefix(s) /\ RestIsHeld(s) /\ EndIsLast(s) /\ FirstIsWritten(s)

IInv == TypeOK /\ \A s \in Sides : LineInv(s)

-----------------------------------------------------------------------------
(* Sequences.                                                              *)

LEMMA Concat ==
  ASSUME NEW s \in Seq(Bytes), NEW t \in Seq(Bytes)
  PROVE  s \o t \in Seq(Bytes) /\ Len(s \o t) = Len(s) + Len(t)
BY ConcatProperties

LEMMA Associative ==
  ASSUME NEW s \in Seq(Bytes), NEW t \in Seq(Bytes), NEW u \in Seq(Bytes)
  PROVE  (s \o t) \o u = s \o (t \o u)
BY ConcatAssociative

LEMMA EmptyConcat ==
  ASSUME NEW s \in Seq(Bytes)
  PROVE  s \o <<>> = s /\ <<>> \o s = s /\ <<>> \in Seq(Bytes)
BY ConcatEmptySeq, EmptySeq

(* The first element of one buffer moves to the end of another.            *)
LEMMA MoveHead ==
  ASSUME NEW s \in Seq(Bytes), NEW t \in Seq(Bytes), t # <<>>
  PROVE  /\ Append(s, Head(t)) \in Seq(Bytes) /\ Tail(t) \in Seq(Bytes)
         /\ Append(s, Head(t)) \o Tail(t) = s \o t
<1>1. /\ Head(t) \in Bytes /\ Tail(t) \in Seq(Bytes)
      /\ <<Head(t)>> \in Seq(Bytes) /\ t = <<Head(t)>> \o Tail(t)
  BY HeadTailProperties, ConcatProperties
<1>2. Append(s, Head(t)) = s \o <<Head(t)>> /\ Append(s, Head(t)) \in Seq(Bytes)
  BY <1>1, AppendIsConcat, AppendProperties
<1>3. (s \o <<Head(t)>>) \o Tail(t) = s \o (<<Head(t)>> \o Tail(t))
  BY <1>1, Associative
<1> QED BY <1>1, <1>2, <1>3

LEMMA Typing ==
  ASSUME TypeOK, NEW s \in Sides
  PROVE  /\ sent[s] \in Seq(Bytes) /\ got[s] \in Seq(Bytes)
         /\ out[s] \in Seq(Bytes) /\ buf[s] \in Seq(Bytes)
         /\ inbox[s] \in Seq(Bytes)
BY DEF TypeOK

-----------------------------------------------------------------------------
(* The sockets are dropped, for whatever reason.                           *)
LEMMA DropStep ==
  ASSUME IInv, Drop, Live, phase # "none", UNCHANGED <<sideVars, got>>,
         listener' \in {"open", "failed"},
         \/ UNCHANGED first
         \/ /\ phase = "copy" /\ first' \in Sides
            /\ inbox[first'] = <<>> /\ buf[first'] = <<>>
  PROVE  IInv'
<1>1. phase' \in {"refused", "over"} /\ ~Live'
  BY DEF Drop, Live
<1>2. TypeOK'
  BY <1>1, EmptySeq DEF IInv, TypeOK, Drop, sideVars
<1>3. ASSUME NEW s \in Sides PROVE LineInv(s)'
  <2>1. /\ sent'[s] = sent[s] /\ got'[s] = got[s]
        /\ \/ out'[s] = out[s] /\ end'[s] = end[s]
           \/ out'[s] = <<>> /\ end'[s] = "reset"
    BY DEF Drop, sideVars
  <2>2. RelayedIsPrefix(s)'
    <3>1. PICK rest \in Seq(Bytes) : sent[s] = (got[s] \o out[s]) \o rest
      BY DEF IInv, LineInv, RelayedIsPrefix
    <3>2. /\ out[s] \o rest \in Seq(Bytes)
          /\ sent[s] = (got[s] \o <<>>) \o (out[s] \o rest)
      <4>1. /\ got[s] \in Seq(Bytes) /\ out[s] \in Seq(Bytes)
            /\ out[s] \o rest \in Seq(Bytes)
        BY Typing, Concat DEF IInv
      <4>2. got[s] \o <<>> = got[s]
        BY <4>1, EmptyConcat
      <4>3. (got[s] \o out[s]) \o rest = got[s] \o (out[s] \o rest)
        <5>1. got[s] \in Seq(Bytes) /\ out[s] \in Seq(Bytes)
          BY <4>1
        <5> QED BY <5>1, Associative
      <4> QED BY <3>1, <4>1, <4>2, <4>3
    <3> QED BY <2>1, <3>1, <3>2 DEF RelayedIsPrefix
  <2>3. EndIsLast(s)'
    BY <1>1, <2>1 DEF EndIsLast, IInv, LineInv
  <2>4. FirstIsWritten(s)'
    <3>1. CASE first' = first
      BY <1>1, <2>1, <3>1 DEF IInv, LineInv, FirstIsWritten
    <3>2. CASE first' # first /\ first' = s
      <4>1. sent[s] = (got[s] \o out[s]) \o (<<>> \o <<>>)
        BY <3>2 DEF IInv, LineInv, RestIsHeld
      <4>2. sent[s] = got[s] \o out[s]
        BY <4>1, Typing, Concat, EmptyConcat, EmptySeq DEF IInv
      <4> QED BY <1>1, <2>1, <4>2 DEF FirstIsWritten
    <3> QED BY <3>1, <3>2 DEF FirstIsWritten
  <2> QED BY <1>1, <2>2, <2>3, <2>4 DEF LineInv, RestIsHeld
<1> QED BY <1>2, <1>3 DEF IInv

(* A byte moves on by one buffer.                                          *)
LEMMA ReadStep ==
  ASSUME IInv, NEW t \in Sides, Read(t)
  PROVE  IInv'
<1>1. /\ buf[t] \in Seq(Bytes) /\ inbox[t] \in Seq(Bytes) /\ inbox[t] # <<>>
      /\ buf' = [buf EXCEPT ![t] = Append(buf[t], Head(inbox[t]))]
      /\ inbox' = [inbox EXCEPT ![t] = Tail(inbox[t])]
      /\ buf \in [Sides -> Seq(Bytes)] /\ inbox \in [Sides -> Seq(Bytes)]
      /\ phase = "copy"
  BY Typing DEF Read, IInv, TypeOK
<1>2. /\ buf'[t] \in Seq(Bytes) /\ inbox'[t] \in Seq(Bytes)
      /\ buf'[t] \o inbox'[t] = buf[t] \o inbox[t]
  BY <1>1, MoveHead
<1>3. \A s \in Sides : buf'[s] \o inbox'[s] = buf[s] \o inbox[s]
  BY <1>1, <1>2
<1>4. buf' \in [Sides -> Seq(Bytes)] /\ inbox' \in [Sides -> Seq(Bytes)]
  BY <1>1, <1>2
<1>5. TypeOK'
  BY <1>1, <1>4 DEF Read, IInv, TypeOK, sideVars
<1>6. ASSUME NEW s \in Sides PROVE LineInv(s)'
  BY <1>3, <1>6
     DEF Read, sideVars, IInv, LineInv, RelayedIsPrefix, RestIsHeld, EndIsLast,
         FirstIsWritten, Live
<1> QED BY <1>5, <1>6 DEF IInv

LEMMA WriteStep ==
  ASSUME IInv, NEW t \in Sides, Write(t)
  PROVE  IInv'
<1>1. /\ out[t] \in Seq(Bytes) /\ buf[t] \in Seq(Bytes) /\ buf[t] # <<>>
      /\ out' = [out EXCEPT ![t] = Append(out[t], Head(buf[t]))]
      /\ buf' = [buf EXCEPT ![t] = Tail(buf[t])]
      /\ out \in [Sides -> Seq(Bytes)] /\ buf \in [Sides -> Seq(Bytes)]
      /\ phase = "copy" /\ Live
  BY Typing DEF Write, IInv, TypeOK, Live
<1>2. /\ out'[t] \in Seq(Bytes) /\ buf'[t] \in Seq(Bytes)
      /\ out'[t] \o buf'[t] = out[t] \o buf[t]
  BY <1>1, MoveHead
<1>3. /\ out' \in [Sides -> Seq(Bytes)] /\ buf' \in [Sides -> Seq(Bytes)]
      /\ \A s \in Sides : out'[s] \o buf'[s] = out[s] \o buf[s]
  BY <1>1, <1>2
<1>4. TypeOK'
  BY <1>1, <1>3 DEF Write, IInv, TypeOK, sideVars
<1>5. ASSUME NEW s \in Sides PROVE LineInv(s)'
  <2>1. /\ got[s] \in Seq(Bytes) /\ out[s] \in Seq(Bytes) /\ buf[s] \in Seq(Bytes)
        /\ inbox[s] \in Seq(Bytes)
        /\ out'[s] \in Seq(Bytes) /\ buf'[s] \in Seq(Bytes)
        /\ out'[s] \o buf'[s] = out[s] \o buf[s]
    BY <1>3, Typing DEF IInv
  <2>2. \A o, b \in Seq(Bytes) :
          (got[s] \o o) \o (b \o inbox[s]) = (got[s] \o (o \o b)) \o inbox[s]
    <3> SUFFICES ASSUME NEW o \in Seq(Bytes), NEW b \in Seq(Bytes)
                 PROVE  (got[s] \o o) \o (b \o inbox[s])
                          = (got[s] \o (o \o b)) \o inbox[s]
      OBVIOUS
    <3>1. got[s] \o o \in Seq(Bytes)
      BY <2>1, Concat
    <3>2. ((got[s] \o o) \o b) \o inbox[s] = (got[s] \o o) \o (b \o inbox[s])
      BY <2>1, <3>1, Associative
    <3>3. (got[s] \o o) \o b = got[s] \o (o \o b)
      <4>1. got[s] \in Seq(Bytes)
        BY <2>1
      <4> QED BY <4>1, Associative
    <3> QED BY <3>2, <3>3
  <2>3. sent[s] = (got[s] \o out'[s]) \o (buf'[s] \o inbox[s])
    <3>1. sent[s] = (got[s] \o out[s]) \o (buf[s] \o inbox[s])
      BY <1>1 DEF IInv, LineInv, RestIsHeld
    <3>2. (got[s] \o out[s]) \o (buf[s] \o inbox[s])
            = (got[s] \o (out[s] \o buf[s])) \o inbox[s]
      BY <2>1, <2>2
    <3>3. (got[s] \o out'[s]) \o (buf'[s] \o inbox[s])
            = (got[s] \o (out'[s] \o buf'[s])) \o inbox[s]
      BY <2>1, <2>2
    <3> QED BY <2>1, <3>1, <3>2, <3>3
  <2>4. buf'[s] \o inbox[s] \in Seq(Bytes)
    BY <2>1, Concat
  <2>5. UNCHANGED <<phase, first, sent, got, end, inbox>> /\ Live'
    BY <1>1 DEF Write, sideVars, Live
  <2>6. end[s] = "open" /\ first # s
    BY <1>1 DEF IInv, LineInv, EndIsLast, FirstIsWritten
  <2>7. RelayedIsPrefix(s)' /\ RestIsHeld(s)'
    BY <2>3, <2>4, <2>5 DEF RelayedIsPrefix, RestIsHeld
  <2>8. EndIsLast(s)' /\ FirstIsWritten(s)'
    BY <2>5, <2>6 DEF EndIsLast, FirstIsWritten
  <2> QED BY <2>7, <2>8 DEF LineInv
<1> QED BY <1>4, <1>5 DEF IInv

LEMMA DeliverStep ==
  ASSUME IInv, NEW t \in Sides, Deliver(t)
  PROVE  IInv'
<1>1. /\ got[t] \in Seq(Bytes) /\ out[t] \in Seq(Bytes) /\ out[t] # <<>>
      /\ got' = [got EXCEPT ![t] = Append(got[t], Head(out[t]))]
      /\ out' = [out EXCEPT ![t] = Tail(out[t])]
      /\ got \in [Sides -> Seq(Bytes)] /\ out \in [Sides -> Seq(Bytes)]
  BY Typing DEF Deliver, IInv, TypeOK
<1>2. /\ got'[t] \in Seq(Bytes) /\ out'[t] \in Seq(Bytes)
      /\ got'[t] \o out'[t] = got[t] \o out[t]
  BY <1>1, MoveHead
<1>3. /\ got' \in [Sides -> Seq(Bytes)] /\ out' \in [Sides -> Seq(Bytes)]
      /\ \A s \in Sides : got'[s] \o out'[s] = got[s] \o out[s]
      /\ \A s \in Sides : out[s] = <<>> => out'[s] = <<>>
  BY <1>1, <1>2
<1>4. TypeOK'
  BY <1>1, <1>3 DEF Deliver, IInv, TypeOK, sideVars
<1>5. ASSUME NEW s \in Sides PROVE LineInv(s)'
  <2>1. UNCHANGED <<phase, first, sent, end, inbox, buf>>
    BY DEF Deliver, sideVars
  <2> QED
    BY <1>3, <2>1
       DEF IInv, LineInv, RelayedIsPrefix, RestIsHeld, EndIsLast,
           FirstIsWritten, Live
<1> QED BY <1>4, <1>5 DEF IInv

LEMMA SendStep ==
  ASSUME IInv, NEW t \in Sides, Send(t)
  PROVE  IInv'
<1>1. PICK b \in Bytes :
        /\ sent' = [sent EXCEPT ![t] = Append(sent[t], b)]
        /\ inbox' = [inbox EXCEPT ![t] = Append(inbox[t], b)]
  BY DEF Send
<1>2. /\ sent \in [Sides -> Seq(Bytes)] /\ inbox \in [Sides -> Seq(Bytes)]
      /\ phase \in {"connect", "copy"} /\ Live
      /\ UNCHANGED <<listener, phase, first, fin, buf, out, got, end>>
  BY DEF Send, IInv, TypeOK, Live
<1>3. \A s \in Seq(Bytes) :
        /\ Append(s, b) = s \o <<b>> /\ Append(s, b) \in Seq(Bytes)
        /\ <<b>> \in Seq(Bytes)
  <2> SUFFICES ASSUME NEW s \in Seq(Bytes)
               PROVE  /\ Append(s, b) = s \o <<b>> /\ Append(s, b) \in Seq(Bytes)
                      /\ <<b>> \in Seq(Bytes)
    OBVIOUS
  <2>1. Append(s, b) = s \o <<b>> /\ Append(s, b) \in Seq(Bytes)
    BY AppendIsConcat, AppendProperties
  <2>2. <<b>> \in Seq(Bytes)
    OBVIOUS
  <2> QED BY <2>1, <2>2
<1>4. sent' \in [Sides -> Seq(Bytes)] /\ inbox' \in [Sides -> Seq(Bytes)]
  BY <1>1, <1>2, <1>3
<1>5. TypeOK'
  BY <1>2, <1>4 DEF IInv, TypeOK
<1>6. ASSUME NEW s \in Sides PROVE LineInv(s)'
  <2>1. /\ end[s] = "open" /\ first # s /\ Live'
    BY <1>2 DEF IInv, LineInv, EndIsLast, FirstIsWritten, Live
  <2>2. /\ got[s] \in Seq(Bytes) /\ out[s] \in Seq(Bytes)
        /\ buf[s] \in Seq(Bytes) /\ inbox[s] \in Seq(Bytes)
        /\ inbox'[s] \in Seq(Bytes)
        /\ got[s] \o out[s] \in Seq(Bytes) /\ buf[s] \o inbox[s] \in Seq(Bytes)
        /\ buf[s] \o inbox'[s] \in Seq(Bytes)
        /\ sent[s] = (got[s] \o out[s]) \o (buf[s] \o inbox[s])
    BY <1>2, <1>4, Typing, Concat DEF IInv, LineInv, RestIsHeld
  <2>3. sent'[s] = (got[s] \o out[s]) \o (buf[s] \o inbox'[s])
    <3>1. CASE s = t
      <4>1. sent'[s] = sent[s] \o <<b>> /\ inbox'[s] = inbox[s] \o <<b>>
        BY <1>1, <1>2, <1>3, <3>1
      <4>2. <<b>> \in Seq(Bytes)
        BY <1>3, EmptySeq
      <4>3. ((got[s] \o out[s]) \o (buf[s] \o inbox[s])) \o <<b>>
              = (got[s] \o out[s]) \o ((buf[s] \o inbox[s]) \o <<b>>)
        <5>1. /\ got[s] \o out[s] \in Seq(Bytes)
              /\ buf[s] \o inbox[s] \in Seq(Bytes)
          BY <2>2
        <5> QED BY <4>2, <5>1, Associative
      <4>4. (buf[s] \o inbox[s]) \o <<b>> = buf[s] \o (inbox[s] \o <<b>>)
        <5>1. buf[s] \in Seq(Bytes) /\ inbox[s] \in Seq(Bytes)
          BY <2>2
        <5> QED BY <4>2, <5>1, Associative
      <4> QED BY <2>2, <4>1, <4>3, <4>4
    <3>2. CASE s # t
      BY <1>1, <1>2, <2>2, <3>2
    <3> QED BY <3>1, <3>2
  <2>4. RelayedIsPrefix(s)' /\ RestIsHeld(s)'
    BY <1>2, <2>2, <2>3 DEF RelayedIsPrefix, RestIsHeld
  <2>5. EndIsLast(s)' /\ FirstIsWritten(s)'
    BY <1>2, <2>1 DEF EndIsLast, FirstIsWritten
  <2> QED BY <2>4, <2>5 DEF LineInv
<1> QED BY <1>5, <1>6 DEF IInv

LEMMA SendLateStep ==
  ASSUME IInv, NEW t \in Sides, SendLate(t)
  PROVE  IInv'
<1>1. /\ Other(t) \in Sides /\ ~Live
      /\ UNCHANGED <<listener, phase, first, sent, fin, inbox, buf, got>>
      /\ out' = [out EXCEPT ![Other(t)] = <<>>]
      /\ end' = [end EXCEPT ![Other(t)] = "reset"]
  BY DEF SendLate, sideVars, Other, Sides, Live
<1>2. TypeOK'
  BY <1>1, EmptySeq DEF IInv, TypeOK
<1>3. ASSUME NEW s \in Sides PROVE LineInv(s)'
  <2>1. CASE s # Other(t)
    <3>1. out'[s] = out[s] /\ end'[s] = end[s]
      BY <1>1, <2>1 DEF IInv, TypeOK
    <3> QED
      BY <1>1, <3>1
         DEF IInv, LineInv, RelayedIsPrefix, RestIsHeld, EndIsLast,
             FirstIsWritten, Live
  <2>2. CASE s = Other(t)
    <3>1. out'[s] = <<>> /\ end'[s] = "reset" /\ ~Live'
      BY <1>1, <2>2 DEF IInv, TypeOK, Live
    <3>2. PICK rest \in Seq(Bytes) : sent[s] = (got[s] \o out[s]) \o rest
      BY DEF IInv, LineInv, RelayedIsPrefix
    <3>3. /\ got[s] \in Seq(Bytes) /\ out[s] \in Seq(Bytes)
          /\ out[s] \o rest \in Seq(Bytes)
      BY Typing, Concat DEF IInv
    <3>4. /\ (got[s] \o out[s]) \o rest = got[s] \o (out[s] \o rest)
          /\ got[s] \o <<>> = got[s]
      <4>1. got[s] \in Seq(Bytes) /\ out[s] \in Seq(Bytes)
        BY <3>3
      <4> QED BY <4>1, Associative, EmptyConcat
    <3>5. sent[s] = (got[s] \o <<>>) \o (out[s] \o rest)
      BY <3>2, <3>4
    <3>6. RelayedIsPrefix(s)'
      BY <1>1, <3>1, <3>3, <3>5 DEF RelayedIsPrefix
    <3> QED
      BY <3>1, <3>6 DEF LineInv, RestIsHeld, EndIsLast, FirstIsWritten
  <2> QED BY <2>1, <2>2
<1> QED BY <1>2, <1>3 DEF IInv

(* The steps that leave what was relayed as it is.                         *)
LEMMA OtherSteps ==
  ASSUME IInv, UNCHANGED <<first, sent, inbox, buf, out, got>>,
         Live' <=> Live, TypeOK',
         \A s \in Sides :
           \/ end'[s] = end[s]
           \/ ~Live /\ out[s] = <<>> /\ end[s] = "open" /\ end'[s] = "eof"
  PROVE  IInv'
BY DEF IInv, LineInv, RelayedIsPrefix, RestIsHeld, EndIsLast, FirstIsWritten, Live

LEMMA IInvStep ==
  ASSUME IInv, [Next]_vars
  PROVE  IInv'
<1>1. CASE Accept
  <2>1. TypeOK' /\ (Live' <=> Live)
    BY <1>1 DEF Accept, sideVars, proxyVars, IInv, TypeOK, Live
  <2> QED BY <1>1, <2>1, OtherSteps DEF Accept, sideVars, proxyVars
<1>2. CASE AcceptFails
  <2>1. CASE phase \in {"connect", "copy"}
    BY <1>2, <2>1, DropStep DEF AcceptFails, Live
  <2>2. CASE phase \notin {"connect", "copy"}
    <3>1. TypeOK' /\ (Live' <=> Live)
      BY <1>2, <2>2 DEF AcceptFails, sideVars, proxyVars, IInv, TypeOK, Live
    <3> QED
      BY <1>2, <2>2, <3>1, OtherSteps DEF AcceptFails, sideVars, proxyVars
  <2> QED BY <2>1, <2>2
<1>3. CASE Connect
  <2>1. CASE Drop
    BY <1>3, <2>1, DropStep DEF Connect, Live, IInv, TypeOK
  <2>2. CASE phase' = "copy" /\ UNCHANGED <<proxyVars, end>>
    <3>1. TypeOK' /\ (Live' <=> Live)
      BY <1>3, <2>2 DEF Connect, sideVars, proxyVars, IInv, TypeOK, Live
    <3> QED
      BY <1>3, <2>2, <3>1, OtherSteps DEF Connect, sideVars, proxyVars
  <2> QED BY <1>3, <2>1, <2>2 DEF Connect
<1>4. ASSUME NEW t \in Sides, CopyEnds(t) PROVE IInv'
  BY <1>4, DropStep DEF CopyEnds, Live, IInv, TypeOK
<1>5. ASSUME NEW t \in Sides, CopyFails(t) PROVE IInv'
  BY <1>5, DropStep DEF CopyFails, Live, IInv, TypeOK
<1>6. ASSUME NEW t \in Sides, Finish(t) PROVE IInv'
  <2>1. TypeOK' /\ (Live' <=> Live)
    BY <1>6 DEF Finish, proxyVars, IInv, TypeOK, Live
  <2> QED BY <1>6, <2>1, OtherSteps DEF Finish, proxyVars
<1>7. ASSUME NEW t \in Sides, DeliverEnd(t) PROVE IInv'
  <2>1. TypeOK' /\ (Live' <=> Live)
    BY <1>7 DEF DeliverEnd, sideVars, proxyVars, IInv, TypeOK, Live
  <2>2. \A s \in Sides :
          \/ end'[s] = end[s]
          \/ ~Live /\ out[s] = <<>> /\ end[s] = "open" /\ end'[s] = "eof"
    BY <1>7 DEF DeliverEnd, IInv, TypeOK, Live
  <2> QED BY <1>7, <2>1, <2>2, OtherSteps DEF DeliverEnd, sideVars, proxyVars
<1>8. CASE UNCHANGED vars
  <2>1. TypeOK' /\ (Live' <=> Live)
    BY <1>8 DEF vars, sideVars, proxyVars, IInv, TypeOK, Live
  <2> QED BY <1>8, <2>1, OtherSteps DEF vars, sideVars, proxyVars
<1> QED
  BY <1>1, <1>2, <1>3, <1>4, <1>5, <1>6, <1>7, <1>8, ReadStep, WriteStep,
     DeliverStep, SendStep, SendLateStep
     DEF Next, Copy, Network

LEMMA IInvInit == Init => IInv
<1> SUFFICES ASSUME Init PROVE IInv
  OBVIOUS
<1>1. <<>> \in Seq(Bytes) /\ (<<>> \o <<>>) \o <<>> = <<>>
      /\ (<<>> \o <<>>) \o (<<>> \o <<>>) = <<>>
  BY EmptySeq, EmptyConcat
<1>2. TypeOK
  BY <1>1 DEF Init, TypeOK
<1>3. ASSUME NEW s \in Sides PROVE LineInv(s)
  BY <1>1
     DEF Init, LineInv, RelayedIsPrefix, RestIsHeld, EndIsLast, FirstIsWritten,
         Sides, Live
<1> QED BY <1>2, <1>3 DEF IInv

LEMMA Inductive == Spec => []IInv
BY IInvInit, IInvStep, PTL DEF Spec

-----------------------------------------------------------------------------
(* Every variable of the proxy keeps to its type, and a task that is over  *)
(* holds nothing (StandaloneProxy).                                        *)
THEOREM TypeCorrect == Spec => []TypeOK
BY Inductive, PTL DEF IInv

LEMMA PrefixOfConcat ==
  ASSUME NEW s \in Seq(Bytes), NEW t \in Seq(Bytes)
  PROVE  Len(s) <= Len(s \o t) /\ SubSeq(s \o t, 1, Len(s)) = s
BY LenProperties, ConcatProperties, SubSeqProperties

(* What a side was sent is a prefix of what the other one sent, in all     *)
(* interleavings of the two copies, whatever ends them (proxy_conn).       *)
THEOREM RelaysInOrder == Spec => []InOrder
<1>1. IInv => InOrder
  <2> SUFFICES ASSUME IInv, NEW s \in Sides
               PROVE  /\ Len(got[s]) <= Len(sent[s])
                      /\ got[s] = SubSeq(sent[s], 1, Len(got[s]))
    BY DEF InOrder
  <2>1. PICK rest \in Seq(Bytes) : sent[s] = (got[s] \o out[s]) \o rest
    BY DEF IInv, LineInv, RelayedIsPrefix
  <2>2. got[s] \in Seq(Bytes) /\ out[s] \in Seq(Bytes)
    BY Typing DEF IInv
  <2>3. /\ out[s] \o rest \in Seq(Bytes)
        /\ (got[s] \o out[s]) \o rest = got[s] \o (out[s] \o rest)
    BY <2>2, Concat, Associative
  <2>4. /\ Len(got[s]) <= Len(got[s] \o (out[s] \o rest))
        /\ SubSeq(got[s] \o (out[s] \o rest), 1, Len(got[s])) = got[s]
    BY <2>2, <2>3, PrefixOfConcat
  <2> QED BY <2>1, <2>3, <2>4
<1> QED BY Inductive, <1>1, PTL

(* The orderly end of the direction that ended first is seen behind all of *)
(* its bytes (the select! of proxy_conn).                                  *)
THEOREM FirstIsWhole == Spec => []FirstEndIsWhole
<1>1. IInv => FirstEndIsWhole
  <2> SUFFICES ASSUME IInv, NEW s \in Sides, first = s, end[s] = "eof"
               PROVE  got[s] = sent[s]
    BY DEF FirstEndIsWhole
  <2>1. sent[s] = got[s] \o out[s] /\ out[s] = <<>>
    BY DEF IInv, LineInv, FirstIsWritten, EndIsLast
  <2>2. got[s] \in Seq(Bytes)
    BY Typing DEF IInv
  <2> QED BY <2>1, <2>2, EmptyConcat
<1> QED BY Inductive, <1>1, PTL
=============================================================================
