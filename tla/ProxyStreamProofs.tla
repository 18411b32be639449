------------------------- MODULE ProxyStreamProofs -------------------------
(***************************************************************************)
(* Proofs about ProxyStream, for any requests, services and answers: type  *)
(* correctness and the safety invariants TLC checks, from one inductive    *)
(* invariant, IInv.                                                        *)
(***************************************************************************)
EXTENDS ProxyStream, SequenceTheorems, FiniteSetTheorems, TLAPS

(* What was drained and what was read are prefixes of what was sent.       *)
PrefixInv ==
  /\ \A i \in 1 .. Len(body) : body[i] = req.body[i]
  /\ \A i \in 1 .. Len(raw) : raw[i] = Wire(resp)[i]

(* A request that has ended is there as a whole, and so is one that was    *)
(* dispatched.                                                             *)
EndInv ==
  /\ stream = "ended" => arrived = Len(req.body)
  /\ pc = "drain" => rule # NoRule
  /\ pc \in {"connect", "head", "body", "read"} \/ asked # {} =>
       /\ body = req.body
       /\ rule # NoRule
       /\ Rewritable(rule)

(* The origin has been asked once the task reads, and there is a           *)
(* connection while the task writes or reads.                              *)
AskInv ==
  /\ pc \in {"resolve", "drain", "connect", "head"} => asked = {}
  /\ pc \in {"resolve", "drain", "connect"} => origin = "none"
  /\ pc \in {"body", "read"} => asked # {}

IInv ==
  /\ TypeOK /\ PrefixInv /\ EndInv /\ AskInv
  /\ RequestWhole /\ AnswerIsOrigins /\ OriginFailuresAnswered

-----------------------------------------------------------------------------
(* The answers.                                                            *)

LEMMA WireIsSeq == ASSUME NEW r \in Responses PROVE Wire(r) \in Seq(WireUnits)
<1> DEFINE n == 2 * Len(r.body)
           chunk(i) == IF i % 2 = 1 THEN "size" ELSE r.body[i \div 2]
<1>1. r.body \in Seq(Units) /\ Len(r.body) \in Nat /\ n \in Nat
  BY ProxyAssumption, LenProperties
<1>2. \A i \in 1 .. n : chunk(i) \in WireUnits
  <2> SUFFICES ASSUME NEW i \in 1 .. n, i % 2 # 1 PROVE r.body[i \div 2] \in Units
    BY DEF WireUnits
  <2>1. i \div 2 \in 1 .. Len(r.body)
    BY <1>1
  <2> QED BY <1>1, <2>1, ElementOfSeq
<1>3. [i \in 1 .. n |-> chunk(i)] \in Seq(WireUnits)
  <2> HIDE DEF chunk, n
  <2> QED BY <1>1, <1>2, IsASeq
<1>4. <<"last">> \in Seq(WireUnits) /\ <<"status line", "headers">> \in Seq(WireUnits)
  BY DEF WireUnits
<1>5. r.body \in Seq(WireUnits)
  BY <1>1, SeqMonotonic DEF WireUnits
<1>6. Payload(r) \in Seq(WireUnits)
  BY <1>3, <1>4, <1>5, ConcatProperties DEF Payload
<1> QED BY <1>4, <1>6, ConcatProperties DEF Wire

LEMMA NoLines == FitsOneHeader(<<>>)
<1>1. Lines(<<>>) = {}
  BY DEF Lines
<1> QED BY <1>1, FS_EmptySet DEF FitsOneHeader

(* What Respond does to the three variables it touches.                    *)
LEMMA RespondGateway ==
  ASSUME Respond(BadGateway)
  PROVE  \/ stream = "cut" /\ pc' = "failed" /\ answer' = answer
         \/ pc' = "answered" /\ answer' = {BadGateway}
<1>1. BadGateway.fields = <<>>
  BY DEF BadGateway, Bare, Answer
<1>2. Answer(BadGateway.code, Serialized(BadGateway.fields),
             FirstOnly(BadGateway.lengths), BadGateway.body) = BadGateway
  <2>1. Serialized(<<>>) = <<>>
    BY DEF Serialized
  <2> QED BY <2>1 DEF BadGateway, Bare, Answer, FirstOnly
<1> QED BY <1>1, <1>2, NoLines DEF Respond, Fail

LEMMA RespondNotFound ==
  ASSUME Respond(NotFound)
  PROVE  \/ stream = "cut" /\ pc' = "failed" /\ answer' = answer
         \/ pc' = "answered" /\ answer' = {NotFound}
<1>1. NotFound.fields = <<>>
  BY DEF NotFound, Bare, Answer
<1>2. Answer(NotFound.code, Serialized(NotFound.fields),
             FirstOnly(NotFound.lengths), NotFound.body) = NotFound
  <2>1. Serialized(<<>>) = <<>>
    BY DEF Serialized
  <2> QED BY <2>1 DEF NotFound, Bare, Answer, FirstOnly
<1> QED BY <1>1, <1>2, NoLines DEF Respond, Fail

(* The task goes on to the origin only by way of a service that is a URL.  *)
LEMMA AfterDrain ==
  ASSUME IF Rewritable(rule) THEN Dispatch ELSE Fail
  PROVE  \/ pc' = "connect" /\ Rewritable(rule)
         \/ pc' = "failed" /\ ~Rewritable(rule)
BY DEF Dispatch, Rewritable, Fail

LEMMA AfterDrainAnswer ==
  ASSUME IF Rewritable(rule) THEN Dispatch ELSE Fail
  PROVE  answer' = answer
BY DEF Dispatch, Rewritable, Fail

(* No action of the task changes more of pc and answer than this.          *)
LEMMA RespondType ==
  ASSUME NEW a, Respond(a), answer = {}
  PROVE  /\ pc' \in {"answered", "failed"}
         /\ answer' # {} <=> pc' = "answered"
BY DEF Respond, Fail

-----------------------------------------------------------------------------
(* Type correctness.                                                       *)

LEMMA TypeStep ==
  ASSUME TypeOK, [Next]_vars
  PROVE  TypeOK'
<1> USE DEF TypeOK
<1>1. CASE Resolve
  BY <1>1, RespondType, RespondNotFound DEF Resolve, inputs, edgeVars, originVars
<1>2. CASE DrainChunk
  <2>0. req.body \in Seq(Units) /\ Len(req.body) \in Nat /\ Len(body) \in Nat
    BY ProxyAssumption, LenProperties
  <2>1. Len(body) + 1 \in 1 .. Len(req.body)
    BY <1>2, <2>0 DEF DrainChunk
  <2>2. req.body[Len(body) + 1] \in Units
    BY <2>0, <2>1, ElementOfSeq
  <2> QED
    BY <1>2, <2>0, <2>1, <2>2, AppendProperties
       DEF DrainChunk, inputs, edgeVars, originVars
<1>3. CASE DrainEnd
  BY <1>3, AfterDrain, AfterDrainAnswer
     DEF DrainEnd, inputs, edgeVars, originVars
<1>4. CASE Connect
  BY <1>4, RespondType DEF Connect, inputs, edgeVars
<1>5. CASE WriteHead
  BY <1>5 DEF WriteHead, inputs, edgeVars, originVars
<1>6. CASE WriteBody
  BY <1>6 DEF WriteBody, inputs, edgeVars, originVars
<1>7. CASE Read
  <2>1. Wire(resp) \in Seq(WireUnits)
    BY WireIsSeq
  <2>2. Len(raw) \in Nat /\ Len(raw) + 1 \in 1 .. Len(Wire(resp))
    BY <1>7, <2>1, LenProperties DEF Read
  <2>3. Wire(resp)[Len(raw) + 1] \in WireUnits
    BY <2>1, <2>2, ElementOfSeq
  <2> QED
    BY <1>7, <2>2, <2>3, AppendProperties
       DEF Read, inputs, edgeVars, originVars
<1>8. CASE ReadEnd
  BY <1>8, RespondType DEF ReadEnd, inputs, edgeVars, originVars
<1>9. CASE Breaks
  BY <1>9, RespondType DEF Breaks, inputs, edgeVars, originVars
<1>10. CASE EdgeSends
  <2>1. Len(req.body) \in Nat
    BY ProxyAssumption, LenProperties
  <2> QED BY <1>10, <2>1, LenProperties DEF EdgeSends, inputs, originVars
<1>11. CASE EdgeCuts
  BY <1>11 DEF EdgeCuts, inputs, originVars
<1>12. CASE OriginSends
  BY <1>12, WireIsSeq, LenProperties DEF OriginSends, inputs, edgeVars
<1>13. CASE OriginCloses
  BY <1>13 DEF OriginCloses, inputs, edgeVars
<1>14. CASE UNCHANGED vars
  BY <1>14 DEF vars, inputs, edgeVars, originVars
<1> QED
  BY <1>1, <1>2, <1>3, <1>4, <1>5, <1>6, <1>7, <1>8, <1>9, <1>10, <1>11,
     <1>12, <1>13, <1>14 DEF Next, Task

LEMMA TypeInit == Init => TypeOK
<1> SUFFICES ASSUME Init PROVE TypeOK
  OBVIOUS
<1>1. Len(req.body) \in Nat /\ Len(Wire(resp)) \in Nat
  BY ProxyAssumption, WireIsSeq, LenProperties DEF Init
<1>2. <<>> \in Seq(Units) /\ <<>> \in Seq(WireUnits) /\ Len(<<>>) = 0
  BY EmptySeq
<1> QED BY <1>1, <1>2 DEF Init, TypeOK

(* Every variable of a proxied request keeps to its type                   *)
(* (handle_proxy_stream).                                                  *)
THEOREM TypeCorrect == Spec => []TypeOK
BY TypeInit, TypeStep, PTL DEF Spec

-----------------------------------------------------------------------------
(* The parts of the inductive invariant.                                   *)

(* A prefix grows into a longer prefix.                                    *)
LEMMA LongerPrefix ==
  ASSUME NEW S, NEW s \in Seq(S), NEW w, \A i \in 1 .. Len(s) : s[i] = w[i]
  PROVE  \A i \in 1 .. Len(Append(s, w[Len(s) + 1])) :
           Append(s, w[Len(s) + 1])[i] = w[i]
BY LenProperties

LEMMA PrefixStep ==
  ASSUME TypeOK, PrefixInv, [Next]_vars
  PROVE  PrefixInv'
<1> USE DEF TypeOK, PrefixInv
<1>1. CASE DrainChunk
  <2>1. /\ req' = req /\ resp' = resp /\ raw' = raw
        /\ body' = Append(body, req.body[Len(body) + 1])
    BY <1>1 DEF DrainChunk, inputs
  <2>2. \A i \in 1 .. Len(body') : body'[i] = req.body[i]
    BY <2>1, LongerPrefix
  <2> QED BY <2>1, <2>2 DEF Wire, Payload
<1>2. CASE Read
  <2>1. /\ req' = req /\ resp' = resp /\ body' = body
        /\ raw' = Append(raw, Wire(resp)[Len(raw) + 1])
    BY <1>2 DEF Read, inputs
  <2>2. \A i \in 1 .. Len(raw') : raw'[i] = Wire(resp)[i]
    BY <2>1, LongerPrefix
  <2> QED BY <2>1, <2>2 DEF Wire, Payload
<1>3. CASE UNCHANGED <<inputs, body, raw>>
  BY <1>3 DEF inputs, Wire, Payload
<1> QED
  BY <1>1, <1>2, <1>3
     DEF Next, Task, Resolve, DrainEnd, Connect, WriteHead, WriteBody,
         ReadEnd, Breaks, EdgeSends, EdgeCuts, OriginSends, OriginCloses, vars

(* A drained prefix that is as long as the request is the request.         *)
LEMMA WholeBody ==
  ASSUME TypeOK, PrefixInv, Len(body) = Len(req.body)
  PROVE  body = req.body
BY ProxyAssumption, SeqEqual DEF TypeOK, PrefixInv

Busy == {"connect", "head", "body", "read"}

LEMMA EndStep ==
  ASSUME TypeOK, PrefixInv, EndInv, [Next]_vars
  PROVE  EndInv'
<1> USE DEF EndInv
<1>1. CASE Resolve
  BY <1>1, RespondNotFound DEF Resolve, Rewritable, inputs, edgeVars
<1>2. CASE DrainChunk
  <2>1. Len(body) # Len(req.body)
    BY <1>2, ProxyAssumption, LenProperties DEF DrainChunk, TypeOK
  <2> QED BY <1>2, <2>1 DEF DrainChunk, Rewritable, inputs, edgeVars
<1>3. CASE DrainEnd
  <2>1. body = req.body
    BY <1>3, WholeBody DEF DrainEnd
  <2> QED BY <1>3, <2>1, AfterDrain DEF DrainEnd, Rewritable, inputs, edgeVars
<1>4. CASE EdgeSends
  BY <1>4 DEF EdgeSends, Rewritable, inputs
<1>5. CASE EdgeCuts
  BY <1>5 DEF EdgeCuts, Rewritable, inputs
<1>6. ASSUME UNCHANGED <<inputs, body, edgeVars>>, pc' # "drain" \/ pc' = pc,
             asked' # {} \/ pc' \in Busy => asked # {} \/ pc \in Busy
      PROVE  EndInv'
  BY <1>6 DEF Busy, Rewritable, inputs, edgeVars
<1>7. CASE Connect
  BY <1>6, <1>7, RespondGateway DEF Connect, Busy
<1>8. CASE WriteHead
  BY <1>6, <1>8 DEF WriteHead, Busy
<1>9. CASE WriteBody
  BY <1>6, <1>9 DEF WriteBody, Busy
<1>10. CASE Read
  BY <1>6, <1>10 DEF Read, Busy
<1>11. CASE ReadEnd
  BY <1>6, <1>11 DEF ReadEnd, Busy, Respond, Fail
<1>12. CASE Breaks
  BY <1>6, <1>12, RespondGateway DEF Breaks, Busy
<1>13. CASE OriginSends \/ OriginCloses \/ UNCHANGED vars
  BY <1>6, <1>13 DEF OriginSends, OriginCloses, vars
<1> QED
  BY <1>1, <1>2, <1>3, <1>4, <1>5, <1>7, <1>8, <1>9, <1>10, <1>11, <1>12,
     <1>13 DEF Next, Task

LEMMA AskStep ==
  ASSUME TypeOK, AskInv, [Next]_vars
  PROVE  AskInv'
<1> USE DEF AskInv
<1>1. CASE Resolve
  BY <1>1, RespondNotFound DEF Resolve, originVars
<1>2. CASE DrainChunk
  BY <1>2 DEF DrainChunk, originVars
<1>3. CASE DrainEnd
  BY <1>3, AfterDrain DEF DrainEnd, originVars
<1>4. CASE Connect
  BY <1>4, RespondGateway DEF Connect
<1>5. CASE WriteHead
  BY <1>5 DEF WriteHead, originVars
<1>6. CASE WriteBody
  <2>1. PICK a : a \in asked
    BY <1>6 DEF WriteBody
  <2>2. [a EXCEPT !.body = body] \in asked'
    BY <1>6, <2>1 DEF WriteBody
  <2> QED BY <1>6, <2>2 DEF WriteBody, originVars
<1>7. CASE Read
  BY <1>7 DEF Read, originVars
<1>8. CASE ReadEnd
  BY <1>8 DEF ReadEnd, originVars, Respond, Fail
<1>9. CASE Breaks
  BY <1>9, RespondGateway DEF Breaks, originVars
<1>10. CASE EdgeSends \/ EdgeCuts \/ UNCHANGED vars
  BY <1>10 DEF EdgeSends, EdgeCuts, vars, originVars
<1>11. CASE OriginSends \/ OriginCloses
  BY <1>11 DEF OriginSends, OriginCloses
<1> QED
  BY <1>1, <1>2, <1>3, <1>4, <1>5, <1>6, <1>7, <1>8, <1>9, <1>10, <1>11
     DEF Next, Task

-----------------------------------------------------------------------------
(* The request an origin is asked.                                         *)

(* What the two loops over the headers keep.                               *)
LEMMA KeptNames ==
  ASSUME NEW fields
  PROVE  DOMAIN Written(Copied(fields)) \cap (HopByHop \cup Private) = {}
BY DEF Written, Copied

LEMMA OneAfterOther ==
  ASSUME NEW m \in Nat, NEW n \in Nat
  PROVE  <<m>> \o <<n>> = <<m, n>>
<1> DEFINE both == <<m>> \o <<n>>
           pair == <<m, n>>
<1>1. <<m>> \in Seq(Nat) /\ <<n>> \in Seq(Nat)
  OBVIOUS
<1>2. both \in Seq(Nat) /\ Len(both) = 2 /\ both[1] = m /\ both[2] = n
  BY <1>1, ConcatProperties
<1>3. pair \in Seq(Nat) /\ Len(pair) = 2 /\ pair[1] = m /\ pair[2] = n
  OBVIOUS
<1> HIDE DEF both, pair
<1>4. \A i \in 1 .. 2 : both[i] = pair[i]
  BY <1>2, <1>3
<1>5. both = pair
  BY <1>2, <1>3, <1>4, SeqEqual
<1> QED BY <1>5 DEF both, pair

(* A length that is written is the body's or one the edge repeated, and    *)
(* the last one, for a body that is not empty, is the body's.              *)
LengthOk(n) ==
  n = Len(req.body) \/ \E j \in 2 .. Len(req.lengths) : n = req.lengths[j]

LEMMA LengthLinesAgree ==
  ASSUME TypeOK, body = req.body
  PROVE  /\ req.body # <<>> => LastOf(LengthLines) = Len(req.body)
         /\ \A i \in DOMAIN LengthLines : LengthOk(LengthLines[i])
<1> DEFINE own == LastOnly(req.lengths)
           added == IF body = <<>> THEN <<>> ELSE <<Len(body)>>
<1>1. req.lengths \in Seq(Nat) /\ Len(req.lengths) \in Nat /\ Len(req.body) \in Nat
  BY ProxyAssumption, LenProperties DEF TypeOK
<1>2. req.lengths # <<>> =>
        /\ Len(req.lengths) >= 1
        /\ LastOf(req.lengths) \in Nat
        /\ LengthOk(LastOf(req.lengths))
  <2> SUFFICES ASSUME req.lengths # <<>>
               PROVE  /\ Len(req.lengths) >= 1
                      /\ LastOf(req.lengths) \in Nat
                      /\ LengthOk(LastOf(req.lengths))
    OBVIOUS
  <2>1. Len(req.lengths) >= 1
    BY <1>1, EmptySeq
  <2>2. LastOf(req.lengths) \in Nat
    BY <1>1, <2>1, ElementOfSeq DEF LastOf
  <2>3. Len(req.lengths) = 1 => LengthOk(LastOf(req.lengths))
    BY ProxyAssumption DEF TypeOK, LastOf, LengthOk
  <2>4. Len(req.lengths) >= 2 => LengthOk(LastOf(req.lengths))
    BY <1>1 DEF LastOf, LengthOk
  <2>5. \A n \in Nat : n >= 1 => n = 1 \/ n >= 2
    OBVIOUS
  <2> QED BY <1>1, <2>1, <2>2, <2>3, <2>4, <2>5
<1>3. CASE req.lengths = <<>>
  <2>1. LengthLines = added
    BY <1>1, <1>3 DEF LengthLines, LastOnly
  <2> QED BY <1>1, <2>1 DEF LastOf, LengthOk
<1>4. CASE req.lengths # <<>>
  <2>1. CASE body = <<>>
    <3>1. LengthLines = <<LastOf(req.lengths)>>
      BY <1>2, <1>4, <2>1 DEF LengthLines, LastOnly
    <3> QED BY <1>2, <1>4, <2>1, <3>1
  <2>2. CASE body # <<>>
    <3> DEFINE last == LastOf(req.lengths)
    <3>1. LengthLines = <<last>> \o <<Len(req.body)>>
      BY <1>4, <2>2 DEF LengthLines, LastOnly
    <3>2. last \in Nat /\ LengthOk(last)
      BY <1>2, <1>4
    <3> HIDE DEF last
    <3>3. LengthLines = <<last, Len(req.body)>>
      BY <1>1, <3>1, <3>2, OneAfterOther
    <3> QED BY <1>1, <3>2, <3>3 DEF LastOf, LengthOk
  <2> QED BY <2>1, <2>2
<1> QED BY <1>3, <1>4

LEMMA RequestStep ==
  ASSUME TypeOK, EndInv, AskInv, RequestWhole, [Next]_vars
  PROVE  RequestWhole'
<1> USE DEF RequestWhole
<1>1. CASE WriteHead
  <2> DEFINE a == [target |-> Target(rule),
                   fields |-> Written(Copied(req.fields)),
                   lengths |-> LengthLines, body |-> <<>>]
  <2>1. asked' = {a} /\ req' = req /\ body = req.body
    BY <1>1 DEF WriteHead, inputs, EndInv
  <2>2. a.body = <<>> /\ (pc' = "read" => a.body = req.body)
    BY <1>1, <2>1 DEF WriteHead
  <2>3. /\ req.body # <<>> => LastOf(a.lengths) = Len(req.body)
        /\ \A i \in DOMAIN a.lengths : LengthOk(a.lengths[i])
    BY <2>1, LengthLinesAgree
  <2>4. DOMAIN a.fields \cap (HopByHop \cup Private) = {}
    BY KeptNames
  <2> HIDE DEF a
  <2> QED BY <2>1, <2>2, <2>3, <2>4 DEF LengthOk
<1>2. CASE WriteBody
  <2> SUFFICES ASSUME NEW b \in asked'
               PROVE  /\ b.body = req.body
                      /\ req.body # <<>> => LastOf(b.lengths) = Len(req.body)
                      /\ \A i \in DOMAIN b.lengths : LengthOk(b.lengths[i])
                      /\ DOMAIN b.fields \cap (HopByHop \cup Private) = {}
    BY <1>2 DEF WriteBody, inputs, LengthOk
  <2>1. PICK a \in asked : b = [a EXCEPT !.body = body]
    BY <1>2 DEF WriteBody
  <2> QED BY <1>2, <2>1 DEF WriteBody, EndInv, LengthOk
<1>3. ASSUME req' = req, asked' = asked, pc' = "read" => pc = "read" \/ asked = {}
      PROVE  RequestWhole'
  BY <1>3
<1>4. CASE Resolve
  BY <1>3, <1>4, RespondNotFound DEF Resolve, inputs
<1>5. CASE DrainEnd
  BY <1>3, <1>5, AfterDrain DEF DrainEnd, inputs
<1>6. CASE Connect
  BY <1>3, <1>6, RespondGateway DEF Connect, inputs
<1>7. CASE ReadEnd
  BY <1>3, <1>7 DEF ReadEnd, Respond, Fail, inputs
<1>8. CASE Breaks
  BY <1>3, <1>8, RespondGateway DEF Breaks, inputs
<1>9. CASE \/ DrainChunk \/ Read \/ EdgeSends \/ EdgeCuts
           \/ OriginSends \/ OriginCloses \/ UNCHANGED vars
  BY <1>3, <1>9
     DEF DrainChunk, Read, EdgeSends, EdgeCuts, OriginSends, OriginCloses,
         inputs, vars
<1> QED
  BY <1>1, <1>2, <1>4, <1>5, <1>6, <1>7, <1>8, <1>9 DEF Next, Task

-----------------------------------------------------------------------------
(* The answer the edge gets.                                               *)

(* What parse_http1_response makes of an answer read to its end.           *)
LEMMA ParsedAnswer ==
  ASSUME TypeOK, PrefixInv, Len(raw) = given
  PROVE  \/ Parsed(raw) = BadGateway
         \/ /\ given >= HeadUnits
            /\ Parsed(raw) = Answer(resp.code, resp.fields, resp.lengths,
                                    SubSeq(Wire(resp), HeadUnits + 1, given))
<1> DEFINE n == Len(raw)
           w == Wire(resp)
<1>1. /\ w \in Seq(WireUnits) /\ raw \in Seq(WireUnits)
      /\ Len(w) \in Nat /\ n \in Nat /\ n <= Len(w)
  BY WireIsSeq, LenProperties DEF TypeOK
<1>2. \A i \in 1 .. n : raw[i] = w[i]
  BY DEF PrefixInv
<1>3. SubSeq(raw, HeadUnits + 1, n) = SubSeq(w, HeadUnits + 1, n)
  <2> HIDE DEF n, w
  <2> QED BY <1>1, <1>2 DEF HeadUnits
<1>4. CASE n < HeadUnits
  BY <1>4 DEF Parsed
<1>5. CASE n >= HeadUnits
  BY <1>3, <1>5 DEF Parsed
<1> QED BY <1>1, <1>4, <1>5 DEF HeadUnits

(* A step that only adds an answer of the client's own, or none.           *)
LEMMA OwnAnswer ==
  ASSUME AnswerIsOrigins, UNCHANGED <<inputs, given>>,
         \/ answer' \subseteq {NotFound, BadGateway}
         \/ answer' = answer /\ asked' = asked /\ origin' = origin
  PROVE  AnswerIsOrigins'
<1>1. /\ NotFound' = NotFound /\ BadGateway' = BadGateway
      /\ resp' = resp /\ given' = given
  BY DEF inputs, NotFound, BadGateway, Bare, Answer
<1>2. /\ Wire(resp)' = Wire(resp) /\ Serialized(resp.fields)' = Serialized(resp.fields)
  BY <1>1 DEF Wire, Payload, Serialized
<1>3. CASE answer' \subseteq {NotFound, BadGateway}
  BY <1>1, <1>3 DEF AnswerIsOrigins
<1>4. CASE answer' = answer /\ asked' = asked /\ origin' = origin
  BY <1>1, <1>2, <1>4 DEF AnswerIsOrigins, HeadUnits
<1> QED BY <1>3, <1>4

LEMMA AnswerStep ==
  ASSUME TypeOK, PrefixInv, AskInv, AnswerIsOrigins, [Next]_vars
  PROVE  AnswerIsOrigins'
<1>1. CASE Resolve
  BY <1>1, OwnAnswer, RespondNotFound DEF Resolve, originVars
<1>2. CASE DrainChunk
  BY <1>2, OwnAnswer DEF DrainChunk, originVars
<1>3. CASE DrainEnd
  BY <1>3, OwnAnswer, AfterDrainAnswer DEF DrainEnd, originVars
<1>4. CASE Connect
  <2>1. answer = {}
    BY <1>4 DEF Connect, TypeOK
  <2> QED BY <1>4, <2>1, OwnAnswer, RespondGateway DEF Connect
<1>5. CASE WriteHead
  BY <1>5, OwnAnswer DEF WriteHead, originVars, TypeOK
<1>6. CASE WriteBody
  BY <1>6, OwnAnswer DEF WriteBody, originVars, TypeOK
<1>7. CASE Read
  BY <1>7, OwnAnswer DEF Read, originVars
<1>8. CASE ReadEnd
  <2>1. /\ answer = {} /\ asked # {} /\ origin = "closed"
        /\ asked' = asked /\ origin' = origin /\ given' = given
        /\ UNCHANGED inputs /\ Len(raw) = given
    BY <1>8 DEF ReadEnd, originVars, TypeOK, AskInv
  <2>2. CASE Parsed(raw) = BadGateway
    <3>1. Respond(BadGateway)
      BY <1>8, <2>2 DEF ReadEnd
    <3> QED BY <2>1, <3>1, OwnAnswer, RespondGateway
  <2>3. CASE Parsed(raw) # BadGateway
    <3> DEFINE units == SubSeq(Wire(resp), HeadUnits + 1, given)
               a == Answer(resp.code, Serialized(resp.fields),
                           FirstOnly(resp.lengths), units)
    <3>1. /\ given >= HeadUnits
          /\ Parsed(raw) = Answer(resp.code, resp.fields, resp.lengths, units)
      BY <2>1, <2>3, ParsedAnswer
    <3>2. answer' = {} \/ answer' = {a}
      BY <1>8, <2>1, <3>1 DEF ReadEnd, Respond, Fail, Answer
    <3>3. /\ a.code = resp.code /\ a.fields = Serialized(resp.fields)
          /\ a.body = units
      BY DEF Answer
    <3>4. /\ resp' = resp /\ Serialized(resp.fields)' = Serialized(resp.fields)
          /\ Wire(resp)' = Wire(resp)
      BY <2>1 DEF inputs, Serialized, Wire, Payload
    <3> HIDE DEF a
    <3> QED BY <2>1, <3>1, <3>2, <3>3, <3>4 DEF AnswerIsOrigins, HeadUnits
  <2> QED BY <2>2, <2>3
<1>9. CASE Breaks
  BY <1>9, OwnAnswer, RespondGateway DEF Breaks, originVars
<1>10. CASE EdgeSends \/ EdgeCuts \/ UNCHANGED vars
  BY <1>10, OwnAnswer DEF EdgeSends, EdgeCuts, vars, originVars
<1>11. CASE OriginSends
  <2>1. answer \subseteq {NotFound, BadGateway}
    BY <1>11 DEF OriginSends, AnswerIsOrigins
  <2>2. /\ answer' = answer /\ NotFound' = NotFound /\ BadGateway' = BadGateway
    BY <1>11 DEF OriginSends, NotFound, BadGateway, Bare, Answer
  <2> QED BY <2>1, <2>2 DEF AnswerIsOrigins
<1>12. CASE OriginCloses
  <2>1. answer = {} \/ origin # "closed" \/ origin' = origin
    BY <1>12 DEF OriginCloses, Done, TypeOK
  <2>2. answer \subseteq {NotFound, BadGateway} \/ origin' = origin
    BY <2>1 DEF AnswerIsOrigins
  <2> QED BY <1>12, <2>2, OwnAnswer DEF OriginCloses
<1> QED
  BY <1>1, <1>2, <1>3, <1>4, <1>5, <1>6, <1>7, <1>8, <1>9, <1>10, <1>11,
     <1>12 DEF Next, Task

(* A task that read an answer to its end fails only when the stream was    *)
(* cut or the header lines do not fit.                                     *)
LEMMA ParsedFailure ==
  ASSUME Respond(Parsed(raw)), pc' = "failed"
  PROVE  stream = "cut" \/ ~FitsOneHeader(resp.fields)
<1>1. Parsed(raw).fields = <<>> \/ Parsed(raw).fields = resp.fields
  BY DEF Parsed, BadGateway, Bare, Answer
<1> QED BY <1>1, NoLines DEF Respond, Fail

LEMMA FailureStep ==
  ASSUME TypeOK, EndInv, OriginFailuresAnswered, [Next]_vars
  PROVE  OriginFailuresAnswered'
<1> DEFINE Excused == \/ stream = "cut"
                      \/ rule # NoRule /\ ~Rewritable(rule)
                      \/ ~FitsOneHeader(resp.fields)
<1>1. SUFFICES ASSUME pc' = "failed" PROVE Excused
  <2>1. UNCHANGED inputs /\ (stream = "cut" => stream' = "cut")
    BY DEF Next, Task, Resolve, DrainChunk, DrainEnd, Connect, WriteHead,
           WriteBody, Read, ReadEnd, Breaks, EdgeSends, EdgeCuts,
           OriginSends, OriginCloses, vars, edgeVars
  <2> QED BY <1>1, <2>1
          DEF OriginFailuresAnswered, Rewritable, FitsOneHeader, Lines, inputs
<1>2. CASE pc = "failed"
  BY <1>2 DEF OriginFailuresAnswered
<1>3. CASE Resolve
  BY <1>1, <1>3, RespondNotFound DEF Resolve
<1>4. CASE DrainEnd
  BY <1>1, <1>4, AfterDrain DEF DrainEnd, EndInv
<1>5. CASE Connect
  BY <1>1, <1>5, RespondGateway DEF Connect
<1>6. CASE ReadEnd
  BY <1>1, <1>6, ParsedFailure DEF ReadEnd
<1>7. CASE Breaks
  BY <1>1, <1>7, RespondGateway DEF Breaks
<1>8. CASE \/ DrainChunk \/ WriteHead \/ WriteBody \/ Read \/ EdgeSends
           \/ EdgeCuts \/ OriginSends \/ OriginCloses \/ UNCHANGED vars
  BY <1>1, <1>2, <1>8
     DEF DrainChunk, WriteHead, WriteBody, Read, EdgeSends, EdgeCuts,
         OriginSends, OriginCloses, vars
<1> QED
  BY <1>2, <1>3, <1>4, <1>5, <1>6, <1>7, <1>8 DEF Next, Task

-----------------------------------------------------------------------------
(* The invariants.                                                         *)

LEMMA IInvInit == Init => IInv
BY TypeInit, EmptySeq
   DEF Init, IInv, PrefixInv, EndInv, AskInv, RequestWhole, AnswerIsOrigins,
       OriginFailuresAnswered

LEMMA Inductive == Spec => []IInv
<1>1. IInv /\ [Next]_vars => IInv'
  BY TypeStep, PrefixStep, EndStep, AskStep, RequestStep, AnswerStep,
     FailureStep DEF IInv
<1> QED BY IInvInit, <1>1, PTL DEF Spec

(* The request an origin is asked is the whole request, and a length that  *)
(* disagrees with its body is one the edge sent after the one h2 checks    *)
(* (handle_proxy_stream, forward_http).                                    *)
THEOREM WholeRequests == Spec => []RequestWhole
BY Inductive, PTL DEF IInv

(* An answer that is not the client's own 404 or 502 is the origin's       *)
(* (forward_http, parse_http1_response).                                   *)
THEOREM OriginAnswers == Spec => []AnswerIsOrigins
BY Inductive, PTL DEF IInv

(* The edge gets an answer whatever the origin does, but for a cut stream, *)
(* a service that is no URL, and header lines that do not fit              *)
(* (handle_proxy_stream).                                                  *)
THEOREM FailuresAnswered == Spec => []OriginFailuresAnswered
BY Inductive, PTL DEF IInv

-----------------------------------------------------------------------------
(* What never gets an answer.                                              *)

ServedInv == pc = "answered" => rule = NoRule \/ Rewritable(rule)

HeaderInv ==
  ~FitsOneHeader(resp.fields) => answer \subseteq {NotFound, BadGateway}

LEMMA ServedStep ==
  ASSUME EndInv, ServedInv, [Next]_vars
  PROVE  ServedInv'
<1>1. UNCHANGED inputs
  BY DEF Next, Task, Resolve, DrainChunk, DrainEnd, Connect, WriteHead,
         WriteBody, Read, ReadEnd, Breaks, EdgeSends, EdgeCuts,
         OriginSends, OriginCloses, vars
<1>2. SUFFICES ASSUME pc' = "answered" PROVE rule = NoRule \/ Rewritable(rule)
  BY <1>1, <1>2 DEF ServedInv, Rewritable, inputs
<1>3. CASE pc \in {"answered", "connect", "head", "body", "read"}
  BY <1>3 DEF ServedInv, EndInv
<1>4. CASE Resolve
  BY <1>2, <1>4 DEF Resolve
<1>5. CASE DrainEnd
  BY <1>2, <1>5, AfterDrain DEF DrainEnd
<1>6. CASE DrainChunk \/ EdgeSends \/ EdgeCuts \/ OriginSends \/ OriginCloses
           \/ UNCHANGED vars
  BY <1>2, <1>6
     DEF ServedInv, DrainChunk, EdgeSends, EdgeCuts, OriginSends, OriginCloses, vars
<1> QED
  BY <1>3, <1>4, <1>5, <1>6
     DEF Next, Task, Connect, WriteHead, WriteBody, Read, ReadEnd, Breaks

(* The lines of an answer that was parsed are those the origin sent, so    *)
(* that the error that Respond may meet is met.                            *)
LEMMA HeaderStep ==
  ASSUME TypeOK, HeaderInv, [Next]_vars
  PROVE  HeaderInv'
<1> DEFINE Own == {NotFound, BadGateway}
<1>1. UNCHANGED inputs /\ Own' = Own
  BY DEF Next, Task, Resolve, DrainChunk, DrainEnd, Connect, WriteHead,
         WriteBody, Read, ReadEnd, Breaks, EdgeSends, EdgeCuts,
         OriginSends, OriginCloses, vars, NotFound, BadGateway, Bare, Answer
<1> HIDE DEF Own
<1>2. SUFFICES ASSUME ~FitsOneHeader(resp.fields), answer \subseteq Own
               PROVE  answer' \subseteq Own
  <2>1. FitsOneHeader(resp.fields)' = FitsOneHeader(resp.fields)
    BY <1>1 DEF FitsOneHeader, Lines, inputs
  <2> QED BY <1>1, <1>2, <2>1 DEF HeaderInv, Own
<1>3. NotFound \in Own /\ BadGateway \in Own
  BY DEF Own
<1>4. CASE answer' = answer
  BY <1>2, <1>4
<1>5. CASE Resolve
  BY <1>2, <1>3, <1>5, RespondNotFound DEF Resolve
<1>6. CASE Connect \/ Breaks
  BY <1>2, <1>3, <1>6, RespondGateway DEF Connect, Breaks
<1>7. CASE ReadEnd
  <2>1. Respond(Parsed(raw))
    BY <1>7 DEF ReadEnd
  <2>2. CASE Parsed(raw) = BadGateway
    BY <1>2, <1>3, <2>1, <2>2, RespondGateway
  <2>3. CASE Parsed(raw) # BadGateway
    <3>1. Parsed(raw).fields = resp.fields
      BY <2>3 DEF Parsed, Answer
    <3> QED BY <1>2, <2>1, <3>1 DEF Respond, Fail
  <2> QED BY <2>2, <2>3
<1>8. CASE DrainEnd
  BY <1>4, <1>8, AfterDrainAnswer DEF DrainEnd
<1> QED
  BY <1>4, <1>5, <1>6, <1>7, <1>8
     DEF Next, Task, DrainChunk, WriteHead, WriteBody, Read, EdgeSends,
         EdgeCuts, OriginSends, OriginCloses, vars

(* No request that a rule gives to http_status or hello_world is answered: *)
(* handle_proxy_stream rewrites the URI before dispatch looks at the rule. *)
THEOREM StatusRulesUnanswered ==
  Spec => [](rule # NoRule /\ rule.kind \in {"status", "hello"} => answer = {})
<1>1. Init => ServedInv
  BY DEF Init, ServedInv
<1>2. IInv /\ ServedInv /\ [Next]_vars => ServedInv'
  BY ServedStep DEF IInv
<1>3. IInv /\ ServedInv
        => (rule # NoRule /\ rule.kind \in {"status", "hello"} => answer = {})
  BY DEF IInv, TypeOK, ServedInv, Rewritable
<1> QED BY Inductive, <1>1, <1>2, <1>3, PTL DEF Spec

(* An answer of the origin with two header lines or more is never passed   *)
(* on, whatever they say: the builder refuses the header they are joined   *)
(* to (handle_proxy_stream).                                               *)
THEOREM ManyHeadersUnanswered ==
  Spec => [](~FitsOneHeader(resp.fields) => answer \subseteq {NotFound, BadGateway})
<1>1. Init => HeaderInv
  BY DEF Init, HeaderInv
<1>2. IInv /\ HeaderInv /\ [Next]_vars => HeaderInv'
  BY HeaderStep DEF IInv
<1> QED BY Inductive, <1>1, <1>2, PTL DEF Spec, HeaderInv
=============================================================================
