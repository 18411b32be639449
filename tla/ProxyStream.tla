---------------------------- MODULE ProxyStream ----------------------------
(***************************************************************************)
(* One proxied request: handle_proxy_stream, dispatch, forward_http and    *)
(* parse_http1_response, between the edge, which sends the request on an   *)
(* h2 stream, and the origin, which answers over TCP.  Every request runs  *)
(* in a task of its own with no state in common but the ingress table      *)
(* (module Ingress), so one task is modelled, for every request, rule and  *)
(* answer.                                                                 *)
(*                                                                         *)
(* Headers are kept as the values of each name, in order; Content-Length   *)
(* apart from the others, as its numbers.  Bodies are sequences of units.  *)
(***************************************************************************)
EXTENDS Integers, Sequences, FiniteSets

CONSTANTS
  Units,       \* what bodies are made of
  Requests,    \* requests the edge may send: [fields, lengths, body]
  Services,    \* services of rules: [kind, addr, code]
  Responses,   \* answers the origin may give: [sound, code, fields, lengths, coding, body]
  MaxHeaders,  \* header lines parse_http1_response has room for (64)
  NonAscii,    \* header values to_str rejects
  HopByHop,    \* names forward_http leaves out
  Private,     \* names handle_proxy_stream leaves out: host, the upgrade header
  Localhost,   \* 127.0.0.1:80, what a service without host and port stands for
  NoRule, Blank

(* h2 resets a request whose body is not as long as its first              *)
(* Content-Length.  It does not look at a second one.                      *)
ASSUME ProxyAssumption ==
  /\ \A r \in Requests :
       /\ r.body \in Seq(Units)
       /\ r.lengths \in Seq(Nat)
       /\ r.lengths # <<>> => r.lengths[1] = Len(r.body)
  /\ \A r \in Responses : r.body \in Seq(Units)
  /\ NoRule \notin Services

VARIABLES
  req,      \* the request
  rule,     \* the service of the rule that resolve finds
  resp,     \* the answer the origin would give
  pc,       \* where the task awaits
  stream,   \* the request direction of the h2 stream, as h2 sees it
  arrived,  \* body units h2 has received
  body,     \* body units drained
  origin,   \* the origin's side of the TCP connection
  asked,    \* the request written to the origin, if any
  given,    \* units of its answer the origin has sent
  raw,      \* units read
  answer    \* the h2 response, if any

inputs == <<req, rule, resp>>
edgeVars == <<stream, arrived>>
originVars == <<origin, given>>
vars == <<inputs, pc, edgeVars, body, originVars, asked, raw, answer>>

-----------------------------------------------------------------------------
(* Headers.                                                                *)

Lines(fields) == UNION {{n} \X DOMAIN fields[n] : n \in DOMAIN fields}
LastOf(s) == s[Len(s)]
FirstOnly(s) == IF s = <<>> THEN <<>> ELSE <<s[1]>>
LastOnly(s) == IF s = <<>> THEN <<>> ELSE <<LastOf(s)>>

(* The loop of handle_proxy_stream: insert replaces what an earlier value  *)
(* of the same name left.                                                  *)
Copied(fields) == [n \in DOMAIN fields \ Private |-> <<LastOf(fields[n])>>]

(* The loop of forward_http, which writes what to_str takes.               *)
Written(fields) ==
  LET names == {n \in DOMAIN fields \ HopByHop :
                  \E i \in DOMAIN fields[n] : fields[n][i] \notin NonAscii}
  IN  [n \in names |-> SelectSeq(fields[n], LAMBDA v : v \notin NonAscii)]

(* serialize_headers: a value to_str rejects is left empty.                *)
Serialized(fields) ==
  [n \in DOMAIN fields |->
     [i \in DOMAIN fields[n] |->
        IF fields[n][i] \in NonAscii THEN Blank ELSE fields[n][i]]]

(* The header lines are joined by CR LF, which is no part of a header      *)
(* value: builder.header takes at most one line.                           *)
FitsOneHeader(fields) == Cardinality(Lines(fields)) <= 1

-----------------------------------------------------------------------------
(* Responses.                                                              *)

Answer(code, fields, lengths, units) ==
  [code |-> code, fields |-> fields, lengths |-> lengths, body |-> units]

Bare(code, units) == Answer(code, <<>>, <<>>, units)
BadGateway == Bare(502, <<"text">>)
NotFound == Bare(404, <<"text">>)

(* What dispatch answers for an http_status rule: 404 for a number that is *)
(* no status code.                                                         *)
StatusAnswer(code) == Bare(IF code \in 100 .. 999 THEN code ELSE 404, <<"text">>)

HelloWorld == Answer(200, [n \in {"content-type"} |-> <<"html">>], <<>>, <<"text">>)

(* The payload as the origin writes it: chunks behind their sizes, if it   *)
(* chose chunked coding.                                                   *)
Payload(r) ==
  IF r.coding = "chunked"
  THEN [i \in 1 .. 2 * Len(r.body) |->
          IF i % 2 = 1 THEN "size" ELSE r.body[i \div 2]] \o <<"last">>
  ELSE r.body

(* On the wire: the head in two pieces, then the payload.                  *)
HeadUnits == 2
Wire(r) == <<"status line", "headers">> \o Payload(r)
WireUnits == Units \cup {"status line", "headers", "size", "last"}

(* Mutant: half a head will do.                                            *)
ParsedMutant(units) ==
  IF ~resp.sound \/ Cardinality(Lines(resp.fields)) + Len(resp.lengths) > MaxHeaders
  THEN BadGateway
  ELSE Answer(resp.code, resp.fields, resp.lengths,
              SubSeq(units, HeadUnits + 1, Len(units)))

(* parse_http1_response: too many headers or no HTTP at all is an error,   *)
(* which dispatch's caller answers with 502, as an incomplete head is.     *)
(* All that follows the head is the body.                                  *)
Parsed(units) ==
  IF \/ Len(units) < HeadUnits
     \/ ~resp.sound
     \/ Cardinality(Lines(resp.fields)) + Len(resp.lengths) > MaxHeaders
  THEN BadGateway
  ELSE Answer(resp.code, resp.fields, resp.lengths,
              SubSeq(units, HeadUnits + 1, Len(units)))

-----------------------------------------------------------------------------
(* handle_proxy_stream.                                                    *)

Init ==
  /\ req \in Requests
  /\ rule \in Services \cup {NoRule}
  /\ resp \in Responses
  /\ pc = "resolve"
  /\ stream = "open"
  /\ arrived = 0
  /\ body = <<>>
  /\ origin = "none"
  /\ asked = {}
  /\ given = 0
  /\ raw = <<>>
  /\ answer = {}

(* Mutant: the error is swallowed and counts as an answer.                 *)
FailMutant == pc' = "answered" /\ UNCHANGED answer

(* The task returns an error, which drops the h2 response.                 *)
Fail == pc' = "failed" /\ UNCHANGED answer

(* The task ends: with a response, or with an error, when the stream takes *)
(* none or the header lines do not make one header.  Only the first        *)
(* Content-Length is kept.                                                 *)
Respond(a) ==
  IF stream = "cut" \/ ~FitsOneHeader(a.fields)
  THEN Fail
  ELSE /\ pc' = "answered"
       /\ answer' = {Answer(a.code, Serialized(a.fields),
                            FirstOnly(a.lengths), a.body)}

(* resolve has returned: without a rule 404 at once.                       *)
Resolve ==
  /\ pc = "resolve"
  /\ \/ rule = NoRule /\ Respond(NotFound)
     \/ rule # NoRule /\ pc' = "drain" /\ UNCHANGED answer
  /\ UNCHANGED <<inputs, edgeVars, body, originVars, asked, raw>>

DrainChunk ==
  /\ pc = "drain"
  /\ Len(body) < arrived
  /\ body' = Append(body, req.body[Len(body) + 1])
  /\ UNCHANGED <<inputs, pc, edgeVars, originVars, asked, raw, answer>>

(* rewrite_uri parses the service as a URL.  One with a scheme and nothing *)
(* else, such as localhost:8080, passes, but http_status:404 and           *)
(* hello_world do not.                                                     *)
Rewritable(s) == s.kind \in {"url", "opaque"}

Target(s) == IF s.kind = "url" THEN s.addr ELSE Localhost

(* dispatch, up to its first await.                                        *)
Dispatch ==
  CASE rule.kind = "status" -> Respond(StatusAnswer(rule.code))
    [] rule.kind = "hello" -> Respond(HelloWorld)
    [] OTHER -> pc' = "connect" /\ UNCHANGED answer

(* Mutant: the first pending read is taken for the end of the body.        *)
DrainEndMutant ==
  /\ pc = "drain"
  /\ Len(body) = arrived
  /\ IF Rewritable(rule) THEN Dispatch ELSE Fail
  /\ UNCHANGED <<inputs, edgeVars, body, originVars, asked, raw>>

(* The whole body is there: rewrite the URI, and dispatch.  On a stream    *)
(* that was cut off drain_body never ends (module Tunnel).                 *)
DrainEnd ==
  /\ pc = "drain"
  /\ stream = "ended"
  /\ Len(body) = arrived
  /\ IF Rewritable(rule) THEN Dispatch ELSE Fail
  /\ UNCHANGED <<inputs, edgeVars, body, originVars, asked, raw>>

-----------------------------------------------------------------------------
(* forward_http.  Each of its errors is answered with 502.                 *)

Connect ==
  /\ pc = "connect"
  /\ \/ origin' = "open" /\ pc' = "head" /\ UNCHANGED answer
     \/ origin' = "broken" /\ Respond(BadGateway)
  /\ UNCHANGED <<inputs, edgeVars, body, asked, given, raw>>

(* What the head says of the length: the last Content-Length the request   *)
(* had, which insert has left, then one for a body that is not empty.      *)
LengthLines ==
  LastOnly(req.lengths) \o (IF body = <<>> THEN <<>> ELSE <<Len(body)>>)

WriteHead ==
  /\ pc = "head"
  /\ origin # "broken"
  /\ asked' = {[target |-> Target(rule), fields |-> Written(Copied(req.fields)),
                lengths |-> LengthLines, body |-> <<>>]}
  /\ pc' = IF body = <<>> THEN "read" ELSE "body"
  /\ UNCHANGED <<inputs, edgeVars, body, originVars, raw, answer>>

WriteBody ==
  /\ pc = "body"
  /\ origin # "broken"
  /\ asked' = {[a EXCEPT !.body = body] : a \in asked}
  /\ pc' = "read"
  /\ UNCHANGED <<inputs, edgeVars, body, originVars, raw, answer>>

(* read_to_end takes what the origin has sent.                             *)
Read ==
  /\ pc = "read"
  /\ origin # "broken"
  /\ Len(raw) < given
  /\ raw' = Append(raw, Wire(resp)[Len(raw) + 1])
  /\ UNCHANGED <<inputs, pc, edgeVars, body, originVars, asked, answer>>

(* The origin has closed, after all of its answer or before.               *)
ReadEnd ==
  /\ pc = "read"
  /\ origin = "closed"
  /\ Len(raw) = given
  /\ Respond(Parsed(raw))
  /\ UNCHANGED <<inputs, edgeVars, body, originVars, asked, raw>>

(* Mutants: an I/O error ends the task like any other of its errors; it is *)
(* taken for the end of the answer only when the body was written.         *)
BreaksMutant ==
  /\ pc \in {"head", "body", "read"}
  /\ origin = "broken"
  /\ Fail
  /\ UNCHANGED <<inputs, edgeVars, body, originVars, asked, raw>>

BreaksWriteMutant ==
  /\ pc \in {"head", "body"}
  /\ origin = "broken"
  /\ Respond(BadGateway)
  /\ UNCHANGED <<inputs, edgeVars, body, originVars, asked, raw>>

(* A write or the read reports an I/O error.                               *)
Breaks ==
  /\ pc \in {"head", "body", "read"}
  /\ origin = "broken"
  /\ Respond(BadGateway)
  /\ UNCHANGED <<inputs, edgeVars, body, originVars, asked, raw>>

-----------------------------------------------------------------------------
(* The edge and the origin.                                                *)

Done == pc \in {"answered", "failed"}

EdgeSends ==
  /\ stream = "open"
  /\ \/ arrived < Len(req.body) /\ arrived' = arrived + 1 /\ UNCHANGED stream
     \/ arrived = Len(req.body) /\ stream' = "ended" /\ UNCHANGED arrived
  /\ UNCHANGED <<inputs, pc, body, originVars, asked, raw, answer>>

EdgeCuts ==
  /\ stream # "cut"
  /\ stream' = "cut"
  /\ UNCHANGED <<inputs, pc, arrived, body, originVars, asked, raw, answer>>

(* The origin may answer before it has read the request.                   *)
OriginSends ==
  /\ origin = "open"
  /\ given < Len(Wire(resp))
  /\ given' = given + 1
  /\ UNCHANGED <<inputs, pc, edgeVars, body, origin, asked, raw, answer>>

(* It closes the connection, at any point, or the connection breaks.       *)
OriginCloses ==
  /\ \/ origin = "open" /\ origin' = "closed"
     \/ origin \in {"open", "closed"} /\ ~Done /\ origin' = "broken"
  /\ UNCHANGED <<inputs, pc, edgeVars, body, given, asked, raw, answer>>

-----------------------------------------------------------------------------
Task ==
  \/ Resolve \/ DrainChunk \/ DrainEnd
  \/ Connect \/ WriteHead \/ WriteBody \/ Read \/ ReadEnd \/ Breaks

Next == Task \/ EdgeSends \/ EdgeCuts \/ OriginSends \/ OriginCloses

Spec == Init /\ [][Next]_vars

(* The task is polled while it can go on.  Neither connect nor read has a  *)
(* timeout: that the origin closes in the end is the environment's part.   *)
FairSpec == Spec /\ WF_vars(Task) /\ WF_vars(OriginCloses)

-----------------------------------------------------------------------------
(* Every variable keeps to its type, and the task holds what its place     *)
(* says.                                                                   *)
TypeOK ==
  /\ req \in Requests
  /\ rule \in Services \cup {NoRule}
  /\ resp \in Responses
  /\ pc \in {"resolve", "drain", "connect", "head", "body", "read",
            "answered", "failed"}
  /\ stream \in {"open", "ended", "cut"}
  /\ arrived \in 0 .. Len(req.body)
  /\ body \in Seq(Units)
  /\ Len(body) <= arrived
  /\ origin \in {"none", "open", "closed", "broken"}
  /\ given \in 0 .. Len(Wire(resp))
  /\ raw \in Seq(WireUnits)
  /\ Len(raw) <= given
  /\ answer # {} <=> pc = "answered"

(* The request an origin is asked is the whole request: its body, no       *)
(* header that concerns the tunnel only, and lengths that agree with the   *)
(* body, unless the edge sent several Content-Lengths and a later one      *)
(* disagrees with the first: then the last one is passed on, and the one   *)
(* forward_http adds is still right (handle_proxy_stream, forward_http).   *)
RequestWhole ==
  \A a \in asked :
    /\ a.body = req.body \/ (pc # "read" /\ a.body = <<>>)
    /\ req.body # <<>> => LastOf(a.lengths) = Len(req.body)
    /\ \A i \in DOMAIN a.lengths :
         a.lengths[i] = Len(req.body) \/ \E j \in 2 .. Len(req.lengths) :
                                          a.lengths[i] = req.lengths[j]
    /\ DOMAIN a.fields \cap (HopByHop \cup Private) = {}

(* An answer that is neither 404 nor 502 is the origin's: its head came    *)
(* whole, and the body is all the origin wrote behind the head before it   *)
(* closed (forward_http, parse_http1_response).                            *)
AnswerIsOrigins ==
  \A a \in answer \ {NotFound, BadGateway} :
    /\ asked # {}
    /\ origin = "closed"
    /\ given >= HeadUnits
    /\ a.code = resp.code
    /\ a.fields = Serialized(resp.fields)
    /\ a.body = SubSeq(Wire(resp), HeadUnits + 1, given)

(* Whatever the origin does, the edge gets an answer, 502 if need be: the  *)
(* h2 stream is only reset if the edge cut it, the service is no URL, or   *)
(* the header lines of the answer do not fit (handle_proxy_stream).        *)
OriginFailuresAnswered ==
  pc = "failed" =>
    \/ stream = "cut"
    \/ rule # NoRule /\ ~Rewritable(rule)
    \/ ~FitsOneHeader(resp.fields)

(* A complete request is settled if origins close in the end: there is an  *)
(* answer or an error (forward_http).                                      *)
RequestSettled == (stream = "ended") ~> (Done \/ stream = "cut")

-----------------------------------------------------------------------------
(* What comments in the source say and the code does not do.  In each of   *)
(* them the edge has not cut the stream.                                   *)

Over == Done /\ stream # "cut"
ReadToEnd == Over /\ origin = "closed" /\ raw = Wire(resp)

(* origin.rs: "Handle status-only rules".                                  *)
StatusRulesHandled ==
  Over /\ rule \in Services /\ rule.kind = "status" =>
    \E a \in answer : a.code = StatusAnswer(rule.code).code

(* origin.rs: "Forward HTTP/1.1 request to the local service and return    *)
(* response": a sound answer the task has read to its end is returned.     *)
ResponseReturned == ReadToEnd /\ resp.sound => answer # {}
=============================================================================
