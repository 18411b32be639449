---------------------------- MODULE Registration ----------------------------
(***************************************************************************)
(* What the registration of a tunnel says: the parameters that             *)
(* rpc_register fills in through the generated builders, what an edge      *)
(* reads in them with the readers of the same schema, what it answers, and *)
(* what the client makes of that.  The program goes on from Startup.  When *)
(* a call gets through is in Tunnel; here each control stream is answered  *)
(* or breaks.                                                              *)
(***************************************************************************)
EXTENDS Startup, HandEncoder

CONSTANTS
  Version, Arch, Features,  \* the texts that the client says of itself
  Causes,         \* what an edge may say when it rejects a call
  Locations       \* the names of its places

IsText(t) == t \in Seq({t[i] : i \in DOMAIN t})

(* A tunnel has a secret, whatever form the token gives it; a connector id *)
(* is a UUID; and what the client says of itself, and the edge of its      *)
(* place, are texts.                                                       *)
ASSUME RegistrationAssumption ==
  /\ \A s \in Starts :
       LET token == s.args.token
       IN  /\ token.s.bytes # <<>>
           /\ IsText(token.a) /\ IsText(token.s.bytes) /\ IsText(token.t)
  /\ \A c \in Clients : IsText(c) /\ Len(c) = 16
  /\ IsText(Version) /\ IsText(Arch)
  /\ IsText(Features) /\ \A i \in DOMAIN Features : IsText(Features[i])
  /\ \A l \in Locations : IsText(l)

NoCall == [kind |-> "none"]
NoReply == [kind |-> "none"]
NoVerdict == [kind |-> "none", text |-> <<>>]
Creds == args.token

VARIABLES
  call,     \* the parameters of the call that waits for its answer
  reply,    \* what came back
  verdict,  \* history: what the edge decided of that call
  outcome   \* what rpc_register returned

vars == <<startVars, call, reply, verdict, outcome>>

Pending == [kind |-> "pending", text |-> <<>>]
Registered(location) == [kind |-> "registered", text |-> location]
Failed(why, text) == [kind |-> why, text |-> text]

Init ==
  /\ StartInit
  /\ call = NoCall
  /\ reply = NoReply
  /\ verdict = NoVerdict
  /\ outcome = Pending

-----------------------------------------------------------------------------
(* Filling in the parameters.                                              *)

New(b) == NewStruct(b.words, b.slots)
Put(s, b, name, content) == Set(s, b.fields[name], Pointee(b.fields[name].type, content))

(* The typed builders of the generated code, as rpc_register uses them.    *)
FillParams(account_tag, tunnel_secret, tunnel_id, client_id) ==
  LET auth == Put(Put(New(TunnelAuthBuilder), TunnelAuthBuilder,
                      "account_tag", account_tag),
                  TunnelAuthBuilder, "tunnel_secret", tunnel_secret)
      c1 == Put(New(ClientInfoBuilder), ClientInfoBuilder, "client_id", client_id)
      c2 == Put(c1, ClientInfoBuilder, "features", Features)
      c3 == Put(c2, ClientInfoBuilder, "version", Version)
      info == Put(c3, ClientInfoBuilder, "arch", Arch)
      opts == Put(Put(New(ConnectionOptionsBuilder), ConnectionOptionsBuilder,
                      "num_previous_attempts", {}),
                  ConnectionOptionsBuilder, "client", info)
      p1 == Put(New(RegisterConnectionParamsBuilder), RegisterConnectionParamsBuilder,
                "auth", auth)
      p2 == Put(p1, RegisterConnectionParamsBuilder, "tunnel_id", tunnel_id)
      p3 == Put(p2, RegisterConnectionParamsBuilder, "conn_index", {})
  IN  Put(p3, RegisterConnectionParamsBuilder, "options", opts)

(* fill_register_connection of capnp_params.rs, which writes at offsets of *)
(* its own and is not compiled in.                                         *)
FillRegisterConnection(account_tag, tunnel_secret, tunnel_id, client_id) ==
  LET At0(s, f, content) == Set(s, f, Pointee(f.type, content))
      auth == At0(At0(NewStruct(0, 2), Text(0), account_tag), Bytes(1), tunnel_secret)
      c1 == At0(At0(NewStruct(0, 4), Bytes(0), client_id), List(1), Features)
      info == At0(At0(c1, Text(2), Version), Text(3), Arch)
      opts == At0(At0(NewStruct(1, 2), U8(4), {}), Struct(0), info)
      p1 == At0(At0(NewStruct(1, 3), U8(0), {}), Struct(0), auth)
  IN  At0(At0(p1, Bytes(1), tunnel_id), Struct(2), opts)

-----------------------------------------------------------------------------
(* Reading.  A struct that is not there is read as one without fields.     *)

Sub(s, f) ==
  LET p == GetPointer(s, f) IN IF p.type = "struct" THEN p.content ELSE NewStruct(0, 0)
Content(s, f) == GetPointer(s, f).content

(* What an edge finds in the parameters of registerConnection.             *)
EdgeReads(params) ==
  LET auth == Sub(params, RegisterConnectionParamsReader.auth)
      opts == Sub(params, RegisterConnectionParamsReader.options)
      info == Sub(opts, ConnectionOptionsReader.client)
  IN  [account_tag |-> Content(auth, TunnelAuthReader.account_tag),
       tunnel_secret |-> Content(auth, TunnelAuthReader.tunnel_secret),
       tunnel_id |-> Content(params, RegisterConnectionParamsReader.tunnel_id),
       conn_index |-> GetNumber(params, RegisterConnectionParamsReader.conn_index),
       replace_existing |-> GetNumber(opts, ConnectionOptionsReader.replace_existing),
       compression |-> GetNumber(opts, ConnectionOptionsReader.compression_quality),
       attempts |-> GetNumber(opts, ConnectionOptionsReader.num_previous_attempts),
       origin_local_ip |-> Content(opts, ConnectionOptionsReader.origin_local_ip),
       client_id |-> Content(info, ClientInfoReader.client_id),
       features |-> Content(info, ClientInfoReader.features),
       version |-> Content(info, ClientInfoReader.version),
       arch |-> Content(info, ClientInfoReader.arch)]

(* What the token and the program mean to tell it.                         *)
Said ==
  [account_tag |-> Creds.a, tunnel_secret |-> SecretBytes(Creds.s),
   tunnel_id |-> Creds.t, conn_index |-> {}, replace_existing |-> {},
   compression |-> {}, attempts |-> {}, origin_local_ip |-> <<>>,
   client_id |-> client, features |-> Features, version |-> Version, arch |-> Arch]

-----------------------------------------------------------------------------
(* The client.                                                             *)

(* Mutant: every attempt has an id of its own.                             *)
ControlStreamNewIdMutant ==
  /\ pc = "ready"
  /\ call = NoCall
  /\ outcome.kind # "registered"
  /\ Creds.t # <<>>
  /\ \E id \in Clients :
       call' = FillParams(Creds.a, SecretBytes(Creds.s), Creds.t, id)
  /\ outcome' = Pending
  /\ UNCHANGED <<startVars, reply, verdict>>

(* The edge opens a control stream: handle_control_stream and the first    *)
(* half of rpc_register.  A tunnel id that is no UUID (<<>>) ends the      *)
(* connection before anything is sent.                                     *)
ControlStream ==
  /\ pc = "ready"
  /\ call = NoCall
  /\ outcome.kind # "registered"
  /\ IF Creds.t = <<>>
     THEN outcome' = Failed("bad_uuid", <<>>) /\ UNCHANGED call
     ELSE /\ call' = FillParams(Creds.a, SecretBytes(Creds.s), Creds.t, client)
          /\ outcome' = Pending
  /\ UNCHANGED <<startVars, reply, verdict>>

(* A text of a member of the union; one that is no text is "unknown".      *)
TextOf(response, f, sub) ==
  LET p == GetPointer(Sub(response, f), sub)
  IN  IF p = WrongType THEN <<"unknown">> ELSE p.content

(* Mutant: what is no error is taken for the details.                      *)
ResultMutant(results) ==
  LET response == Sub(results, RegisterConnectionResultsReader.result)
      error == ConnectionResponseReader.error
  IN  IF IsPresent(response, error)
      THEN Failed("rejected", TextOf(response, error, ConnectionErrorReader.cause))
      ELSE Registered(TextOf(response, ConnectionResponseReader.connection_details,
                             ConnectionDetailsReader.location_name))

(* What rpc_register makes of the results: an absent result or an absent   *)
(* member of the union is read as an empty struct.                         *)
Result(results) ==
  LET result == RegisterConnectionResultsReader.result
      response == Sub(results, result)
      error == ConnectionResponseReader.error
      details == ConnectionResponseReader.connection_details
  IN  IF GetPointer(results, result) = WrongType THEN Failed("get_result", <<>>)
      ELSE IF IsPresent(response, error)
      THEN IF GetPointer(response, error) = WrongType THEN Failed("error", <<>>)
           ELSE Failed("rejected", TextOf(response, error, ConnectionErrorReader.cause))
      ELSE IF ~IsPresent(response, details) THEN Failed("which", <<>>)
      ELSE IF GetPointer(response, details) = WrongType THEN Failed("details", <<>>)
      ELSE Registered(TextOf(response, details, ConnectionDetailsReader.location_name))

(* Mutant: the answer is not consumed.                                     *)
HandleReplyMutant ==
  /\ reply # NoReply
  /\ outcome' = IF reply.kind = "results" THEN Result(reply.results)
                ELSE Failed(reply.kind, <<>>)
  /\ call' = NoCall
  /\ UNCHANGED <<startVars, verdict, reply>>

(* The second half of rpc_register.  After an error the handler ends, and  *)
(* another control stream may follow; after a registration it waits for    *)
(* ever.                                                                   *)
HandleReply ==
  /\ reply # NoReply
  /\ outcome' = IF reply.kind = "results" THEN Result(reply.results)
                ELSE Failed(reply.kind, <<>>)
  /\ call' = NoCall
  /\ reply' = NoReply
  /\ UNCHANGED <<startVars, verdict>>

-----------------------------------------------------------------------------
(* The edge.  Its schema may be older or newer, so its structs may be      *)
(* shorter or longer than the client's.                                    *)

Results(response) == Set(NewStruct(0, 1), Struct(0), response)
Response(tag, member, words, slots) ==
  Pointee("struct", Set(SetNumber(NewStruct(words, slots), TagField, TagBits(tag)),
                        Struct(0), member))
Details(location, slots) ==
  LET s == NewStruct(1, slots)
  IN  Pointee("struct", IF slots < 2 THEN s ELSE Set(s, Text(1), Pointee("text", location)))
Error(cause_) ==
  Pointee("struct", Set(NewStruct(2, 1), Text(0), Pointee("text", cause_)))

NoStruct == Pointee("list", <<>>)
Waiting == call # NoCall /\ reply = NoReply

Answered(kind, text, results) ==
  /\ reply' = [kind |-> "results", results |-> results]
  /\ verdict' = [kind |-> kind, text |-> text]
  /\ UNCHANGED <<startVars, call, outcome>>

(* It accepts a call that names the account, the secret and the tunnel.    *)
EdgeAccepts ==
  /\ Waiting
  /\ LET read == EdgeReads(call)
     IN  /\ read.account_tag = Creds.a
         /\ read.tunnel_secret = Creds.s.bytes
         /\ read.tunnel_id = Creds.t
  /\ \E location \in Locations, slots \in 1 .. 3 :
       Answered("accepted", IF slots < 2 THEN <<>> ELSE location,
                Results(Response(1, Details(location, slots), 1, 1)))

(* It may reject any call, also without a cause, with a result that this   *)
(* schema does not know, with what is no struct, or with none.             *)
EdgeRejects ==
  /\ Waiting
  /\ \/ \E c \in Causes, words \in 1 .. 2, slots \in 1 .. 2 :
          Answered("rejected", c, Results(Response(0, Error(c), words, slots)))
     \/ Answered("rejected", <<>>, Results(Response(0, Null, 1, 1)))
     \/ Answered("unknown", <<>>, Results(Response(2, Null, 1, 1)))
     \/ \E tag \in 0 .. 1 :
          Answered("malformed", <<>>, Results(Response(tag, NoStruct, 1, 1)))
     \/ Answered("malformed", <<>>, Results(NoStruct))
     \/ Answered("empty", <<>>, Results(Null))

(* An exception instead of results, or the end of the stream.              *)
EdgeBreaks ==
  /\ Waiting
  /\ \E kind \in {"exception", "rpc_ended"} : reply' = [kind |-> kind]
  /\ verdict' = NoVerdict
  /\ UNCHANGED <<startVars, call, outcome>>

Next ==
  \/ StartNext /\ UNCHANGED <<call, reply, verdict, outcome>>
  \/ ControlStream \/ HandleReply
  \/ EdgeAccepts \/ EdgeRejects \/ EdgeBreaks

(* Nothing is assumed of the registration: connect_and_serve leaves the    *)
(* call in the send buffer (module Tunnel).                                *)
Spec == Init /\ [][Next]_vars /\ StartFairness

-----------------------------------------------------------------------------
TypeOK ==
  /\ StartTypeOK
  /\ call # NoCall => pc = "ready" /\ client # NoClient
  /\ reply.kind \in {"none", "results", "exception", "rpc_ended"}
  /\ reply # NoReply => call # NoCall
  /\ verdict.kind \in {"none", "accepted", "rejected", "unknown", "malformed", "empty"}
  /\ outcome.kind \in {"pending", "registered", "bad_uuid", "get_result", "error",
                       "rejected", "which", "details", "exception", "rpc_ended"}

(* Whatever the form of the token and its secret, an edge reads in every   *)
(* call exactly what the token says, or the empty secret, and zero or      *)
(* nothing in the fields that rpc_register leaves alone.  It cannot tell a *)
(* retry from a first attempt: the connector id is that of the run of the  *)
(* program, and there are never any previous attempts (rpc_register and    *)
(* the generated accessors of six structs).                                *)
EdgeReadsCreds == call # NoCall => EdgeReads(call) = Said

(* rpc_register succeeds if and only if the answer to this very call is    *)
(* the edge's acceptance, and returns the location the edge gave; an       *)
(* absent, unknown or malformed answer never counts, and the empty secret  *)
(* that stands for one that does not decode or is too short never gets     *)
(* that far (rpc_register, secret_bytes).                                  *)
RegisteredMeansAccepted ==
  call = NoCall =>
    /\ outcome.kind = "registered" <=> verdict.kind = "accepted"
    /\ outcome.kind = "registered" =>
         outcome.text = verdict.text /\ SecretDecodes(Creds.s)

-----------------------------------------------------------------------------
(* The code beside the generated one.                                      *)

(* What there is to read in the words of the parameters, from word root.   *)
HandReads(seg, root) ==
  LET params == StructAt(root, 1)
      auth == Follow(seg, params, RegisterConnectionParamsReader.auth)
      opts == Follow(seg, params, RegisterConnectionParamsReader.options)
      info == Follow(seg, opts, ConnectionOptionsReader.client)
  IN  [account_tag |-> ContentIn(seg, auth, TunnelAuthReader.account_tag),
       tunnel_secret |-> ContentIn(seg, auth, TunnelAuthReader.tunnel_secret),
       tunnel_id |-> ContentIn(seg, params, RegisterConnectionParamsReader.tunnel_id),
       conn_index |-> NumberIn(seg, params, RegisterConnectionParamsReader.conn_index),
       replace_existing |-> NumberIn(seg, opts, ConnectionOptionsReader.replace_existing),
       compression |-> NumberIn(seg, opts, ConnectionOptionsReader.compression_quality),
       attempts |-> NumberIn(seg, opts, ConnectionOptionsReader.num_previous_attempts),
       origin_local_ip |-> ContentIn(seg, opts, ConnectionOptionsReader.origin_local_ip),
       client_id |-> ContentIn(seg, info, ClientInfoReader.client_id),
       features |-> TextsIn(seg, info, ClientInfoReader.features),
       version |-> ContentIn(seg, info, ClientInfoReader.version),
       arch |-> ContentIn(seg, info, ClientInfoReader.arch)]

HandParams ==
  EncodeRegisterConnection(Creds.a, SecretBytes(Creds.s), Creds.t, {}, client,
                           Version, Arch, Features)
(* The call of build_call_msg: Message, Call and Payload of rpc.capnp.     *)
CallParams(seg) ==
  Follow(seg, Follow(seg, Follow(seg, StructAt(1, 1), Struct(0)), Struct(1)), Struct(0))
CallMethod(seg) ==
  LET c == Follow(seg, StructAt(1, 1), Struct(0))
  IN  [interface |-> seg[c.data + 1].id, number |-> NumberIn(seg, c, U16(2))]

(* The messages put together by hand in this state.                        *)
HandMessages == {HandParams, BuildCall({0}, HandParams), BuildBootstrap({})}
CallMade == call # NoCall /\ outcome = Pending

(* The three ways to write the parameters say the same, and the call put   *)
(* together by hand names the method that the generated client calls, for  *)
(* any lengths of the texts, the empty secret included (capnp_params.rs,   *)
(* encode_register_connection, build_call_msg).  The words are read from   *)
(* the struct that is meant to be the root.                                *)
EncodersAgree ==
  CallMade =>
    /\ EdgeReads(FillRegisterConnection(Creds.a, SecretBytes(Creds.s), Creds.t, client))
         = Said
    /\ LET params == HandParams
           message == BuildCall({0}, params)
       IN  /\ HandReads(params, 1) = Said
           /\ HandReads(message, CallParams(message).data) = Said
           /\ CallMethod(message)
                = [interface |-> RegistrationServer.id,
                   number |-> TagBits(RegistrationServer.requests.register_connection.number)]

(* What decode_connection_response makes of the answer.                    *)
HandDecoded ==
  DecodeConnectionResponse(
    WriteResponse(Sub(reply.results, RegisterConnectionResultsReader.result)))

(* decode_connection_response finds an acceptance where rpc_register does, *)
(* and nothing else.                                                       *)
DecodersAgree ==
  reply.kind = "results" /\ verdict.kind \in {"accepted", "rejected", "unknown"} =>
    (HandDecoded.ok <=> Result(reply.results).kind = "registered")

(* The code beside the generated one says and understands the same, roots  *)
(* and the names of places aside (capnp_params.rs, capnp_rpc.rs).          *)
HandCodeAgrees == EncodersAgree /\ DecodersAgree

-----------------------------------------------------------------------------
(* What comments in the source say and the code does not do.               *)

(* capnp_rpc.rs: "Root struct pointer (at word 0 of segment, points to     *)
(* root_word)", "0-based in our word array".  Word 0 of the array, where   *)
(* every root struct is, is word 1 of the segment.                         *)
RootsFound == CallMade => \A seg \in HandMessages : Target(seg, 0) = 1
=============================================================================
