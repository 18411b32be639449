# Verification of mini-cloudflared

TLA+ models of the tunnel client in `src/src`, the TLC runs that check them on small
instances and TLAPS proofs for every instance. The crate is a small Cloudflare Tunnel
client: it connects to an edge server, registers a tunnel over Cap'n Proto RPC on an
HTTP/2 stream the edge opens, and answers the requests the edge sends on further streams
by asking local origins.

## The system

| Component | State | Operations | Speaks to |
|---|---|---|---|
| reconnect loop (`tunnel.rs` `run_tunnel`) | address index, backoff | next attempt, pause, reset | accept loop (call and result) |
| accept loop (`connect_and_serve`) | the h2 connection | TCP, TLS, HTTP/2 handshakes, accept, end | awaits the control handler, spawns proxy tasks |
| control stream (`handle_control_stream`, `rpc_register`) | RPC system over the stream | 200, RegisterConnection, answer, wait for ever | edge, through `h2_stream.rs` |
| proxied request (`handle_proxy_stream`) | a detached task per request | lookup, drain, rewrite, dispatch, respond | ingress table, origin client |
| ingress table (`ingress.rs`) | rules behind a tokio `RwLock`, the file | load, validate, reload every 30 s, resolve | file system, request tasks |
| rule matching (`config.rs`) | none | `matches`, `status_code` | ingress table |
| h2 adapter (`h2_stream.rs`) | read buffer | poll_read, poll_write, flush, close | RPC system |
| origin client (`origin.rs`) | none | dispatch, HTTP/1 request and parse | request tasks |
| start of the program (`main.rs`, `run_tunnel`, `default_config_path`) | command line, configuration file in use | decode the token, find and load the file, resolve, draw an id | DNS, file system, reconnect loop |
| token and secret (`config.rs` `TokenCreds`) | none | `from_token`, `secret_bytes` | start, control stream |
| edge discovery (`edge.rs`) | none | resolve regions, fall back, shuffle | reconnect loop (once) |
| RPC messages (`tunnelrpc_capnp.rs`, generated) | a struct under construction | getters, setters, unions, calls, dispatch | control stream, edge |
| TCP proxy (`proxy.rs`) | two copies per connection | accept, copy, end | none (separate command) |
| hand-written Cap'n Proto (`capnp_rpc.rs`, `capnp_params.rs`) | segment under construction | allocate, write pointers, finish, decode | none: never called |

What is hard: the accept loop is the only thing that drives the connection and is itself
blocked while it awaits a handler; handlers outlive their connection; `drain_body` never
ends on an error; an origin may fail at every await of its client; the table is swapped
under concurrent lookups; the configuration file is read while somebody writes it; the
registration is a message of nested structs, each field of it a number in generated code,
read by a peer whose schema may be another. `PROJECT.json` lists the hazards line by line,
with the properties that cover them.

## The modules

### Tunnel

`Tunnel.tla` is `run_tunnel`, `connect_and_serve`, `handle_control_stream`, `rpc_register`
and the life of the tasks of `handle_proxy_stream`. `main` says where the main task
awaits: `"connect"`, `"handshake"` and `"accept"` are awaits of `connect_and_serve`,
`"control"` is the await of the control handler inside it, `"sleep"` the pause of
`run_tunnel`. `task[s]` is the handler of stream `s`.

The h2 connection and the edge are the environment. h2's server connection reads and
writes the socket only inside a poll of `accept`, so one poll is `ReadAll` and `FlushAll`:
`edge[s]` (what the edge sent) becomes `seen[s]` (what the program may read), and `out[s]`
goes from `"queued"` to `"flushed"`. An answer and the end of the connection that are read
in one poll leave either in `seen`, as the `select!` of `rpc_register` takes either. Each
stream is used once; a name that comes back on a later connection would be a new stream. A
request body and an RPC answer are reduced to the events the program tells apart.
`uuidValid` is a property of the token, chosen at the start.

The actions are named after the code: `TcpConnect`, `Handshake`, the four outcomes of an
accept (`AcceptPending`, `AcceptProxy`, `AcceptControl`, `AcceptClosed`), the handler's
(`RpcRegistered`, `RpcFailed`), the request task's (`DrainBody`, `Respond`), and `Wake`.
`ServedOk` and `ServedErr` are the two arms of the match in `run_tunnel`. `DrainBody` has
no action for a stream that was cut off: `data()` repeats the error and `drain_body`
ignores it, so the task spins (`Spinning`) and its worker thread is lost.

`IoInBackground` is a hypothesis, not a configuration of the program: it lets the
connection do I/O while the control handler waits. With it FALSE the model is the program
as it is; with it TRUE it shows what would hold, and what would still be wrong, if the
connection were driven by a task of its own. It only adds behaviours: `BackgroundIo` has
no fairness, and no liveness property rests on it.

### IngressRules, FirstMatchRouting, Ingress

`IngressRules.tla` holds `IngressRule::matches`, first-match lookup and `validate_rules`
as pure operators over label and character sequences. `FirstMatchRouting.tla` is the
promise: the table is always valid, replaced as a whole, and a request is routed in one
step. `Ingress.tla` is the implementation: the lock (`phase[t] = "scan"` is a held read
lock, `reload = "write"` a writer that waits), one `Examine` step per rule, the reload
task (`Load`, `Swap`) and an editor that may leave any cut-off text in the file (`Reads`).
It implements `FirstMatchRouting` with `route` defined by the lookups that are over.

`file` is what a read of the file parses to. A text cut before the service of a rule does
not parse, because `service` is the one field without a default; it counts as `<<>>`, like
an absent file. A rule whose service line comes first parses without its hostname and is
then a catch-all: the one way a torn file misroutes, and `TornReadSafe` names it. A
half-written JSON file never parses, which is the case `<<>>`.

### ProxyStream

`ProxyStream.tla` is one request from the end of the lookup to the response:
`handle_proxy_stream`, `drain_body`, `rewrite_uri`, `dispatch`, `forward_http`,
`parse_http1_response`, `serialize_headers`. Requests share nothing but the ingress
table, so one task is enough; `Tunnel` has many of them, without their data. `pc` is the
await the task is in: `"drain"`, `"connect"`, `"head"`, `"body"`, `"read"`. The edge may
cut the stream and the origin may close or break its connection at any point. Headers
are kept as the values of each name in order, `Content-Length` apart as numbers, bodies
as sequences of units. h2 checks the first `Content-Length` of a request against its
body and no other (`ProxyAssumption`); the last one is passed on (`LengthLines`).
`Respond` is the end of `handle_proxy_stream` with its three errors (`builder.body`,
`send_response`, `send_data`); every other error of the origin client ends in
`Respond(BadGateway)`.

### ByteStream, H2Reader, H2Writer, H2Stream

`ByteStream.tla` is the promise of one direction of a stream. `H2Reader.tla` is
`poll_read`: `ReadBuffer` hands out what is left over, `ReadFrame(m, k)` takes a frame of
`k` bytes into a buffer of `m`, `ReadEmptyFrame` is a frame without bytes, which comes out
as `Ok(0)`. h2's queue is kept as bytes and cut into frames when it is polled. What
`release_capacity` gives back is `released` until the connection is polled
(`WindowUpdate`), which may never be.
`H2Writer.tla` is `poll_write` and `poll_close` over h2's send buffer and the peer's
window. `H2Stream.tla` puts both on one stream, where a reset ends both directions. Reader
and writer each implement `ByteStream`; the reader only towards peers that send no empty
frames (`empties`), because `poll_read` takes such a frame for the end.

### StandaloneProxy

`StandaloneProxy.tla` is `run_proxy` and one `proxy_conn`. A byte goes through the receive
buffer, the buffer of `io::copy` and the send buffer. `CopyEnds` and `CopyFails` are the
ways out of `select!`; `Drop` is what closing the sockets does: the other direction's
bytes are gone, and a socket with unread bytes is reset instead of closed.

### Startup, Registration

`Startup.tla` is the program from its command line to the first connection: `main`, the
start of `run_tunnel`, `TokenCreds`, `default_config_path`, `resolve_edge_addrs`. `pc` is
where it is: `"search"` is between two `exists()`, `"load"` before the file is read,
`"resolve"` before the next region is looked up. Other programs change files at any of
these points (`EditConfig`), DNS answers anything or fails. `missing` keeps, for
`PreferredFileUsed`, the paths that had no file at some moment of the search. A base64
text is what the engines tell apart: its alphabet, its padding, blanks around it. The
addresses are a set, for which shuffling changes nothing.

`Registration.tla` goes on from there: `ControlStream` is `handle_control_stream` up to
the call, with every setter of `rpc_register` (`FillParams`); `HandleReply` and `Result`
are what it makes of the answer. The edge is the environment; `EdgeReads` uses the readers
of the same schema, and it accepts (`EdgeAccepts`), rejects, sends what this schema does
not know or what is no struct (`EdgeRejects`), throws an exception or goes away
(`EdgeBreaks`), with structs of an older or newer schema. When a call gets through at all
is in `Tunnel`, and that it never does is `NeverRegistered`; here a call may be delivered,
break or wait for ever, and nothing is promised about its end.

### HandEncoder

`HandEncoder.tla` is `capnp_rpc.rs`: a segment as a function from word numbers to words,
every `alloc_` and `set_` function as words laid over others (`##`), the texts of a list
one behind the other (`Places`), and the two decoders. Nothing of it is called by the
program. `Registration` compares the contents with the generated builders and readers, and
those of `fill_register_connection` of `capnp_params.rs` (`HandCodeAgrees`); that the root
pointers are not what their comments say is the run `client_root`.

### StructLayout, TunnelRpcSchema, RpcMessage

`StructLayout.tla` is what the generated accessors use of the capnp crate: a struct is the
set of the bits of its data section that are one and the contents of its pointer slots; a
field is a place in one of them. `TunnelRpcSchema.tla` is `tunnelrpc_capnp.rs`: for every
struct the places its Reader reads and those its Builder writes, each as in the code and
independent of the other, and for every interface its id, the method numbers of its Client
and the match of its `ServerDispatch`. `RpcMessage.tla` is one struct in use: `SetField`
and `InitGroup` in any order, by a peer of another schema too (`SetUnknown`, shorter and
longer structs), and `Send`, a call that carries it to a server of any interface.

## Checked with TLC

| Run | Instance | Shows |
|---|---|---|
| `tunnel_polled` | 1 control, 2 proxied streams, 2 workers, program as it is | `TypeOK`, `ResponseFollowsRequest`, `NeverRegistered`, `RequestAnswered`, `CloseNoticed` |
| `tunnel_reconnect` | 2 control streams, 3 addresses, 64 s, a tunnel id that may be no UUID, I/O in the background | `BackoffLaw`, `OneRegistration`, `RegisteredMeansConfirmed`, `EveryAddressTried` |
| `tunnel_queued` | 1 control stream, program as it is | violated: `QueuedIsFlushed` |
| `ingress` | 2 tasks, 2 requests, 3 configurations and all their torn reads | `TypeOK`, `EveryRequestRouted`, `TornReadSafe`, `RoutesAtomically`, `ConfigConverges`, `RequestResolved` |
| `proxy` | 5 requests, 4 services and none, 6 answers | `TypeOK`, `RequestWhole`, `AnswerIsOrigins`, `OriginFailuresAnswered`, `RequestSettled` |
| `proxy_headers` | an answer with two header lines | violated: `ResponseReturned` |
| `proxy_status` | a rule with `http_status:404` | violated: `StatusRulesHandled` |
| `h2_stream` | 6 bytes in, window 2, buffer 1; 2 bytes out, window 1 | `TypeOK`, `CreditConserved`, `MemoryBounded`, `IsByteStream`, `ReceivedIsRead`, `WriterIsByteStream` |
| `standalone` | 2 bytes each way, a copy buffer of 1 | `TypeOK`, `InOrder`, `FirstEndIsWhole`, `Relayed` |
| `client` | 40 tokens and secrets, 3^4 states of the files and one change, edges of three schemas | `TypeOK`, `ReadyIsSetUp`, `EdgeReadsCreds`, `RegisteredMeansAccepted`, `HandCodeAgrees`, `GetsReady` |
| `client_root` | one token | violated: `RootsFound` |
| `rpc_messages` | 33 structs, 5 interfaces, 3 setters in a row | `ReadBack`, `LayoutsSound`, `CallReachesMethod` |

Bounds. Two control streams are what a second registration needs; two requests are what
an order of responses, and a lost worker beside a working one, need. `FailCap` 8 lets
the backoff reach 64 s and stay there; `FailCapAssumption` says that it is large enough.
Two tasks and one reload task give every interleaving of readers and the writer that the
lock tells apart. The requests, services and answers of `proxy` differ in each thing the
code looks at: with and without body, length, a second length that is wrong, repeated
and non-ASCII headers; each kind of service; none, one or too many header lines, chunks,
garbage. In `h2_stream` the windows are smaller than the streams, the reader's buffer
smaller than its window, a write longer than the peer's, and six bytes are what the
memory bound of two windows needs to be reached. In `standalone` more is sent than the
copy buffer holds. In `client` a token or a secret has each of the 18 forms of a text,
the texts have lengths at which they with their NUL, or data, just fill a word or just
do not (7 and 8 characters), the secrets 31, 32 and 33 bytes, and the file that changes
may be any. In `rpc_messages` three setters (`MaxSets`) are what it takes to set a
member of a union, another, and a neighbour; a number is all zeros, one bit or all ones
(`Numbers`), which is what shows two fields that overlap. The runs in which the program
really hangs (`tunnel_polled`, `tunnel_queued`: the main task in the control handler,
the edge gone) turn deadlock checking off and say so, and so do those whose request,
stream, connection, program or message is over in the end.

Fairness. The tokio runtime polls a task that is ready and fires timers, so the program's
steps are weakly fair, but only while a worker thread is left (`Starved`). Nothing bounds
the TLS and HTTP/2 handshakes, so `Handshake` has no fairness, nor has the edge.
`TcpConnect` has: the kernel gives up. `OriginsAnswer` is an assumption about the
environment. The lock of tokio is first in, first out, so `Lock` is strongly fair: a
lookup behind a reload gets the lock before the next reload. `proxy` assumes that an
origin closes in the end, since nothing in `forward_http` has a timeout. `h2_stream`
assumes only that the RPC system polls its reader, and not that the connection is polled,
which is just what `tunnel_queued` shows the program not to do: what is written may never
leave and credit may never reach the peer, so neither has a liveness property. In `client`
`main` runs on and the resolver answers or gives up (`StartFairness`); nothing is assumed
of the registration. In `standalone` each copy of the `select!` is polled and the sides
read what they are sent.

## Proved with TLAPS

`TunnelProofs.tla`, for any sets of streams, addresses and workers: `TypeCorrect`,
`NothingRegisters`, `RegistrationConfirmed`, `SingleRegistration`,
`ResponsesFollowRequests`. The invariants are not inductive as they stand, so `IInv` adds
that queued streams are on the connection, have no handler and are queued once
(`QueueInv`); that a handler finds its stream cut when the connection is gone
(`StreamInv`); that h2 reads only what the edge sent and the edge answers only what was
flushed (`ReadInv`); that the origin is asked only for an ended request (`DrainInv`); and,
for `NothingRegisters`, that without background I/O the call stays queued and nothing is
read while the handler waits (`UnsentInv`): `main = "accept"` is needed to poll, and
`OneRegistration` keeps it apart from a registration in progress.

`PausesDouble` is `BackoffLaw` for any longest pause: `BackoffInv` adds that a sleep
follows an error, and `TwoTo[n + 1] = 2 * TwoTo[n]` comes from the recursive definition of
`TwoTo` (see below). `SentOnce` is an action property: what left the program or was
dropped stays so. It needs `WrittenInv`, that a request's handler writes with its last
step only.

Four theorems are about what never ends. `SpinsForEver`: a task that drains a stream that
was cut off spins for good, because the cut outlasts the connection (`CutInv`).
`StarvesForEver`: with finitely many streams, worker threads once lost stay lost.
`HandlerKeepsMain`: a handler that is registered, or whose stream was open when it began
and that nobody does I/O for (`Holds`), holds the main task for good, so that nothing is
accepted, the end of the connection is not noticed and no other attempt is made.
`QueuedForEver`: what is in the send buffer then never leaves it; it is the general form
of what the run `tunnel_queued` shows. `AddressesInTurn` is the step of
`EveryAddressTried` for any number of addresses: as long as attempts go on being made and
coming to an end, one at an address leads to one at the next. It assumes this of the
behaviour instead of fairness, so no ENABLED comes in.

`IngressProofs.tla`, for any configurations, requests and number of tasks: `TypeCorrect`,
`AllRequestsRouted` (a valid table ends in a rule that takes everything, and a scan has
not passed it), `AtomicRouting` (the refinement: a scan holds the lock, so what it passed
still does not match, and the step that finds a rule is the atomic `Route`), and
`TornReadsRouteAlike`. The existence of a first match comes from the least element of a
set of numbers.

`ProxyStreamProofs.tla`, for any requests, services and answers: `TypeCorrect`,
`WholeRequests`, `OriginAnswers`, `FailuresAnswered`. The invariant adds that the
drained body is a prefix of the request's and the bytes read one of the origin's answer
(`PrefixInv`), that the request has ended and is drained when the origin is asked
(`EndInv`), and which places have asked (`AskInv`). `WholeRequests` allows for lengths
that disagree with the body: they are those the edge sent after the one h2 checks.
`StatusRulesUnanswered` and `ManyHeadersUnanswered` say for every instance what the runs
`proxy_status` and `proxy_headers` find on theirs: rules with `http_status` or
`hello_world` are never answered, and an answer with more than one header line is never
passed on.

`H2ReaderProofs.tla`, for any bytes, window and buffer: `TypeCorrect`, `WindowConserved`,
`BoundedMemory`, `ReadsByteStream`. The argument is one equation, `sent = got \o buf \o
recv` (`OrderInv`); the rest is associativity. `H2WriterProofs.tla`: `WritesByteStream`,
from `sent = got \o queue` while the stream is not reset. `StreamReads` and `StreamWrites`
carry this over to `H2Stream`: no step of the stream is more than a step of each
direction, so its specification implies both.

`StandaloneProxyProofs.tla`: `TypeCorrect`, `RelaysInOrder`, `FirstIsWhole`. While the
task lives, what was sent is spread over the buffers in order (`RestIsHeld`); afterwards a
prefix of it is left (`RelayedIsPrefix`), the whole of it in the direction that ended
first (`FirstIsWritten`).

`RpcMessageProofs.tla`: `FieldsReadBack`, for any schema, numbers and contents and any
number of setters: if every layout is sound, every field reads back. `LayoutSound` is the
premise: fields inside their struct, no two on one bit or slot unless a union keeps them
apart, no number across a word. The steps are what one setter does to the field itself, to
a field elsewhere and to another member. `CallsReach`, for any interfaces whose tables of
methods agree (`InterfacesSound`): a call reaches the method it names. That this program's
own schema meets both premises is proved struct by struct and method by method, which
gives `SchemaLayoutsSound`, `SchemaReadsBack` and `SchemaCallsReach` without a premise
but that the constants are the tables of `TunnelRpcSchema`, as `MCRpcMessage` names them.

`ClientProofs.tla`, for any tokens, files, answers of DNS and edges: `TypeCorrect`,
`SetUpWhenReady`, `CallsSayWhatIsMeant`, `OnlyAcceptanceRegisters`. `ConfigInv` adds that
the search has found no file at the paths it has passed (`Seen`) and that a file that is
away meanwhile is `missing`, `AddrInv` that all answers so far were empty while it
resolves. `CallInv` says that a waiting call is
`FillParams` of the token, and `EdgeReadsParams` what its readers find in it, struct by
struct; that is what connects an acceptance with a secret that decodes. `AnswerInv` says
of a reply that is not yet handled that `Result` of it would be right; `ResponseResult` is
the lemma that goes through the tags and types an edge may send.

`HandCodeSaysTheSame` is `HandCodeAgrees` for any texts. What `EncodeRegisterConnection`
lays out is followed word by word: the texts of the features lie one behind the other
(`PlacesApart`), no text reaches into another or into a pointer (`PartsApart`), so every
pointer finds its text as it was written (`EncodedHolds`, `TextRead`) and the readers find
what the generated builders wrote (`HandReadsParams`). `CallBuilt` and `BootstrapRoot` are
the same for the two framed messages, with the root pointer one word off. For the decoder,
`DetailsWritten` says where the writer puts the details of an acceptance and
`AcceptanceDecoded` that the decoder looks elsewhere, in slots that hold no text. Two
theorems state what the code does against its comments: `RootsLeadToThemselves`, the
general form of `client_root`, and `PlaceNeverDecoded`.

Assumptions: only the ASSUMEs on the constants (`TunnelAssumption`, `FailCapAssumption`,
`IngressAssumption`, `ProxyAssumption`, `H2ReaderAssumption`, `H2StreamAssumption`,
`StandaloneAssumption`, `StartupAssumption`, `RegistrationAssumption`,
`RpcMessageAssumption`). `RegistrationAssumption` says that what the program handles as
texts are texts (`IsText`): the token's parts, the version, the features, the names of
places; and that a connector id has 16 bytes. `StarvesForEver` assumes finitely many
streams besides.

Induction over data. The library's induction theorems take an operator as a parameter,
which the provers cannot instantiate. Where a recursive function had to be unfolded
(`TwoTo`, and `Places`, the places of the features) the proofs use a set in place of the
predicate: `SetInduction` takes the least number outside the set, which exists by `WFMin`;
that the function exists at all is shown from prefixes of it, which agree
(`TwoToPrefix`, `PlacesExist`).

Only model-checked: the liveness properties (`RequestAnswered`, `CloseNoticed`,
`EveryAddressTried`, `ConfigConverges`, `RequestResolved`, `RequestSettled`,
`ReceivedIsRead`, `Relayed`, `GetsReady`), since fairness and ENABLED
are out of the prover's reach; of `EveryAddressTried` the step is proved, and not that
steps add up to every address, an induction over a temporal formula. Every safety
invariant and every refinement that a run checks is a theorem.

## Findings

* The control stream handler is awaited inside the accept loop (`tunnel.rs:113`), which
  alone drives the h2 connection. Its 200 response and its RegisterConnection call are
  never flushed, whatever `h2_stream.rs:78-79` says of h2. `NothingRegisters`,
  `HandlerKeepsMain` and `QueuedForEver` prove it for every instance.
* An answer with two header lines or more is never returned (`tunnel.rs:317`): they are
  joined with CR LF into one header value, which http refuses, and the stream is reset
  (`ManyHeadersUnanswered`).
* `http_status:404` and `hello_world` rules reset the stream (`tunnel.rs:298`):
  `rewrite_uri` wants a URL before `dispatch` can answer them (`StatusRulesUnanswered`).

* The root pointer that `finish` writes leads to itself: its offset is counted from word
  `root` (`capnp_rpc.rs:436-444`), and the pointer is a word of the segment too
  (`RootsLeadToThemselves`). Nothing calls it.

Met while modelling, in the models as the code has them, and without a run of their own:

* A registered handler never ends, "until GOAWAY" (`tunnel.rs:163`) or otherwise. The
  program does not get that far (`NothingRegisters`); over a connection that lets it,
  `HandlerKeepsMain` proves it, and `CloseNoticed` makes an exception of the handler.
* The TCP proxy cuts the answer short when the client ends its direction first
  (`proxy.rs:35`, `CopyEnds`, `Drop`).
* `read_text_ptr` is one word too far, and `decode_connection_response`, which promises
  the location (`capnp_rpc.rs:95`), looks for it in the response's own slots instead of
  the details' (`PlaceNeverDecoded`).
* The comments of `capnp_params.rs` (23-25) put the flag, the compression and the number
  of previous attempts at other places than the schema does (`ConnectionOptionsReader`),
  and the code writes the attempts where the comment says (`FillRegisterConnection`): they
  are zero, so nobody sees it.
* `~/.cloudflared/config.json` is looked for before `/etc/cloudflared/config.yaml`, and
  the comment above names only the two yaml files (`ingress.rs:64-71`, `DefaultPaths`):
  the order in `PreferredFileUsed` is the code's.
* A secret in the URL-safe alphabet with padding, or between blanks, becomes the empty
  one, though a token of that form is accepted (`config.rs:24-36`, `SecretDecodes`).
* `num_previous_attempts` is 0 in every call (`tunnel.rs:218`, `EdgeReadsCreds`).
* Only the Host header is looked at; a request with nothing but `:authority` is one for no
  host (`tunnel.rs:287`).
* A request's `content-length` is forwarded and a second one added (`origin.rs:57`,
  `LengthLines`). They disagree if the edge sent several and the last is not the first,
  which is the one h2 checks (`RequestWhole`).
* Of repeated request headers the last is forwarded (`tunnel.rs:303`, `Copied`).
* A chunked or truncated answer is passed on as it came (`origin.rs:92`, `Parsed`):
  `AnswerIsOrigins` says exactly that.
* An empty DATA frame ends `poll_read` (`h2_stream.rs:52`, `ReadEmptyFrame`).
* `print_rules` shows `host/path` for a path that is matched without that slash
  (`ingress.rs:119`, `config.rs:60`).

## Not modelled, and the plan

Written: every part of the table above. Of the implementation's lines that no definition
stands for, most are in the generated file: the encoded schema nodes and the introspection
functions that return parts of them, `Pipeline` types and the conversions between Reader,
Builder and dynamic values, which nothing calls and which hold no decision. Left out as
well:

* `rpc.rs` and `protocol.rs`, a JSON envelope from an earlier protocol and its types: no
  code calls them and there is no reader they could agree with.
* `cf_ca.rs`: constant certificates and their parsing, the same at every start; what a TLS
  handshake makes of them is one outcome of `Handshake`.
* `main.rs`: help texts and logging. Which command runs and what ends it is in `Startup`.
* The bytes of base64 and JSON, beyond whether they decode and how long the result is.
* `decode_connection_response` on words that are no response: the program never passes it
  any.
* Time: pauses are counted (`backoff`), not measured, and the reload task may run at any
  moment.

Next, in this order:

1. An abstract specification of the reconnect loop and of registration, and the proof that
   `Tunnel` implements it.
2. The composition of `ProxyStream` with `Ingress`: the rule of a request is the one that
   `resolve` returned, while the table moves on.
