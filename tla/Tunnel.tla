------------------------------- MODULE Tunnel -------------------------------
(***************************************************************************)
(* The tunnel client: the reconnect loop of run_tunnel, the accept loop of *)
(* connect_and_serve, the control stream handler that registers the tunnel *)
(* over RPC, and the life of the detached tasks that answer proxied        *)
(* requests.  The edge (the peer) and the h2 connection are the            *)
(* environment.                                                            *)
(*                                                                         *)
(* A stream is used once in a behaviour.  Of what flows on it the model    *)
(* keeps what the program can tell apart: for the direction from the edge, *)
(* edge[s] is what the edge has sent and seen[s] what h2 has read of it    *)
(* from the socket; for the other direction, out[s] says whether what the  *)
(* program wrote is still in h2's send buffer.                             *)
(***************************************************************************)
EXTENDS Integers, Sequences, FiniteSets

CONSTANTS
  ControlStreams,   \* streams whose upgrade header says "control-stream"
  ProxyStreams,     \* all the other streams: proxied requests
  NumAddrs,         \* number of edge addresses
  MaxBackoff,       \* longest pause between two attempts, in seconds (64)
  FailCap,          \* bound: the history variable fails stops counting here
  Workers,          \* worker threads of the tokio runtime
  IoInBackground    \* TRUE iff the connection does I/O while nobody polls it

ASSUME TunnelAssumption ==
  /\ ControlStreams \cap ProxyStreams = {}
  /\ NumAddrs \in Nat \ {0}
  /\ MaxBackoff \in Nat \ {0}
  /\ FailCap \in Nat \ {0}
  /\ Workers \in Nat \ {0}
  /\ IoInBackground \in BOOLEAN

(* 2^n, as a recursive function.                                           *)
TwoTo[n \in Nat] == IF n = 0 THEN 1 ELSE 2 * TwoTo[n - 1]

(* The history counts up to the longest pause.                             *)
ASSUME FailCapAssumption == TwoTo[FailCap - 1] >= MaxBackoff

Streams == ControlStreams \cup ProxyStreams
Addrs == 0 .. NumAddrs - 1

VARIABLES
  uuidValid, \* whether the token's tunnel id is a well-formed UUID; never changes
  main,      \* where the main task awaits
  addr,      \* index of the address this attempt uses
  backoff,   \* the pause after the next error
  fails,     \* history: attempts that returned Err since the last Ok
  live,      \* streams of the present connection
  queue,     \* opened streams accept has not returned yet, oldest first
  edge,      \* what the edge has sent on a stream
  seen,      \* what h2 has read of it
  closing,   \* how the edge is closing the connection
  task,      \* the handler of a stream
  out        \* what the handler wrote

retryVars == <<addr, backoff, fails>>
connVars == <<live, queue, closing>>
vars == <<uuidValid, main, addr, backoff, fails, live, queue, edge, seen, closing,
          task, out>>

MainStates == {"connect", "handshake", "accept", "control", "sleep"}
EdgeStates == {"idle", "open", "ended", "reset", "ok", "rejected"}
SeenStates == {"idle", "open", "ended", "cut", "ok", "rejected"}
ClosingStates == {"no", "goaway", "eof", "ioerr"}
TaskStates == {"none", "drain", "origin", "rpc", "registered", "done"}
OutStates == {"none", "queued", "flushed", "dropped"}

(* Every variable keeps to its type; the pause stays within 1 .. 64 s.     *)
TypeOK ==
  /\ uuidValid \in BOOLEAN
  /\ main \in MainStates
  /\ addr \in Addrs
  /\ backoff \in 1 .. MaxBackoff
  /\ fails \in 0 .. FailCap
  /\ live \in SUBSET Streams
  /\ queue \in Seq(Streams)
  /\ edge \in [Streams -> EdgeStates]
  /\ seen \in [Streams -> SeenStates]
  /\ closing \in ClosingStates
  /\ task \in [Streams -> TaskStates]
  /\ out \in [Streams -> OutStates]

Init ==
  /\ uuidValid \in BOOLEAN
  /\ main = "connect"
  /\ addr = 0
  /\ backoff = 1
  /\ fails = 0
  /\ live = {}
  /\ queue = <<>>
  /\ edge = [s \in Streams |-> "idle"]
  /\ seen = [s \in Streams |-> "idle"]
  /\ closing = "no"
  /\ task = [s \in Streams |-> "none"]
  /\ out = [s \in Streams |-> "none"]

Lesser(m, n) == IF m < n THEN m ELSE n

-----------------------------------------------------------------------------
(* The loop of run_tunnel.                                                 *)

NextAddr == addr' = (addr + 1) % NumAddrs

(* Mutant: the pause is never set back.                                    *)
ServedOkMutant ==
  /\ main' = "connect"
  /\ fails' = 0
  /\ NextAddr
  /\ UNCHANGED backoff

(* connect_and_serve returned Ok(()): start again at once.                 *)
ServedOk ==
  /\ main' = "connect"
  /\ backoff' = 1
  /\ fails' = 0
  /\ NextAddr

(* connect_and_serve returned Err: sleep for the present backoff.          *)
ServedErr ==
  /\ main' = "sleep"
  /\ fails' = Lesser(fails + 1, FailCap)
  /\ UNCHANGED <<addr, backoff>>

(* Mutants: the pause has no upper limit; an error keeps to its address.   *)
WakeUnboundedMutant ==
  /\ main = "sleep"
  /\ main' = "connect"
  /\ backoff' = 2 * backoff
  /\ NextAddr
  /\ UNCHANGED <<uuidValid, fails, connVars, edge, seen, task, out>>

WakeSameAddrMutant ==
  /\ main = "sleep"
  /\ main' = "connect"
  /\ backoff' = Lesser(2 * backoff, MaxBackoff)
  /\ UNCHANGED <<uuidValid, addr, fails, connVars, edge, seen, task, out>>

(* The sleep is over: the next pause is twice as long, up to MaxBackoff.   *)
Wake ==
  /\ main = "sleep"
  /\ main' = "connect"
  /\ backoff' = Lesser(2 * backoff, MaxBackoff)
  /\ NextAddr
  /\ UNCHANGED <<uuidValid, fails, connVars, edge, seen, task, out>>

(* TcpStream::connect resolves.                                            *)
TcpConnect ==
  /\ main = "connect"
  /\ \/ main' = "handshake" /\ UNCHANGED retryVars
     \/ ServedErr
  /\ UNCHANGED <<uuidValid, connVars, edge, seen, task, out>>

(* The TLS and the HTTP/2 handshake resolve.                               *)
Handshake ==
  /\ main = "handshake"
  /\ \/ main' = "accept" /\ UNCHANGED retryVars
     \/ ServedErr
  /\ UNCHANGED <<uuidValid, connVars, edge, seen, task, out>>

-----------------------------------------------------------------------------
(* One poll of the h2 connection, which is all the I/O there is: it reads  *)
(* everything the edge has sent and flushes everything that is queued.     *)

View(e) == IF e = "reset" THEN "cut" ELSE e

(* What is read before the end of the connection is not lost: a handler    *)
(* that finds its answer and the end of the stream at once takes either    *)
(* (the select! of rpc_register polls its branches in a random order).     *)
ReadAll ==
  \E heard \in SUBSET {c \in ControlStreams \cap live :
                         edge[c] \in {"ok", "rejected"} /\ seen[c] # "cut"} :
    seen' = [s \in Streams |->
               IF s \notin live THEN seen[s]
               ELSE IF closing \in {"eof", "ioerr"} /\ s \notin heard THEN "cut"
               ELSE View(edge[s])]

FlushedOut(s) ==
  IF s \in live /\ out[s] = "queued"
  THEN IF edge[s] = "reset" THEN "dropped" ELSE "flushed"
  ELSE out[s]

DroppedOut(s) == IF s \in live /\ out[s] = "queued" THEN "dropped" ELSE out[s]

FlushAll ==
  [s \in Streams |->
     IF closing \in {"eof", "ioerr"} THEN DroppedOut(s) ELSE FlushedOut(s)]

(* A stream that keeps a connection that got GOAWAY open.                  *)
Active(s) == s \in live /\ edge[s] # "reset" /\ task[s] # "done"

MayAccept ==
  /\ main = "accept"
  /\ \/ closing = "no"
     \/ closing = "goaway" /\ \E s \in Streams : Active(s)

(* The connection is dropped: every stream still on it is cut off.         *)
DropConnection ==
  /\ live' = {}
  /\ queue' = <<>>
  /\ closing' = "no"
  /\ seen' = [s \in Streams |-> IF s \in live THEN "cut" ELSE seen[s]]
  /\ UNCHANGED edge

(* Mutant: a connection without new streams is read but not flushed.       *)
AcceptPendingMutant ==
  /\ MayAccept
  /\ queue = <<>>
  /\ ReadAll
  /\ UNCHANGED <<uuidValid, main, retryVars, connVars, edge, task, out>>

(* h2.accept() finds no new stream and stays pending.                      *)
AcceptPending ==
  /\ MayAccept
  /\ queue = <<>>
  /\ ReadAll
  /\ out' = FlushAll
  /\ UNCHANGED <<uuidValid, main, retryVars, connVars, edge, task>>

(* h2.accept() returns a proxied request: a task of its own is spawned.    *)
AcceptProxy ==
  /\ MayAccept
  /\ queue # <<>>
  /\ Head(queue) \in ProxyStreams
  /\ ReadAll
  /\ out' = FlushAll
  /\ queue' = Tail(queue)
  /\ task' = [task EXCEPT ![Head(queue)] = "drain"]
  /\ UNCHANGED <<uuidValid, main, retryVars, live, closing, edge>>

(* Mutant: the handler is spawned, as those of proxied requests are.       *)
ControlStartsMutant(c) ==
  /\ edge[c] # "reset"
  /\ uuidValid
  /\ task' = [task EXCEPT ![c] = "rpc"]
  /\ out' = [FlushAll EXCEPT ![c] = "queued"]
  /\ queue' = Tail(queue)
  /\ ReadAll
  /\ UNCHANGED <<uuidValid, main, retryVars, live, closing, edge>>

(* h2.accept() returns a control stream: connect_and_serve awaits the      *)
(* handler.  It queues the 200 response, fails with the connection if the  *)
(* stream was reset or the tunnel id is no UUID, and otherwise queues the  *)
(* RegisterConnection call and awaits the answer.                          *)
ControlStarts(c) ==
  /\ edge[c] # "reset"
  /\ uuidValid
  /\ main' = "control"
  /\ task' = [task EXCEPT ![c] = "rpc"]
  /\ out' = [FlushAll EXCEPT ![c] = "queued"]
  /\ queue' = Tail(queue)
  /\ ReadAll
  /\ UNCHANGED <<uuidValid, retryVars, live, closing, edge>>

ControlRefused(c) ==
  /\ edge[c] = "reset" \/ ~uuidValid
  /\ ServedErr
  /\ task' = [task EXCEPT ![c] = "done"]
  /\ out' = [FlushAll EXCEPT ![c] = "dropped"]
  /\ DropConnection
  /\ UNCHANGED uuidValid

AcceptControl ==
  /\ MayAccept
  /\ queue # <<>>
  /\ Head(queue) \in ControlStreams
  /\ ControlStarts(Head(queue)) \/ ControlRefused(Head(queue))

(* Mutant: an I/O error of accept is ignored and the loop goes on.         *)
AcceptClosedMutant ==
  /\ main = "accept"
  /\ closing \in {"goaway", "eof"}
  /\ ~MayAccept
  /\ ServedOk
  /\ out' = FlushAll
  /\ DropConnection
  /\ UNCHANGED <<uuidValid, task>>

(* h2.accept() reports the end of the connection.  After GOAWAY and after  *)
(* end of file connect_and_serve returns Ok(()), after an I/O error Err.   *)
AcceptClosed ==
  /\ main = "accept"
  /\ closing # "no"
  /\ ~MayAccept
  /\ IF closing = "ioerr" THEN ServedErr ELSE ServedOk
  /\ out' = FlushAll
  /\ DropConnection
  /\ UNCHANGED <<uuidValid, task>>

-----------------------------------------------------------------------------
(* The control stream handler, which runs inside the main task.            *)

(* Hypothetical: a connection that a task of its own drives may do I/O     *)
(* while the main task awaits the handler.  h2's is driven by accept.  It  *)
(* only adds behaviours: nothing assumes that it ever happens.             *)
BackgroundIo ==
  /\ IoInBackground
  /\ main = "control"
  /\ ReadAll
  /\ out' = FlushAll
  /\ UNCHANGED <<uuidValid, main, retryVars, connVars, edge, task>>

(* Mutant: any answer counts, whichever member of the union it holds.      *)
RpcRegisteredMutant(c) ==
  /\ task[c] = "rpc"
  /\ seen[c] \in {"ok", "rejected"}
  /\ task' = [task EXCEPT ![c] = "registered"]
  /\ UNCHANGED <<uuidValid, main, retryVars, connVars, edge, seen, out>>

(* The edge accepted the registration: await pending(), for ever.          *)
RpcRegistered(c) ==
  /\ task[c] = "rpc"
  /\ seen[c] = "ok"
  /\ task' = [task EXCEPT ![c] = "registered"]
  /\ UNCHANGED <<uuidValid, main, retryVars, connVars, edge, seen, out>>

(* The edge rejected the registration, or the stream ended or broke: only  *)
(* a warning is logged, the handler returns Ok(()), its stream is dropped  *)
(* and connect_and_serve accepts again.                                    *)
RpcFailed(c) ==
  /\ task[c] = "rpc"
  /\ seen[c] \in {"rejected", "ended", "cut"}
  /\ main' = "accept"
  /\ task' = [task EXCEPT ![c] = "done"]
  /\ out' = [out EXCEPT ![c] = DroppedOut(c)]
  /\ UNCHANGED <<uuidValid, retryVars, connVars, edge, seen>>

-----------------------------------------------------------------------------
(* The tasks of handle_proxy_stream.                                       *)

(* Mutant: the first chunk is taken for the whole body.                    *)
DrainBodyMutant(s) ==
  /\ task[s] = "drain"
  /\ seen[s] \in {"open", "ended"}
  /\ task' = [task EXCEPT ![s] = "origin"]
  /\ UNCHANGED <<uuidValid, main, retryVars, connVars, edge, seen, out>>

(* drain_body reached the end of the request body.  There is no action for *)
(* a stream that was cut off: data() reports the same error again on every *)
(* call, drain_body ignores it and calls again, for ever.                  *)
DrainBody(s) ==
  /\ task[s] = "drain"
  /\ seen[s] = "ended"
  /\ task' = [task EXCEPT ![s] = "origin"]
  /\ UNCHANGED <<uuidValid, main, retryVars, connVars, edge, seen, out>>

(* The origin answered or failed.  The response is queued if the stream    *)
(* still takes one; if it does not, or no response could be built, the     *)
(* task ends without.                                                      *)
Respond(s) ==
  /\ task[s] = "origin"
  /\ task' = [task EXCEPT ![s] = "done"]
  /\ \/ seen[s] # "cut" /\ out' = [out EXCEPT ![s] = "queued"]
     \/ out' = [out EXCEPT ![s] = "dropped"]
  /\ UNCHANGED <<uuidValid, main, retryVars, connVars, edge, seen>>

-----------------------------------------------------------------------------
(* The edge.                                                               *)

Connected == main \in {"accept", "control"}
EdgeTalks(s) == Connected /\ s \in live /\ closing \in {"no", "goaway"}

EdgeOpens(s) ==
  /\ Connected
  /\ closing = "no"
  /\ edge[s] = "idle"
  /\ edge' = [edge EXCEPT ![s] = "open"]
  /\ live' = live \cup {s}
  /\ queue' = Append(queue, s)
  /\ UNCHANGED <<uuidValid, main, retryVars, seen, closing, task, out>>

(* The edge ends its side of the stream, or resets the stream.             *)
EdgeEnds(s) ==
  /\ EdgeTalks(s)
  /\ \/ edge[s] = "open" /\ edge' = [edge EXCEPT ![s] = "ended"]
     \/ edge[s] \in {"open", "ended"} /\ edge' = [edge EXCEPT ![s] = "reset"]
  /\ UNCHANGED <<uuidValid, main, retryVars, connVars, seen, task, out>>

(* The edge answers a RegisterConnection call that reached it.             *)
EdgeReplies(c) ==
  /\ EdgeTalks(c)
  /\ c \in ControlStreams
  /\ out[c] = "flushed"
  /\ edge[c] = "open"
  /\ \E r \in {"ok", "rejected"} : edge' = [edge EXCEPT ![c] = r]
  /\ UNCHANGED <<uuidValid, main, retryVars, connVars, seen, task, out>>

EdgeCloses ==
  /\ Connected
  /\ \/ closing = "no" /\ closing' \in {"goaway", "eof", "ioerr"}
     \/ closing = "goaway" /\ closing' \in {"eof", "ioerr"}
  /\ UNCHANGED <<uuidValid, main, retryVars, live, queue, edge, seen, task, out>>

-----------------------------------------------------------------------------
Poll == AcceptPending \/ AcceptProxy \/ AcceptControl \/ AcceptClosed

Main ==
  \/ Wake \/ TcpConnect \/ Handshake \/ Poll \/ BackgroundIo
  \/ \E c \in ControlStreams : RpcRegistered(c) \/ RpcFailed(c)

Tasks == \E s \in ProxyStreams : DrainBody(s) \/ Respond(s)

Edge ==
  \/ EdgeCloses
  \/ \E s \in Streams : EdgeOpens(s) \/ EdgeEnds(s)
  \/ \E c \in ControlStreams : EdgeReplies(c)

Next == Main \/ Tasks \/ Edge

Spec == Init /\ [][Next]_vars

(* A task that drains a stream that was cut off never gives its thread     *)
(* back.  Once every worker is lost to one, nobody turns the I/O driver    *)
(* and the timers any more.                                                *)
Spinning(s) == task[s] = "drain" /\ seen[s] = "cut"
Starved == Cardinality({s \in ProxyStreams : Spinning(s)}) >= Workers

(* Fairness.  While a worker is left the runtime polls every task that can *)
(* go on, timers fire, and TCP gives up connecting at last.  Nothing       *)
(* bounds the TLS and HTTP/2 handshakes, and the edge owes nothing.        *)
Fairness ==
  /\ WF_vars(~Starved /\ Wake)
  /\ WF_vars(~Starved /\ TcpConnect)
  /\ WF_vars(~Starved /\ Poll)
  /\ \A c \in ControlStreams :
       WF_vars(~Starved /\ (RpcRegistered(c) \/ RpcFailed(c)))
  /\ \A s \in ProxyStreams : WF_vars(~Starved /\ DrainBody(s))

(* The environment's part: origins answer or fail in the end.              *)
OriginsAnswer == \A s \in ProxyStreams : WF_vars(~Starved /\ Respond(s))

FairSpec == Spec /\ Fairness /\ OriginsAnswer

-----------------------------------------------------------------------------
(* Safety.                                                                 *)

Registering(c) == task[c] \in {"rpc", "registered"}

(* At most one control stream is being registered or is registered, and    *)
(* then the main task is in its handler: connect_and_serve awaits          *)
(* handle_control_stream instead of spawning it.                           *)
OneRegistration ==
  /\ \A c, d \in ControlStreams : Registering(c) /\ Registering(d) => c = d
  /\ main = "control" <=> \E c \in ControlStreams : Registering(c)

(* The client logs "Tunnel registered" only after its call reached the     *)
(* edge on this very connection and the edge answered with connection      *)
(* details (rpc_register and handle_control_stream).                       *)
RegisteredMeansConfirmed ==
  \A c \in ControlStreams :
    task[c] = "registered" => c \in live /\ out[c] = "flushed" /\ edge[c] = "ok"

(* A response is written only after the edge has sent the whole request    *)
(* body (drain_body runs before dispatch), and waits in the send buffer    *)
(* only while the request's own connection exists: a task that outlives    *)
(* its connection never answers on another one.                            *)
ResponseFollowsRequest ==
  \A s \in ProxyStreams :
    /\ out[s] \in {"queued", "flushed"} => edge[s] \in {"ended", "reset"}
    /\ out[s] = "queued" => s \in live

(* While only accept drives the connection, no registration ever succeeds: *)
(* connect_and_serve does not call accept while it awaits the handler, so  *)
(* the call is never sent.                                                 *)
NeverRegistered ==
  ~IoInBackground => \A c \in ControlStreams : task[c] # "registered"

(* The n-th error in a row is followed by a pause of 2^(n-1) seconds, at   *)
(* most MaxBackoff, and every Ok of connect_and_serve starts the series    *)
(* again (run_tunnel).                                                     *)
BackoffLaw ==
  LET n == IF main = "sleep" THEN fails - 1 ELSE fails
  IN  backoff = Lesser(TwoTo[n], MaxBackoff)

-----------------------------------------------------------------------------
(* Liveness.                                                               *)

(* If there is always another attempt, every address gets its turns again  *)
(* and again, whether attempts end in Ok or in Err (run_tunnel).           *)
EveryAddressTried ==
  []<>(main = "connect") =>
    \A a \in Addrs : []<>(main = "connect" /\ addr = a)

(* A request the edge has sent completely is answered, unless the stream   *)
(* is reset, the connection ends, no response can be built, the main task  *)
(* is in the control stream handler, or no worker thread is left           *)
(* (connect_and_serve, handle_proxy_stream, drain_body).                   *)
RequestAnswered ==
  \A s \in ProxyStreams :
    (s \in live /\ edge[s] = "ended") ~>
      \/ out[s] \in {"flushed", "dropped"}
      \/ edge[s] = "reset" \/ s \notin live \/ main = "control" \/ Starved

(* A connection the edge has closed is given up (h2.accept reports its end *)
(* to connect_and_serve), unless no worker thread is left or the main task *)
(* is in the control stream handler, where nobody reads the connection.    *)
CloseNoticed ==
  (Connected /\ closing \in {"eof", "ioerr"}) ~>
    ~Connected \/ Starved \/ main = "control"

-----------------------------------------------------------------------------
(* What comments in the source say and the code does not do.               *)

(* h2_stream.rs: send_data buffers, "This is safe and correct - h2 will    *)
(* flush when window opens".                                               *)
QueuedIsFlushed ==
  \A s \in Streams : (out[s] = "queued") ~> (out[s] # "queued")
=============================================================================
