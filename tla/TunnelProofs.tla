---------------------------- MODULE TunnelProofs ----------------------------
(***************************************************************************)
(* Proofs about Tunnel, for any sets of streams, any number of addresses   *)
(* and workers: type correctness, and the safety invariants that TLC       *)
(* checks on small instances, from one inductive invariant, IInv.          *)
(***************************************************************************)
EXTENDS Tunnel, WellFoundedInduction, FiniteSetTheorems, TLAPS

(* A stream waiting for accept is on the connection, has no handler yet    *)
(* and waits once.                                                         *)
QueueInv ==
  /\ \A i \in 1 .. Len(queue) : queue[i] \in live /\ task[queue[i]] = "none"
  /\ \A i, j \in 1 .. Len(queue) : queue[i] = queue[j] => i = j

(* A stream exists once the edge opened it, is written once it has a       *)
(* handler, and its handler finds it cut off once its connection is gone.  *)
StreamInv ==
  \A s \in Streams :
    /\ s \in live => edge[s] # "idle"
    /\ edge[s] = "idle" => task[s] = "none"
    /\ task[s] = "none" => out[s] = "none"
    /\ task[s] # "none" /\ s \notin live => seen[s] = "cut"

(* h2 reads only what the edge sent, and the edge answers only calls that  *)
(* reached it.                                                             *)
ReadInv ==
  \A s \in Streams :
    /\ seen[s] = "ok" => edge[s] = "ok"
    /\ seen[s] = "ended" => edge[s] \in {"ended", "reset"}
    /\ edge[s] \in {"ok", "rejected"} => s \in ControlStreams /\ out[s] = "flushed"

(* A request goes to the origin when the edge has ended it.                *)
DrainInv ==
  \A s \in ProxyStreams : task[s] = "origin" => edge[s] \in {"ended", "reset"}

(* The connection of a control stream in the handler is still there.       *)
HandlerInv == \A c \in ControlStreams : Registering(c) => c \in live

(* Without I/O in the background the call stays in the send buffer and     *)
(* nothing is read while the handler waits.                                *)
UnsentInv ==
  ~IoInBackground =>
    \A c \in ControlStreams : task[c] = "rpc" => out[c] = "queued" /\ seen[c] # "ok"

IInv ==
  /\ TypeOK /\ QueueInv /\ StreamInv /\ ReadInv /\ DrainInv /\ HandlerInv
  /\ UnsentInv /\ OneRegistration /\ RegisteredMeansConfirmed
  /\ ResponseFollowsRequest /\ NeverRegistered

-----------------------------------------------------------------------------
(* Type correctness.                                                       *)

(* What one poll of the connection makes of the two directions.            *)
LEMMA FlushType ==
  ASSUME TypeOK
  PROVE  FlushAll \in [Streams -> OutStates]
BY DEF TypeOK, FlushAll, FlushedOut, DroppedOut, OutStates

LEMMA ReadType ==
  ASSUME TypeOK, ReadAll
  PROVE  seen' \in [Streams -> SeenStates]
<1>1. \A s \in Streams : View(edge[s]) \in SeenStates
  BY DEF TypeOK, View, SeenStates, EdgeStates
<1> QED BY <1>1 DEF TypeOK, ReadAll, SeenStates

LEMMA RetryType ==
  ASSUME TypeOK, ServedOk \/ ServedErr
  PROVE  main' \in MainStates /\ addr' \in Addrs
         /\ backoff' \in 1 .. MaxBackoff /\ fails' \in 0 .. FailCap
BY TunnelAssumption
   DEF TypeOK, ServedOk, ServedErr, NextAddr, Addrs, Lesser, MainStates

LEMMA DropType ==
  ASSUME TypeOK, DropConnection
  PROVE  /\ live' \in SUBSET Streams
         /\ queue' \in Seq(Streams)
         /\ closing' \in ClosingStates
         /\ seen' \in [Streams -> SeenStates]
         /\ edge' \in [Streams -> EdgeStates]
BY DEF TypeOK, DropConnection, ClosingStates, SeenStates

LEMMA TypeStep ==
  ASSUME TypeOK, [Next]_vars
  PROVE  TypeOK'
<1> USE DEF TypeOK
<1>1. CASE Wake
  BY <1>1, TunnelAssumption
     DEF Wake, NextAddr, Addrs, Lesser, MainStates, connVars
<1>2. CASE TcpConnect
  BY <1>2, RetryType DEF TcpConnect, connVars, retryVars, MainStates
<1>3. CASE Handshake
  BY <1>3, RetryType DEF Handshake, connVars, retryVars, MainStates
<1>4. CASE AcceptPending
  BY <1>4, FlushType, ReadType DEF AcceptPending, connVars, retryVars
<1>5. CASE AcceptProxy
  BY <1>5, FlushType, ReadType DEF AcceptProxy, retryVars, TaskStates
<1>6. CASE AcceptControl
  <2> DEFINE c == Head(queue)
  <2>1. c \in Streams /\ c \in ControlStreams
    BY <1>6 DEF AcceptControl
  <2>2. CASE ControlStarts(c)
    BY <1>6, <2>1, <2>2, FlushType, ReadType
       DEF AcceptControl, ControlStarts, retryVars, MainStates, TaskStates, OutStates
  <2>3. CASE ControlRefused(c)
    <3>1. /\ task' \in [Streams -> TaskStates]
          /\ out' \in [Streams -> OutStates]
      BY <2>1, <2>3, FlushType DEF ControlRefused, TaskStates, OutStates
    <3> QED BY <2>3, <3>1, RetryType, DropType DEF ControlRefused
  <2> QED BY <1>6, <2>2, <2>3 DEF AcceptControl
<1>7. CASE AcceptClosed
  BY <1>7, FlushType, RetryType, DropType DEF AcceptClosed
<1>8. CASE BackgroundIo
  BY <1>8, FlushType, ReadType DEF BackgroundIo, connVars, retryVars
<1>9. ASSUME NEW c \in ControlStreams, RpcRegistered(c) PROVE TypeOK'
  BY <1>9 DEF RpcRegistered, connVars, retryVars, TaskStates
<1>10. ASSUME NEW c \in ControlStreams, RpcFailed(c) PROVE TypeOK'
  BY <1>10 DEF RpcFailed, DroppedOut, connVars, retryVars, TaskStates,
               MainStates, OutStates, Streams
<1>11. ASSUME NEW s \in ProxyStreams, DrainBody(s) PROVE TypeOK'
  BY <1>11 DEF DrainBody, connVars, retryVars, TaskStates
<1>12. ASSUME NEW s \in ProxyStreams, Respond(s) PROVE TypeOK'
  BY <1>12 DEF Respond, connVars, retryVars, TaskStates, OutStates
<1>13. CASE EdgeCloses
  BY <1>13 DEF EdgeCloses, retryVars, ClosingStates
<1>14. ASSUME NEW s \in Streams, EdgeOpens(s) PROVE TypeOK'
  BY <1>14 DEF EdgeOpens, retryVars, EdgeStates
<1>15. ASSUME NEW s \in Streams, EdgeEnds(s) PROVE TypeOK'
  BY <1>15 DEF EdgeEnds, connVars, retryVars, EdgeStates
<1>16. ASSUME NEW c \in ControlStreams, EdgeReplies(c) PROVE TypeOK'
  BY <1>16 DEF EdgeReplies, connVars, retryVars, EdgeStates
<1>17. CASE UNCHANGED vars
  BY <1>17 DEF vars
<1> QED
  BY <1>1, <1>2, <1>3, <1>4, <1>5, <1>6, <1>7, <1>8, <1>9, <1>10, <1>11,
     <1>12, <1>13, <1>14, <1>15, <1>16, <1>17 DEF Next, Main, Poll, Tasks, Edge

(* Every variable of the client keeps to its type, and the pause between   *)
(* two attempts stays within 1 .. MaxBackoff (run_tunnel).                 *)
THEOREM TypeCorrect == Spec => []TypeOK
<1>1. Init => TypeOK
  BY TunnelAssumption
     DEF Init, TypeOK, Addrs, MainStates, EdgeStates, SeenStates, ClosingStates,
         TaskStates, OutStates
<1>2. TypeOK /\ [Next]_vars => TypeOK'
  BY TypeStep
<1> QED BY <1>1, <1>2, PTL DEF Spec

-----------------------------------------------------------------------------
(* The safety invariants.                                                  *)

(* A poll writes only what is queued and empties the send buffer.          *)
LEMMA FlushEffect ==
  ASSUME TypeOK, NEW s \in Streams
  PROVE  /\ out[s] # "queued" => FlushAll[s] = out[s]
         /\ s \notin live => FlushAll[s] = out[s]
         /\ s \in live /\ out[s] = "queued" => FlushAll[s] \in {"flushed", "dropped"}
BY DEF TypeOK, FlushAll, FlushedOut, DroppedOut

(* A poll reads what the edge sent on the streams of the connection.       *)
LEMMA ReadEffect ==
  ASSUME TypeOK, ReadAll, NEW s \in Streams
  PROVE  /\ s \notin live => seen'[s] = seen[s]
         /\ s \in live => seen'[s] \in {"cut", edge[s]}
BY DEF TypeOK, ReadAll, View

LEMMA DropEffect ==
  ASSUME TypeOK, DropConnection, NEW s \in Streams
  PROVE  /\ live' = {} /\ queue' = <<>> /\ edge' = edge
         /\ s \notin live => seen'[s] = seen[s]
         /\ s \in live => seen'[s] = "cut"
BY DEF TypeOK, DropConnection

(* The stream accept returns has no handler and leaves the queue for good. *)
LEMMA HeadEffect ==
  ASSUME TypeOK, QueueInv, queue # <<>>
  PROVE  /\ Head(queue) \in live /\ task[Head(queue)] = "none"
         /\ \A i \in 1 .. Len(Tail(queue)) :
              Tail(queue)[i] \in live /\ task[Tail(queue)[i]] = "none"
              /\ Tail(queue)[i] # Head(queue)
         /\ \A i, j \in 1 .. Len(Tail(queue)) :
              Tail(queue)[i] = Tail(queue)[j] => i = j
BY DEF TypeOK, QueueInv

(* Outside the handler no control stream is being registered.              *)
LEMMA NotRegistering ==
  ASSUME OneRegistration, main # "control"
  PROVE  \A c \in ControlStreams : ~Registering(c)
BY DEF OneRegistration

(* A step that only moves the main task between states in which it does    *)
(* not hold the handler.                                                   *)
LEMMA MainStep ==
  ASSUME IInv, TypeOK', UNCHANGED <<live, queue, edge, seen, task, out>>,
         main' = "control" <=> main = "control"
  PROVE  IInv'
BY DEF IInv, QueueInv, StreamInv, ReadInv, DrainInv, HandlerInv, UnsentInv,
       OneRegistration, RegisteredMeansConfirmed, ResponseFollowsRequest,
       NeverRegistered, Registering

(* A poll that neither accepts a stream nor closes.                        *)
LEMMA PollStep ==
  ASSUME IInv, TypeOK', ReadAll, out' = FlushAll,
         UNCHANGED <<main, live, queue, edge, task>>,
         IoInBackground \/ main # "control"
  PROVE  IInv'
<1> USE DEF IInv
<1>1. QueueInv'
  BY DEF QueueInv
<1>2. StreamInv' /\ ReadInv'
  BY FlushEffect, ReadEffect DEF StreamInv, ReadInv
<1>3. DrainInv' /\ HandlerInv' /\ OneRegistration' /\ NeverRegistered'
  BY DEF DrainInv, HandlerInv, OneRegistration, NeverRegistered, Registering
<1>4. UnsentInv'
  BY NotRegistering, TunnelAssumption DEF UnsentInv, Registering
<1>5. RegisteredMeansConfirmed'
  BY FlushEffect DEF RegisteredMeansConfirmed, TypeOK, Streams
<1>6. ResponseFollowsRequest'
  BY FlushEffect DEF ResponseFollowsRequest, TypeOK, Streams
<1> QED BY <1>1, <1>2, <1>3, <1>4, <1>5, <1>6

(* A step that ends the connection outside the handler.                    *)
LEMMA DropStep ==
  ASSUME IInv, TypeOK', DropConnection, main # "control", main' # "control",
         \A s \in Streams :
           \/ task'[s] = task[s] /\ out'[s] = FlushAll[s]
           \/ task[s] = "none" /\ task'[s] = "done" /\ out'[s] = "dropped" /\ s \in live
  PROVE  IInv'
<1> USE DEF IInv
<1>1. QueueInv'
  BY DEF QueueInv, DropConnection
<1>2. StreamInv' /\ ReadInv'
  BY FlushEffect, DropEffect DEF StreamInv, ReadInv
<1>3. \A c \in ControlStreams : ~Registering(c) /\ ~Registering(c)'
  BY NotRegistering DEF Registering, Streams
<1>4. DrainInv'
  BY DEF DrainInv, DropConnection, Streams
<1>5. HandlerInv' /\ OneRegistration' /\ NeverRegistered' /\ UnsentInv'
      /\ RegisteredMeansConfirmed'
  BY <1>3 DEF HandlerInv, OneRegistration, NeverRegistered, UnsentInv,
              RegisteredMeansConfirmed, Registering
<1>6. ResponseFollowsRequest'
  BY FlushEffect, DropEffect DEF ResponseFollowsRequest, TypeOK, Streams
<1> QED BY <1>1, <1>2, <1>4, <1>5, <1>6

(* accept takes the head of the queue and hands it to a handler.           *)
LEMMA AcceptStep ==
  ASSUME IInv, TypeOK', ReadAll, queue # <<>>, main = "accept",
         queue' = Tail(queue), UNCHANGED <<live, edge>>,
         NEW t \in {"drain", "rpc"},
         task' = [task EXCEPT ![Head(queue)] = t],
         IF t = "rpc"
         THEN /\ Head(queue) \in ControlStreams
              /\ main' = "control"
              /\ out' = [FlushAll EXCEPT ![Head(queue)] = "queued"]
         ELSE /\ Head(queue) \in ProxyStreams
              /\ main' = "accept"
              /\ out' = FlushAll
  PROVE  IInv'
<1> DEFINE h == Head(queue)
<1> USE DEF IInv
<1>1. h \in Streams /\ h \in live /\ task[h] = "none" /\ out[h] = "none"
  BY HeadEffect DEF Streams, StreamInv
<1>2. edge[h] \notin {"ok", "rejected"} /\ seen'[h] # "ok"
  BY <1>1, ReadEffect DEF ReadInv
<1>3. \A c \in ControlStreams : ~Registering(c)
  BY NotRegistering
<1>4. \A s \in Streams : s # h => task'[s] = task[s] /\ out'[s] = FlushAll[s]
  BY <1>1, FlushType DEF TypeOK
<1>5. task'[h] = t /\ out'[h] = IF t = "rpc" THEN "queued" ELSE "none"
  BY <1>1, FlushType, FlushEffect DEF TypeOK
<1>6. QueueInv'
  BY <1>1, <1>4, HeadEffect DEF QueueInv, TypeOK
<1>7. StreamInv' /\ ReadInv'
  BY <1>1, <1>2, <1>4, <1>5, FlushEffect, ReadEffect DEF StreamInv, ReadInv
<1>8. DrainInv'
  BY <1>4, <1>5 DEF DrainInv, Streams
<1>9. HandlerInv' /\ OneRegistration' /\ NeverRegistered' /\ UnsentInv'
      /\ RegisteredMeansConfirmed'
  BY <1>1, <1>2, <1>3, <1>4, <1>5, TunnelAssumption
     DEF HandlerInv, OneRegistration, NeverRegistered, UnsentInv,
         RegisteredMeansConfirmed, Registering, Streams
<1>10. ResponseFollowsRequest'
  BY <1>1, <1>4, <1>5, FlushEffect, TunnelAssumption
     DEF ResponseFollowsRequest, Streams
<1> QED BY <1>6, <1>7, <1>8, <1>9, <1>10

(* The handler of a control stream or of a request goes on.                *)
LEMMA HandlerStep ==
  ASSUME IInv, TypeOK', NEW s \in Streams,
         \/ s \in ControlStreams /\ (RpcRegistered(s) \/ RpcFailed(s))
         \/ s \in ProxyStreams /\ (DrainBody(s) \/ Respond(s))
  PROVE  IInv'
<1> USE DEF IInv
<1>1. /\ UNCHANGED <<live, queue, edge, seen>>
      /\ task[s] # "none" /\ task'[s] # "none"
      /\ \A r \in Streams : r # s => task'[r] = task[r] /\ out'[r] = out[r]
  BY DEF RpcRegistered, RpcFailed, DrainBody, Respond, connVars, TypeOK
<1>2. QueueInv'
  BY <1>1 DEF QueueInv, TypeOK
<1>3. StreamInv'
  BY <1>1 DEF StreamInv, TypeOK
<1>4. CASE s \in ControlStreams /\ (RpcRegistered(s) \/ RpcFailed(s))
  <2>1. Registering(s) /\ main = "control" /\ (\A c \in ControlStreams : Registering(c) => c = s)
    BY <1>4 DEF RpcRegistered, RpcFailed, Registering, OneRegistration
  <2>2. \/ task'[s] = "registered" /\ out'[s] = out[s] /\ main' = main /\ seen[s] = "ok"
        \/ task'[s] = "done" /\ main' = "accept"
           /\ (out'[s] = out[s] \/ (out[s] = "queued" /\ out'[s] = "dropped"))
    <3>1. CASE RpcRegistered(s)
      BY <3>1 DEF RpcRegistered, TypeOK
    <3>2. CASE RpcFailed(s)
      BY <3>2 DEF RpcFailed, DroppedOut, TypeOK
    <3> QED BY <1>4, <3>1, <3>2
  <2>3. ReadInv' /\ DrainInv'
    BY <1>1, <2>2, TunnelAssumption DEF ReadInv, DrainInv, Streams
  <2>4. HandlerInv' /\ OneRegistration'
    BY <1>1, <1>4, <2>1, <2>2 DEF HandlerInv, OneRegistration, Registering, Streams
  <2>5. UnsentInv' /\ NeverRegistered'
    <3>1. ~IoInBackground => task'[s] = "done"
      BY <1>4, <2>2 DEF UnsentInv, RpcRegistered, RpcFailed
    <3> QED BY <1>1, <3>1 DEF UnsentInv, NeverRegistered, Streams
  <2>6. RegisteredMeansConfirmed'
    BY <1>1, <1>4, <2>1, <2>2
       DEF RegisteredMeansConfirmed, HandlerInv, ReadInv, Registering, Streams
  <2>7. ResponseFollowsRequest'
    BY <1>1, <1>4, TunnelAssumption DEF ResponseFollowsRequest, Streams
  <2> QED BY <1>2, <1>3, <2>3, <2>4, <2>5, <2>6, <2>7
<1>5. CASE s \in ProxyStreams /\ (DrainBody(s) \/ Respond(s))
  <2>1. main' = main /\ \A c \in ControlStreams : task'[c] = task[c] /\ out'[c] = out[c]
    BY <1>1, <1>5, TunnelAssumption DEF DrainBody, Respond, Streams
  <2>2. edge[s] \in {"ended", "reset"} /\ (out'[s] = "queued" => s \in live)
        /\ (out'[s] = "flushed" => out[s] = "flushed")
    BY <1>1, <1>5 DEF DrainBody, Respond, ReadInv, DrainInv, StreamInv,
                      ResponseFollowsRequest, TypeOK
  <2>3. ReadInv' /\ DrainInv'
    BY <1>1, <2>1, <2>2 DEF ReadInv, DrainInv, Streams
  <2>4. HandlerInv' /\ OneRegistration' /\ UnsentInv' /\ NeverRegistered'
        /\ RegisteredMeansConfirmed'
    BY <1>1, <2>1 DEF HandlerInv, OneRegistration, UnsentInv, NeverRegistered,
                      RegisteredMeansConfirmed, Registering
  <2>5. ResponseFollowsRequest'
    BY <1>1, <2>2 DEF ResponseFollowsRequest, Streams
  <2> QED BY <1>2, <1>3, <2>3, <2>4, <2>5
<1> QED BY <1>4, <1>5

(* The edge opens, ends, resets or answers a stream.                       *)
LEMMA EdgeStep ==
  ASSUME IInv, TypeOK', NEW s \in Streams,
         \/ EdgeOpens(s)
         \/ EdgeEnds(s)
         \/ s \in ControlStreams /\ EdgeReplies(s)
  PROVE  IInv'
<1> USE DEF IInv
<1>1. /\ UNCHANGED <<main, seen, task, out>>
      /\ edge'[s] # "idle"
      /\ \A r \in Streams : r # s => edge'[r] = edge[r]
      /\ \A r \in Streams : r # s => (r \in live' <=> r \in live)
      /\ s \in live' /\ live \subseteq live'
  BY DEF EdgeOpens, EdgeEnds, EdgeReplies, EdgeTalks, connVars, TypeOK
<1>2. \/ edge'[s] \in {"open", "ended", "reset"} /\ edge[s] \in {"idle", "open", "ended"}
      \/ edge'[s] \in {"ok", "rejected"} /\ edge[s] = "open"
         /\ s \in ControlStreams /\ out[s] = "flushed"
  BY DEF EdgeOpens, EdgeEnds, EdgeReplies, TypeOK
<1>3. edge[s] = "ended" => edge'[s] = "reset"
  BY DEF EdgeOpens, EdgeEnds, EdgeReplies, TypeOK
<1>4. QueueInv'
  <2>1. CASE EdgeOpens(s)
    <3>1. s \notin live /\ task[s] = "none" /\ live' = live \cup {s} /\ task' = task
      BY <2>1 DEF EdgeOpens, StreamInv
    <3>2. /\ Len(queue') = Len(queue) + 1 /\ queue'[Len(queue')] = s
          /\ \A i \in 1 .. Len(queue) : queue'[i] = queue[i]
      BY <2>1 DEF EdgeOpens, TypeOK
    <3>3. Len(queue) \in Nat
      BY DEF TypeOK
    <3> QED BY <3>1, <3>2, <3>3 DEF QueueInv
  <2>2. CASE EdgeEnds(s) \/ EdgeReplies(s)
    BY <2>2 DEF EdgeEnds, EdgeReplies, connVars, QueueInv
  <2> QED BY <2>1, <2>2
<1>5. StreamInv' /\ ReadInv'
  BY <1>1, <1>2, <1>3 DEF StreamInv, ReadInv
<1>6. DrainInv' /\ HandlerInv' /\ OneRegistration' /\ UnsentInv' /\ NeverRegistered'
  BY <1>1, <1>2, <1>3
     DEF DrainInv, HandlerInv, OneRegistration, UnsentInv, NeverRegistered,
         Registering, Streams
<1>7. RegisteredMeansConfirmed' /\ ResponseFollowsRequest'
  BY <1>1, <1>2, <1>3 DEF RegisteredMeansConfirmed, ResponseFollowsRequest, Streams
<1> QED BY <1>4, <1>5, <1>6, <1>7

LEMMA IInvStep ==
  ASSUME IInv, [Next]_vars
  PROVE  IInv'
<1>0. TypeOK /\ TypeOK'
  BY TypeStep DEF IInv
<1>1. CASE Wake \/ TcpConnect \/ Handshake \/ EdgeCloses \/ UNCHANGED vars
  <2>1. UNCHANGED <<live, queue, edge, seen, task, out>>
        /\ (main' = "control" <=> main = "control")
    BY <1>1 DEF Wake, TcpConnect, Handshake, EdgeCloses, ServedErr, connVars, vars
  <2> QED BY <1>0, <2>1, MainStep
<1>2. CASE AcceptPending \/ BackgroundIo
  BY <1>0, <1>2, PollStep DEF AcceptPending, BackgroundIo, MayAccept, connVars
<1>3. CASE AcceptProxy
  BY <1>0, <1>3, AcceptStep DEF AcceptProxy, MayAccept
<1>4. CASE AcceptControl
  <2> DEFINE c == Head(queue)
  <2>1. c \in ControlStreams /\ c \in Streams /\ queue # <<>> /\ main = "accept"
    BY <1>4 DEF AcceptControl, MayAccept, Streams
  <2>2. CASE ControlStarts(c)
    BY <1>0, <2>1, <2>2, AcceptStep DEF ControlStarts
  <2>3. CASE ControlRefused(c)
    <3>1. c \in live /\ task[c] = "none"
      BY <1>0, <2>1, HeadEffect DEF IInv
    <3>2. \A s \in Streams :
            \/ task'[s] = task[s] /\ out'[s] = FlushAll[s]
            \/ task[s] = "none" /\ task'[s] = "done" /\ out'[s] = "dropped" /\ s \in live
      BY <1>0, <2>1, <2>3, <3>1, FlushType DEF ControlRefused, TypeOK
    <3> QED BY <1>0, <2>1, <2>3, <3>2, DropStep DEF ControlRefused, ServedErr
  <2> QED BY <1>4, <2>2, <2>3 DEF AcceptControl
<1>5. CASE AcceptClosed
  BY <1>0, <1>5, DropStep DEF AcceptClosed, ServedOk, ServedErr
<1>6. CASE \/ \E c \in ControlStreams : RpcRegistered(c) \/ RpcFailed(c)
           \/ Tasks
  BY <1>0, <1>6, HandlerStep DEF Tasks, Streams
<1>7. CASE \/ \E s \in Streams : EdgeOpens(s) \/ EdgeEnds(s)
           \/ \E c \in ControlStreams : EdgeReplies(c)
  BY <1>0, <1>7, EdgeStep DEF Streams
<1> QED
  BY <1>1, <1>2, <1>3, <1>4, <1>5, <1>6, <1>7 DEF Next, Main, Poll, Edge

LEMMA IInvInit ==
  ASSUME Init
  PROVE  IInv
<1>1. TypeOK
  BY TunnelAssumption
     DEF Init, TypeOK, Addrs, MainStates, EdgeStates, SeenStates, ClosingStates,
         TaskStates, OutStates
<1>2. QueueInv /\ StreamInv /\ ReadInv /\ DrainInv
  BY DEF Init, QueueInv, StreamInv, ReadInv, DrainInv, Streams
<1>3. HandlerInv /\ UnsentInv /\ OneRegistration /\ RegisteredMeansConfirmed
      /\ ResponseFollowsRequest /\ NeverRegistered
  BY DEF Init, HandlerInv, UnsentInv, OneRegistration, RegisteredMeansConfirmed,
         ResponseFollowsRequest, NeverRegistered, Registering, Streams
<1> QED BY <1>1, <1>2, <1>3 DEF IInv

LEMMA Inductive == Spec => []IInv
<1>1. IInv /\ [Next]_vars => IInv'
  BY IInvStep
<1> QED BY IInvInit, <1>1, PTL DEF Spec

(* While only accept drives the connection, no registration ever succeeds: *)
(* connect_and_serve awaits handle_control_stream and polls nothing, so    *)
(* the RegisterConnection call never leaves the send buffer.               *)
THEOREM NothingRegisters == Spec => []NeverRegistered
<1>1. IInv => NeverRegistered
  BY DEF IInv
<1> QED BY Inductive, <1>1, PTL

(* A control stream counts as registered only when the call was sent on    *)
(* its own live connection and the edge accepted it (rpc_register).        *)
THEOREM RegistrationConfirmed == Spec => []RegisteredMeansConfirmed
<1>1. IInv => RegisteredMeansConfirmed
  BY DEF IInv
<1> QED BY Inductive, <1>1, PTL

(* There is never more than one registration, and the main task is in its  *)
(* handler (connect_and_serve).                                            *)
THEOREM SingleRegistration == Spec => []OneRegistration
<1>1. IInv => OneRegistration
  BY DEF IInv
<1> QED BY Inductive, <1>1, PTL

(* A response follows the whole request, and waits in the send buffer only *)
(* while the connection of its request exists (handle_proxy_stream).       *)
THEOREM ResponsesFollowRequests == Spec => []ResponseFollowsRequest
<1>1. IInv => ResponseFollowsRequest
  BY DEF IInv
<1> QED BY Inductive, <1>1, PTL
-----------------------------------------------------------------------------
(* The pauses of the reconnect loop.                                       *)

(* Induction over the naturals, for a set in place of a predicate.         *)
LEMMA SetInduction ==
  ASSUME NEW S, 0 \in S, \A n \in Nat : n \in S => n + 1 \in S
  PROVE  \A n \in Nat : n \in S
<1> DEFINE R == OpToRel(<, Nat)
<1> DEFINE T == Nat \ S
<1> SUFFICES ASSUME T # {} PROVE FALSE
  OBVIOUS
<1>1. IsWellFoundedOn(R, Nat)
  BY NatLessThanWellFounded DEF R
<1>2. PICK m \in T : \A k \in T : ~(<<k, m>> \in R)
  <2> HIDE DEF R
  <2>1. T \subseteq Nat
    OBVIOUS
  <2> QED BY <1>1, <2>1, WFMin
<1>3. m \in Nat /\ m # 0
  OBVIOUS
<1>4. m - 1 \in Nat /\ m - 1 < m /\ (m - 1) + 1 = m
  BY <1>3
<1>5. m - 1 \notin T
  BY <1>2, <1>3, <1>4 DEF OpToRel
<1> QED BY <1>3, <1>4, <1>5

(* The equation of TwoTo up to k.                                          *)
IsTwoTo(f, k) == f = [n \in 0 .. k |-> IF n = 0 THEN 1 ELSE 2 * f[n - 1]]

LEMMA TwoToPrefix ==
  ASSUME NEW k \in Nat
  PROVE  \E f : IsTwoTo(f, k)
<1> DEFINE S == {n \in Nat : \E f : IsTwoTo(f, n)}
<1>1. 0 \in S
  <2> DEFINE g == [n \in 0 .. 0 |-> 1]
  <2>1. IsTwoTo(g, 0)
    BY DEF IsTwoTo
  <2> QED BY <2>1
<1>2. ASSUME NEW n \in Nat, n \in S PROVE n + 1 \in S
  <2>1. PICK f : IsTwoTo(f, n)
    BY <1>2
  <2> DEFINE g == [m \in 0 .. n + 1 |-> IF m = 0 THEN 1 ELSE 2 * f[m - 1]]
  <2>2. \A m \in 0 .. n : g[m] = f[m]
    BY <2>1 DEF IsTwoTo
  <2>3. \A m \in 0 .. n + 1 : g[m] = IF m = 0 THEN 1 ELSE 2 * g[m - 1]
    BY <2>2
  <2>4. g = [m \in 0 .. n + 1 |-> g[m]]
    OBVIOUS
  <2> HIDE DEF g
  <2>5. IsTwoTo(g, n + 1)
    BY <2>3, <2>4 DEF IsTwoTo
  <2> QED BY <2>5
<1> HIDE DEF S
<1>3. \A n \in Nat : n \in S
  BY <1>1, <1>2, SetInduction
<1> QED BY <1>3 DEF S

(* Two functions that satisfy the equation agree where both are defined.   *)
LEMMA TwoToUnique ==
  ASSUME NEW k \in Nat, NEW l \in Nat, k <= l, NEW f, NEW g,
         IsTwoTo(f, k), IsTwoTo(g, l)
  PROVE  \A n \in 0 .. k : f[n] = g[n]
<1> DEFINE S == {n \in Nat : n <= k => f[n] = g[n]}
<1>1. 0 \in S
  BY DEF IsTwoTo
<1>2. ASSUME NEW n \in Nat, n \in S PROVE n + 1 \in S
  <2> SUFFICES ASSUME n + 1 <= k PROVE f[n + 1] = g[n + 1]
    OBVIOUS
  <2>1. f[n] = g[n]
    BY <1>2
  <2>2. f[n + 1] = 2 * f[n] /\ g[n + 1] = 2 * g[n]
    BY DEF IsTwoTo
  <2> QED BY <2>1, <2>2
<1> HIDE DEF S
<1>3. \A n \in Nat : n \in S
  BY <1>1, <1>2, SetInduction
<1> QED BY <1>3 DEF S

(* TwoTo is well defined: it satisfies its equation.                       *)
LEMMA TwoToDef ==
  TwoTo = [n \in Nat |-> IF n = 0 THEN 1 ELSE 2 * TwoTo[n - 1]]
<1> DEFINE F(k) == CHOOSE f : IsTwoTo(f, k)
<1> DEFINE G == [n \in Nat |-> F(n)[n]]
<1>1. \A k \in Nat : IsTwoTo(F(k), k)
  BY TwoToPrefix
<1> HIDE DEF F
<1>2. ASSUME NEW n \in Nat
      PROVE  G[n] = IF n = 0 THEN 1 ELSE 2 * G[n - 1]
  <2>1. F(n)[n] = IF n = 0 THEN 1 ELSE 2 * F(n)[n - 1]
    BY <1>1 DEF IsTwoTo
  <2>2. CASE n = 0
    BY <2>1, <2>2
  <2>3. CASE n # 0
    <3>1. n - 1 \in Nat /\ n - 1 <= n /\ n - 1 \in 0 .. n - 1
      BY <2>3
    <3>2. F(n - 1)[n - 1] = F(n)[n - 1]
      BY <1>1, <3>1, TwoToUnique
    <3> QED BY <2>1, <2>3, <3>1, <3>2
  <2> QED BY <2>2, <2>3
<1>3. G = [n \in Nat |-> IF n = 0 THEN 1 ELSE 2 * G[n - 1]]
  BY <1>2
<1> HIDE DEF G
<1> QED BY <1>3 DEF TwoTo

LEMMA TwoToEquation ==
  /\ TwoTo[0] = 1
  /\ \A n \in Nat : TwoTo[n + 1] = 2 * TwoTo[n]
<1>1. \A n \in Nat : TwoTo[n] = IF n = 0 THEN 1 ELSE 2 * TwoTo[n - 1]
  BY TwoToDef
<1> QED BY <1>1

LEMMA TwoToType == \A n \in Nat : TwoTo[n] \in Nat \ {0}
<1> DEFINE S == {n \in Nat : TwoTo[n] \in Nat \ {0}}
<1>1. 0 \in S
  BY TwoToEquation
<1>2. \A n \in Nat : n \in S => n + 1 \in S
  BY TwoToEquation
<1> HIDE DEF S
<1>3. \A n \in Nat : n \in S
  BY <1>1, <1>2, SetInduction
<1> QED BY <1>3 DEF S

(* The pause follows the history, and a sleep follows an error.            *)
BackoffInv ==
  /\ IInv
  /\ main = "sleep" => fails # 0
  /\ BackoffLaw

LEMMA BackoffStep ==
  ASSUME BackoffInv, [Next]_vars
  PROVE  BackoffInv'
<1> USE DEF BackoffInv
<1>0. /\ TypeOK /\ TypeOK' /\ fails \in Nat /\ backoff \in Nat
      /\ MaxBackoff \in Nat \ {0} /\ FailCap \in Nat \ {0} /\ fails <= FailCap
  BY TypeStep, TunnelAssumption DEF TypeOK, IInv
<1>0a. IInv'
  BY IInvStep
<1>1. CASE Wake
  <2> DEFINE n == fails - 1
  <2>1. n \in Nat /\ n + 1 = fails /\ backoff = Lesser(TwoTo[n], MaxBackoff)
    BY <1>0, <1>1 DEF Wake, BackoffLaw
  <2>2. main' # "sleep" /\ fails' = fails /\ backoff' = Lesser(2 * backoff, MaxBackoff)
    BY <1>1 DEF Wake
  <2> HIDE DEF n
  <2>3. TwoTo[n] \in Nat /\ TwoTo[fails] = 2 * TwoTo[n]
    BY <2>1, TwoToEquation, TwoToType
  <2>4. backoff' = Lesser(TwoTo[fails], MaxBackoff)
    BY <1>0, <2>1, <2>2, <2>3 DEF Lesser
  <2> QED BY <1>0, <1>0a, <2>2, <2>4 DEF BackoffLaw
<1>2. CASE ServedErr /\ main # "sleep"
  <2>1. /\ main' = "sleep" /\ backoff' = backoff
        /\ backoff = Lesser(TwoTo[fails], MaxBackoff)
        /\ fails' = Lesser(fails + 1, FailCap)
    BY <1>2 DEF ServedErr, BackoffLaw
  <2>2. fails' # 0 /\ fails' \in Nat
    BY <1>0, <2>1 DEF Lesser
  <2>3. backoff = Lesser(TwoTo[fails' - 1], MaxBackoff)
    <3>1. CASE fails < FailCap
      BY <1>0, <2>1, <3>1 DEF Lesser
    <3>2. CASE fails = FailCap
      <4>1. FailCap - 1 \in Nat /\ fails' - 1 = FailCap - 1
        BY <1>0, <2>1, <3>2 DEF Lesser
      <4>2. /\ TwoTo[FailCap] = 2 * TwoTo[FailCap - 1]
            /\ TwoTo[FailCap - 1] \in Nat
        BY <1>0, <4>1, TwoToEquation, TwoToType
      <4> QED BY <1>0, <2>1, <3>2, <4>1, <4>2, FailCapAssumption DEF Lesser
    <3> QED BY <1>0, <3>1, <3>2
  <2> QED BY <1>0, <1>0a, <2>1, <2>2, <2>3 DEF BackoffLaw
<1>3. CASE ServedOk
  <2>1. main' # "sleep" /\ backoff' = 1 /\ fails' = 0
    BY <1>3 DEF ServedOk
  <2>2. backoff' = Lesser(TwoTo[0], MaxBackoff)
    BY <1>0, <2>1, TwoToEquation DEF Lesser
  <2> QED BY <1>0, <1>0a, <2>1, <2>2 DEF BackoffLaw
<1>4. CASE UNCHANGED <<backoff, fails>> /\ (main' = "sleep" <=> main = "sleep")
  BY <1>0, <1>0a, <1>4 DEF BackoffLaw
<1> QED
  <2>1. CASE Wake \/ TcpConnect \/ Handshake \/ AcceptClosed
    BY <1>1, <1>2, <1>3, <1>4, <2>1
       DEF TcpConnect, Handshake, AcceptClosed, retryVars
  <2>2. CASE AcceptControl
    BY <1>2, <1>4, <2>2
       DEF AcceptControl, ControlStarts, ControlRefused, MayAccept, retryVars
  <2>3. CASE AcceptPending \/ AcceptProxy \/ BackgroundIo
    BY <1>4, <2>3 DEF AcceptPending, AcceptProxy, BackgroundIo, retryVars
  <2>4. ASSUME NEW c \in ControlStreams, RpcRegistered(c) \/ RpcFailed(c)
        PROVE  BackoffInv'
    <3>1. main = "control"
      BY <2>4 DEF IInv, OneRegistration, Registering, RpcRegistered, RpcFailed
    <3> QED BY <1>4, <2>4, <3>1 DEF RpcRegistered, RpcFailed, retryVars
  <2>5. CASE Tasks \/ Edge \/ UNCHANGED vars
    BY <1>4, <2>5
       DEF Tasks, Edge, DrainBody, Respond, EdgeCloses, EdgeOpens, EdgeEnds,
           EdgeReplies, retryVars, vars
  <2> QED BY <2>1, <2>2, <2>3, <2>4, <2>5 DEF Next, Main, Poll

(* The n-th error in a row is followed by a pause of 2^(n-1) seconds, at   *)
(* most MaxBackoff, and an Ok starts the series again (run_tunnel).        *)
THEOREM PausesDouble == Spec => []BackoffLaw
<1>1. Init => BackoffInv
  <2> SUFFICES ASSUME Init PROVE BackoffInv
    OBVIOUS
  <2>1. IInv
    BY IInvInit
  <2>2. 1 = Lesser(TwoTo[0], MaxBackoff)
    BY TwoToEquation, TunnelAssumption DEF Lesser
  <2> QED BY <2>1, <2>2 DEF Init, BackoffInv, BackoffLaw
<1>2. BackoffInv /\ [Next]_vars => BackoffInv'
  BY BackoffStep
<1>3. BackoffInv => BackoffLaw
  BY DEF BackoffInv
<1> QED BY <1>1, <1>2, <1>3, PTL DEF Spec
-----------------------------------------------------------------------------
(* What never comes to an end.                                             *)

(* A stream is cut off by its reset, by the end of its connection or with  *)
(* it, and was opened before.                                              *)
CutInv ==
  \A s \in Streams :
    seen[s] = "cut" =>
      /\ edge[s] # "idle"
      /\ s \notin live \/ edge[s] = "reset" \/ closing \in {"eof", "ioerr"}

(* A step reads the connection, drops it, lets the edge act, or does none  *)
(* of these.                                                               *)
Reads == ReadAll /\ UNCHANGED <<live, edge, closing>>
Idles == UNCHANGED <<live, edge, closing, seen>>
EdgeActs ==
  /\ UNCHANGED <<main, seen, task, out>>
  /\ \A s \in Streams : s \in live' /\ s \notin live => edge[s] = "idle"
  /\ \A s \in Streams : edge[s] = "reset" => edge'[s] = "reset"
  /\ \A s \in Streams : edge[s] # "idle" => edge'[s] # "idle"
  /\ closing \in {"eof", "ioerr"} => closing' \in {"eof", "ioerr"}

LEMMA FourKinds ==
  ASSUME TypeOK, [Next]_vars
  PROVE  Reads \/ DropConnection \/ Idles \/ EdgeActs
<1>1. CASE Wake \/ TcpConnect \/ Handshake \/ Tasks \/ UNCHANGED vars
  BY <1>1 DEF Wake, TcpConnect, Handshake, Tasks, DrainBody, Respond, Idles,
              connVars, vars
<1>2. CASE AcceptPending \/ AcceptProxy \/ BackgroundIo
  BY <1>2 DEF AcceptPending, AcceptProxy, BackgroundIo, Reads, connVars
<1>3. CASE AcceptControl \/ AcceptClosed
  BY <1>3 DEF AcceptControl, ControlStarts, ControlRefused, AcceptClosed, Reads
<1>4. ASSUME NEW c \in ControlStreams, RpcRegistered(c) \/ RpcFailed(c)
      PROVE  Idles
  BY <1>4 DEF RpcRegistered, RpcFailed, Idles, connVars
<1>5. CASE EdgeCloses
  BY <1>5 DEF EdgeCloses, EdgeActs, retryVars
<1>6. ASSUME NEW s \in Streams, EdgeOpens(s) \/ EdgeEnds(s) PROVE EdgeActs
  <2>1. CASE EdgeOpens(s)
    BY <1>6, <2>1 DEF EdgeOpens, EdgeActs, TypeOK
  <2>2. CASE EdgeEnds(s)
    BY <1>6, <2>2 DEF EdgeEnds, EdgeActs, TypeOK, connVars
  <2> QED BY <1>6, <2>1, <2>2
<1>7. ASSUME NEW c \in ControlStreams, EdgeReplies(c) PROVE EdgeActs
  BY <1>7 DEF EdgeReplies, EdgeActs, TypeOK, connVars, Streams
<1> QED BY <1>1, <1>2, <1>3, <1>4, <1>5, <1>6, <1>7 DEF Next, Main, Poll, Edge

LEMMA CutStep ==
  ASSUME IInv, CutInv, [Next]_vars
  PROVE  CutInv'
<1>1. TypeOK /\ StreamInv
  BY DEF IInv
<1>2. CASE Reads
  <2> SUFFICES ASSUME NEW s \in Streams, seen'[s] = "cut"
               PROVE  /\ edge[s] # "idle"
                      /\ s \notin live \/ edge[s] = "reset" \/ closing \in {"eof", "ioerr"}
    BY <1>2 DEF CutInv, Reads
  <2>1. CASE s \notin live
    BY <1>1, <1>2, <2>1 DEF CutInv, Reads, ReadAll, TypeOK
  <2>2. CASE s \in live
    BY <1>1, <1>2, <2>2 DEF Reads, ReadAll, View, TypeOK, EdgeStates, StreamInv
  <2> QED BY <2>1, <2>2
<1>3. CASE DropConnection
  BY <1>1, <1>3, DropEffect DEF CutInv, StreamInv
<1>4. CASE Idles
  BY <1>4 DEF CutInv, Idles
<1>5. CASE EdgeActs
  BY <1>5 DEF CutInv, EdgeActs
<1> QED BY <1>1, <1>2, <1>3, <1>4, <1>5, FourKinds

(* A stream that was cut off stays so.                                     *)
LEMMA CutStays ==
  ASSUME IInv, CutInv, [Next]_vars, NEW s \in Streams, seen[s] = "cut"
  PROVE  seen'[s] = "cut"
<1>1. TypeOK
  BY DEF IInv
<1>2. CASE Reads
  BY <1>1, <1>2 DEF CutInv, Reads, ReadAll, View, TypeOK
<1>3. CASE DropConnection
  BY <1>1, <1>3, DropEffect
<1>4. CASE Idles \/ EdgeActs
  BY <1>4 DEF Idles, EdgeActs
<1> QED BY <1>1, <1>2, <1>3, <1>4, FourKinds

(* A handler of a request goes on only when it has read the whole body.    *)
LEMMA DrainStays ==
  ASSUME IInv, [Next]_vars, NEW s \in ProxyStreams, task[s] = "drain"
  PROVE  task'[s] = "drain" \/ seen[s] = "ended"
<1>1. TypeOK /\ QueueInv /\ s \in Streams
  BY DEF IInv, Streams
<1>2. CASE Wake \/ TcpConnect \/ Handshake \/ AcceptPending \/ AcceptClosed \/ BackgroundIo
           \/ EdgeCloses \/ UNCHANGED vars
  BY <1>2 DEF Wake, TcpConnect, Handshake, AcceptPending, AcceptClosed,
              BackgroundIo, EdgeCloses, vars
<1>3. CASE AcceptProxy \/ AcceptControl
  <2>1. queue # <<>>
    BY <1>3 DEF AcceptProxy, AcceptControl
  <2>2. Head(queue) # s
    BY <1>1, <2>1, HeadEffect
  <2> QED BY <1>1, <1>3, <2>2
          DEF AcceptProxy, AcceptControl, ControlStarts, ControlRefused, TypeOK
<1>4. ASSUME NEW c \in ControlStreams, RpcRegistered(c) \/ RpcFailed(c)
      PROVE  task'[s] = "drain"
  BY <1>1, <1>4, TunnelAssumption DEF RpcRegistered, RpcFailed, TypeOK
<1>5. ASSUME NEW r \in ProxyStreams, DrainBody(r) \/ Respond(r)
      PROVE  task'[s] = "drain" \/ seen[s] = "ended"
  BY <1>1, <1>5 DEF DrainBody, Respond, TypeOK
<1>6. ASSUME NEW r \in Streams, EdgeOpens(r) \/ EdgeEnds(r) PROVE task' = task
  BY <1>6 DEF EdgeOpens, EdgeEnds
<1>7. ASSUME NEW c \in ControlStreams, EdgeReplies(c) PROVE task' = task
  BY <1>7 DEF EdgeReplies
<1> QED
  BY <1>2, <1>3, <1>4, <1>5, <1>6, <1>7 DEF Next, Main, Poll, Tasks, Edge

LEMMA SpinningStays ==
  ASSUME IInv, CutInv, [Next]_vars, NEW s \in ProxyStreams, Spinning(s)
  PROVE  Spinning(s)'
BY CutStays, DrainStays DEF Spinning, Streams

LEMMA CutAlways == Spec => [](IInv /\ CutInv)
<1>1. Init => CutInv
  BY DEF Init, CutInv
<1>2. IInv /\ CutInv /\ [Next]_vars => CutInv'
  BY CutStep
<1> QED BY Inductive, <1>1, <1>2, PTL DEF Spec

(* A task that drains a stream that was cut off spins for ever: drain_body *)
(* ignores the error, which data() reports again on every call.            *)
THEOREM SpinsForEver ==
  ASSUME NEW s \in ProxyStreams
  PROVE  Spec => [](Spinning(s) => []Spinning(s))
<1>1. IInv /\ CutInv /\ Spinning(s) /\ [Next]_vars => Spinning(s)'
  BY SpinningStays
<1> QED BY CutAlways, <1>1, PTL DEF Spec

(* Once every worker thread is lost to such a task, no other task is ever  *)
(* polled again: the connections that come and go give none of them back.  *)
THEOREM StarvesForEver ==
  ASSUME IsFiniteSet(ProxyStreams)
  PROVE  Spec => [](Starved => []Starved)
<1>1. ASSUME IInv, CutInv, Starved, [Next]_vars PROVE Starved'
  <2> DEFINE S == {s \in ProxyStreams : Spinning(s)}
             T == {s \in ProxyStreams : Spinning(s)'}
  <2>1. S \subseteq T
    BY <1>1, SpinningStays
  <2>2. T \subseteq ProxyStreams
    OBVIOUS
  <2>3. Cardinality(S) >= Workers
    BY <1>1 DEF Starved
  <2>4. T = S'
    OBVIOUS
  <2> HIDE DEF S, T
  <2>5. IsFiniteSet(T)
    BY <2>2, FS_Subset
  <2>6. /\ IsFiniteSet(S) /\ Cardinality(S) \in Nat /\ Cardinality(T) \in Nat
        /\ Cardinality(S) <= Cardinality(T)
    BY <2>1, <2>5, FS_Subset, FS_CardinalityType
  <2>7. Cardinality(T) >= Workers
    BY <2>3, <2>6, TunnelAssumption
  <2> QED BY <2>7 DEF Starved, T
<1> QED BY CutAlways, <1>1, PTL DEF Spec

(* The handler of a control stream has the main task for good: registered, *)
(* it awaits pending(); and without I/O in the background no answer, no    *)
(* end and no reset of a stream that was open when it began is ever read.  *)
Holds(c) ==
  \/ task[c] = "registered"
  \/ ~IoInBackground /\ task[c] = "rpc" /\ seen[c] = "open"

LEMMA HoldStays ==
  ASSUME IInv, [Next]_vars, NEW c \in ControlStreams, Holds(c)
  PROVE  Holds(c)' /\ main = "control"
<1>1. main = "control" /\ TypeOK /\ c \in Streams /\ OneRegistration
  BY DEF IInv, Holds, OneRegistration, Registering, Streams
<1>2. \A d \in ControlStreams : Registering(d) => d = c
  BY <1>1 DEF OneRegistration, Holds, Registering
<1>3. ~Wake /\ ~TcpConnect /\ ~Handshake /\ ~Poll
  BY <1>1 DEF Wake, TcpConnect, Handshake, Poll, AcceptPending, AcceptProxy,
              AcceptControl, AcceptClosed, MayAccept
<1>4. CASE BackgroundIo
  BY <1>4 DEF BackgroundIo, Holds
<1>5. ASSUME NEW d \in ControlStreams, RpcRegistered(d) \/ RpcFailed(d)
      PROVE  Holds(c)'
  <2>1. d = c /\ task[c] = "rpc" /\ seen[c] # "open"
    BY <1>2, <1>5 DEF RpcRegistered, RpcFailed, Registering
  <2> QED BY <2>1 DEF Holds
<1>6. ASSUME NEW s \in ProxyStreams, DrainBody(s) \/ Respond(s)
      PROVE  Holds(c)'
  <2>1. s # c
    BY TunnelAssumption
  <2> QED BY <1>1, <1>6, <2>1 DEF DrainBody, Respond, Holds, TypeOK
<1>7. CASE Edge \/ UNCHANGED vars
  <2>1. task' = task /\ seen' = seen
    BY <1>7 DEF Edge, EdgeCloses, EdgeOpens, EdgeEnds, EdgeReplies, vars
  <2>2. task'[c] = task[c] /\ seen'[c] = seen[c]
    BY <2>1
  <2> QED BY <1>1, <2>2 DEF Holds
<1> QED
  BY <1>1, <1>3, <1>4, <1>5, <1>6, <1>7 DEF Next, Main, Tasks

(* Such a handler keeps connect_and_serve from its accept loop for ever:   *)
(* no stream is accepted any more, the end of the connection stays         *)
(* unnoticed and run_tunnel makes no other attempt.                        *)
THEOREM HandlerKeepsMain ==
  ASSUME NEW c \in ControlStreams
  PROVE  Spec => [](Holds(c) => [](Holds(c) /\ main = "control"))
<1>1. IInv /\ Holds(c) /\ [Next]_vars => Holds(c)' /\ main = "control"
  BY HoldStays
<1> QED BY Inductive, <1>1, PTL DEF Spec

(* A handler of a request writes once, with its last step.                 *)
WrittenInv ==
  \A s \in ProxyStreams : task[s] \in {"drain", "origin"} => out[s] = "none"

LEMMA WrittenStep ==
  ASSUME IInv, WrittenInv, [Next]_vars
  PROVE  WrittenInv'
<1>1. TypeOK /\ StreamInv /\ QueueInv
  BY DEF IInv
<1>2. CASE Wake \/ TcpConnect \/ Handshake \/ Edge \/ UNCHANGED vars
  <2>1. task' = task /\ out' = out
    BY <1>2 DEF Wake, TcpConnect, Handshake, Edge, EdgeCloses, EdgeOpens,
                EdgeEnds, EdgeReplies, vars
  <2> QED BY <2>1 DEF WrittenInv
<1>3. ASSUME NEW s \in ProxyStreams, task'[s] \in {"drain", "origin"},
             AcceptPending \/ BackgroundIo \/ AcceptClosed \/ AcceptProxy \/ AcceptControl
      PROVE  out'[s] = "none"
  <2>1. s \in Streams
    BY DEF Streams
  <2>2. out[s] = "none" => FlushAll[s] = "none"
    BY <1>1, <2>1, FlushEffect
  <2>3. CASE AcceptPending \/ BackgroundIo \/ AcceptClosed
    BY <1>3, <2>2, <2>3 DEF AcceptPending, BackgroundIo, AcceptClosed, WrittenInv
  <2>4. CASE AcceptProxy
    <3>1. task[Head(queue)] = "none"
      BY <1>1, <2>4, HeadEffect DEF AcceptProxy
    <3>2. s # Head(queue) => task'[s] = task[s]
      BY <1>1, <2>1, <2>4 DEF AcceptProxy, TypeOK
    <3>3. out[s] = "none"
      BY <1>1, <1>3, <2>1, <3>1, <3>2 DEF WrittenInv, StreamInv
    <3> QED BY <2>2, <2>4, <3>3 DEF AcceptProxy
  <2>5. CASE AcceptControl
    <3>1. s # Head(queue) /\ Head(queue) \in Streams
      BY <2>5, TunnelAssumption DEF AcceptControl, Streams
    <3>2. task'[s] = task[s] /\ out'[s] = FlushAll[s]
      BY <1>1, <2>1, <2>5, <3>1, FlushType
         DEF AcceptControl, ControlStarts, ControlRefused, TypeOK
    <3> QED BY <1>3, <2>2, <3>2 DEF WrittenInv
  <2> QED BY <1>3, <2>3, <2>4, <2>5
<1>4. ASSUME NEW c \in ControlStreams, RpcRegistered(c) \/ RpcFailed(c)
      PROVE  WrittenInv'
  <2>1. \A s \in ProxyStreams : task'[s] = task[s] /\ out'[s] = out[s]
    BY <1>1, <1>4, TunnelAssumption DEF RpcRegistered, RpcFailed, TypeOK, Streams
  <2> QED BY <2>1 DEF WrittenInv
<1>5. ASSUME NEW s \in ProxyStreams, DrainBody(s) \/ Respond(s)
      PROVE  WrittenInv'
  <2>1. \A r \in ProxyStreams : r # s => task'[r] = task[r] /\ out'[r] = out[r]
    BY <1>1, <1>5 DEF DrainBody, Respond, TypeOK, Streams
  <2>2. task'[s] \in {"drain", "origin"} => task[s] = "drain" /\ out'[s] = out[s]
    BY <1>1, <1>5 DEF DrainBody, Respond, TypeOK, Streams
  <2> QED BY <2>1, <2>2 DEF WrittenInv
<1> QED
  BY <1>2, <1>3, <1>4, <1>5 DEF Next, Main, Poll, Tasks, WrittenInv

LEMMA WrittenAlways == Spec => [](IInv /\ WrittenInv)
<1>1. Init => WrittenInv
  BY DEF Init, WrittenInv, Streams
<1>2. IInv /\ WrittenInv /\ [Next]_vars => WrittenInv'
  BY WrittenStep
<1> QED BY Inductive, <1>1, <1>2, PTL DEF Spec

LEMMA QueuedStays ==
  ASSUME IInv, WrittenInv, [Next]_vars, ~IoInBackground,
         NEW c \in ControlStreams, Holds(c), NEW s \in Streams, out[s] = "queued"
  PROVE  out'[s] = "queued"
<1>1. main = "control" /\ TypeOK /\ OneRegistration /\ NeverRegistered
  BY DEF IInv, Holds, OneRegistration, Registering
<1>2. task[c] = "rpc" /\ seen[c] = "open" /\ \A d \in ControlStreams : Registering(d) => d = c
  BY <1>1 DEF OneRegistration, NeverRegistered, Holds, Registering
<1>3. ~Wake /\ ~TcpConnect /\ ~Handshake /\ ~Poll /\ ~BackgroundIo
  BY <1>1 DEF Wake, TcpConnect, Handshake, Poll, AcceptPending, AcceptProxy,
              AcceptControl, AcceptClosed, MayAccept, BackgroundIo
<1>4. \A d \in ControlStreams : ~RpcRegistered(d) /\ ~RpcFailed(d)
  BY <1>2 DEF RpcRegistered, RpcFailed, Registering
<1>5. ASSUME NEW r \in ProxyStreams, DrainBody(r) \/ Respond(r)
      PROVE  out'[s] = "queued"
  BY <1>1, <1>5 DEF DrainBody, Respond, WrittenInv, TypeOK
<1>6. CASE Edge \/ UNCHANGED vars
  BY <1>6 DEF Edge, EdgeCloses, EdgeOpens, EdgeEnds, EdgeReplies, vars
<1> QED BY <1>3, <1>4, <1>5, <1>6 DEF Next, Main, Tasks

(* Without I/O in the background, what is in the send buffer while a       *)
(* handler holds the main task stays there for ever, the call it waits for *)
(* and the responses to proxied requests alike.                            *)
THEOREM QueuedForEver ==
  ASSUME ~IoInBackground, NEW c \in ControlStreams, NEW s \in Streams
  PROVE  Spec => [](Holds(c) /\ out[s] = "queued" => [](out[s] = "queued"))
<1>1. IInv /\ Holds(c) /\ [Next]_vars => Holds(c)'
  BY HoldStays
<1>2. IInv /\ WrittenInv /\ Holds(c) /\ out[s] = "queued" /\ [Next]_vars
        => (out[s] = "queued")'
  BY QueuedStays
<1> QED BY WrittenAlways, <1>1, <1>2, PTL DEF Spec

(* What has left the program, or was dropped, stays so: nothing is written *)
(* on a stream twice, and nothing that was dropped is sent later, on this  *)
(* or another connection (handle_control_stream, handle_proxy_stream).     *)
THEOREM SentOnce ==
  Spec => [][\A s \in Streams :
               out[s] \in {"flushed", "dropped"} => out'[s] = out[s]]_vars
<1>1. ASSUME IInv, WrittenInv, Next, NEW s \in Streams, out[s] \in {"flushed", "dropped"}
      PROVE  out'[s] = out[s]
  <2>1. TypeOK /\ QueueInv /\ task[s] # "none" /\ FlushAll[s] = out[s]
    BY <1>1, FlushEffect DEF IInv, StreamInv
  <2>2. CASE AcceptProxy \/ AcceptControl
    <3>1. Head(queue) # s
      BY <2>1, <2>2, HeadEffect DEF AcceptProxy, AcceptControl
    <3> QED BY <2>1, <2>2, <3>1, FlushType
            DEF AcceptProxy, AcceptControl, ControlStarts, ControlRefused
  <2>3. CASE AcceptPending \/ AcceptClosed \/ BackgroundIo
    BY <2>1, <2>3 DEF AcceptPending, AcceptClosed, BackgroundIo
  <2>4. CASE Wake \/ TcpConnect \/ Handshake \/ Edge
    BY <2>4 DEF Wake, TcpConnect, Handshake, Edge, EdgeCloses, EdgeOpens,
                EdgeEnds, EdgeReplies
  <2>5. ASSUME NEW c \in ControlStreams, RpcRegistered(c) \/ RpcFailed(c)
        PROVE  out'[s] = out[s]
    BY <1>1, <2>1, <2>5 DEF RpcRegistered, RpcFailed, DroppedOut, TypeOK
  <2>6. ASSUME NEW r \in ProxyStreams, DrainBody(r) \/ Respond(r)
        PROVE  out'[s] = out[s]
    BY <1>1, <2>1, <2>6 DEF DrainBody, Respond, WrittenInv, TypeOK
  <2> QED BY <1>1, <2>2, <2>3, <2>4, <2>5, <2>6 DEF Next, Main, Poll, Tasks
<1> DEFINE Once == \A s \in Streams :
                     out[s] \in {"flushed", "dropped"} => out'[s] = out[s]
<1>2. IInv /\ WrittenInv /\ [Next]_vars => [Once]_vars
  BY <1>1
<1> QED BY WrittenAlways, <1>2, PTL DEF Spec

-----------------------------------------------------------------------------
(* The addresses.                                                          *)

(* The address changes when an attempt begins, and only then.              *)
LEMMA AddrStep ==
  ASSUME TypeOK, [Next]_vars
  PROVE  /\ main = "connect" => addr' = addr
         /\ main # "connect" /\ main' # "connect" => addr' = addr
         /\ main # "connect" /\ main' = "connect" => addr' = (addr + 1) % NumAddrs
<1>1. CASE Wake \/ TcpConnect \/ Handshake \/ AcceptClosed
  BY <1>1 DEF Wake, TcpConnect, Handshake, AcceptClosed, ServedOk, ServedErr,
              NextAddr, retryVars
<1>2. CASE AcceptControl
  BY <1>2 DEF AcceptControl, ControlStarts, ControlRefused, ServedErr, MayAccept,
              retryVars
<1>3. CASE AcceptPending \/ AcceptProxy \/ BackgroundIo
  BY <1>3 DEF AcceptPending, AcceptProxy, BackgroundIo, MayAccept, retryVars
<1>4. ASSUME NEW c \in ControlStreams, RpcRegistered(c) \/ RpcFailed(c)
      PROVE  addr' = addr /\ (main' = main \/ main' = "accept")
  BY <1>4 DEF RpcRegistered, RpcFailed, retryVars
<1>5. CASE Tasks \/ Edge \/ UNCHANGED vars
  <2>1. addr' = addr /\ main' = main
    BY <1>5 DEF Tasks, Edge, DrainBody, Respond, EdgeCloses, EdgeOpens, EdgeEnds,
                EdgeReplies, retryVars, vars
  <2> QED BY <2>1
<1> QED BY <1>1, <1>2, <1>3, <1>4, <1>5 DEF Next, Main, Poll

(* As long as attempts come to an end and are made, the one at an address  *)
(* is followed by one at the next address, whether it ended in Ok or in    *)
(* Err: the step of EveryAddressTried, without fairness (run_tunnel).      *)
THEOREM AddressesInTurn ==
  ASSUME NEW a \in Addrs
  PROVE  Spec /\ []<>(main # "connect") /\ []<>(main = "connect")
           => [](main = "connect" /\ addr = a
                   => <>(main = "connect" /\ addr = (a + 1) % NumAddrs))
<1> DEFINE b == (a + 1) % NumAddrs
<1>1. ASSUME TypeOK, [Next]_vars, addr = a
      PROVE  \/ addr' = a /\ (main = "connect" \/ ~(main' = "connect"))
             \/ addr' = b /\ ~(main = "connect") /\ main' = "connect"
  BY <1>1, AddrStep
<1>2. TypeOK /\ [Next]_vars /\ addr = a
        => \/ (addr = a)' /\ (main = "connect" \/ ~(main = "connect")')
           \/ (addr = b)' /\ ~(main = "connect") /\ (main = "connect")'
  BY <1>1
<1> HIDE DEF b
<1>3. main # "connect" <=> ~(main = "connect")
  OBVIOUS
<1>4. Spec /\ []<>(main # "connect") /\ []<>(main = "connect")
        => [](main = "connect" /\ addr = a => <>(main = "connect" /\ addr = b))
  BY <1>2, <1>3, TypeCorrect, PTL DEF Spec
<1> QED BY <1>4 DEF b
=============================================================================
