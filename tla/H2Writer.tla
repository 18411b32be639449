------------------------------ MODULE H2Writer ------------------------------
(***************************************************************************)
(* H2Writer: an h2 SendStream as AsyncWrite.  poll_write hands the bytes   *)
(* to h2 whatever the window is and poll_flush does nothing, so that what  *)
(* was written waits in h2's send buffer until the connection is polled    *)
(* and the peer's window is open.  Nothing is assumed to poll it: that it  *)
(* is not polled while the RPC system runs is what module Tunnel shows.    *)
(***************************************************************************)
EXTENDS Naturals, Sequences

CONSTANTS
  Bytes,     \* values of a byte
  MaxSent,   \* bound: bytes written in a behaviour
  MaxWrite,  \* longest buffer given to poll_write
  Window     \* the peer's flow-control window

VARIABLES
  sent,      \* all the bytes poll_write has taken
  sender,    \* "open", "ended" by poll_close, or "reset"
  queue,     \* h2's send buffer
  credit,    \* what the window lets h2 send
  got,       \* all the bytes that reached the peer
  reader     \* how the peer's reading ended

vars == <<sent, sender, queue, credit, got, reader>>

Init ==
  /\ sent = <<>> /\ sender = "open"
  /\ queue = <<>>
  /\ credit = Window
  /\ got = <<>> /\ reader = "open"

-----------------------------------------------------------------------------
(* poll_write takes all of the buffer.  On a stream that is closed it      *)
(* fails and changes nothing, and poll_flush never changes anything.       *)
PollWrite ==
  /\ sender = "open"
  /\ \E n \in 1 .. MaxWrite :
       /\ Len(sent) + n <= MaxSent
       /\ \E bytes \in [1 .. n -> Bytes] :
            sent' = sent \o bytes /\ queue' = queue \o bytes
  /\ UNCHANGED <<sender, credit, got, reader>>

(* Mutant: closing throws away what is still in the buffer.                *)
PollCloseMutant ==
  /\ sender = "open"
  /\ sender' = "ended"
  /\ queue' = <<>>
  /\ UNCHANGED <<sent, credit, got, reader>>

(* poll_close queues the end of the stream behind the bytes.               *)
PollClose ==
  /\ sender = "open"
  /\ sender' = "ended"
  /\ UNCHANGED <<sent, queue, credit, got, reader>>

(* The peer resets the stream, or the writer is dropped before it is       *)
(* closed: h2 throws the buffer away.                                      *)
Resets ==
  /\ sender # "reset"
  /\ reader = "open"
  /\ sender' = "reset"
  /\ queue' = <<>>
  /\ UNCHANGED <<sent, credit, got, reader>>

(* A poll of the connection sends what the window permits.                 *)
SendBytes ==
  /\ queue # <<>>
  /\ credit > 0
  /\ got' = Append(got, Head(queue))
  /\ queue' = Tail(queue)
  /\ credit' = credit - 1
  /\ UNCHANGED <<sent, sender, reader>>

SendEnd ==
  /\ sender = "ended"
  /\ queue = <<>>
  /\ reader = "open"
  /\ reader' = "eof"
  /\ UNCHANGED <<sent, sender, queue, credit, got>>

PeerGrants ==
  /\ reader = "open"
  /\ credit < Window
  /\ credit' = credit + 1
  /\ UNCHANGED <<sent, sender, queue, got, reader>>

Connection == SendBytes \/ SendEnd

Next == PollWrite \/ PollClose \/ Resets \/ Connection \/ PeerGrants

Spec == Init /\ [][Next]_vars

-----------------------------------------------------------------------------
(* Every variable keeps to its type.                                       *)
TypeOK ==
  /\ sent \in Seq(Bytes) /\ queue \in Seq(Bytes) /\ got \in Seq(Bytes)
  /\ sender \in {"open", "ended", "reset"}
  /\ reader \in {"open", "eof"}
  /\ credit \in 0 .. Window

(* The writer is a byte stream for the peer: what poll_write took arrives  *)
(* in order and before the end that poll_close queued.                     *)
Stream == INSTANCE ByteStream
IsByteStream == Stream!Spec
=============================================================================
