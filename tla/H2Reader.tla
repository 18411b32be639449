------------------------------ MODULE H2Reader ------------------------------
(***************************************************************************)
(* H2Reader: an h2 RecvStream as AsyncRead.  poll_read hands out one DATA  *)
(* frame at a time; what does not fit the caller's buffer is kept in buf   *)
(* for the next call, while the frame's flow-control credit is given back  *)
(* to h2 at once.  The peer learns of it from a WINDOW_UPDATE, which h2    *)
(* sends when the connection is polled, if ever.                           *)
(*                                                                         *)
(* h2's receive queue is kept as bytes.  Where one frame ends and the next *)
(* begins is chosen when the frame is polled: the sender may cut the bytes *)
(* anywhere, and nothing before the poll depends on it.  That the peer     *)
(* sends a byte and that a poll of the connection reads it is one step.    *)
(***************************************************************************)
EXTENDS Naturals, Sequences

CONSTANTS
  Bytes,        \* values of a byte
  MaxSent,      \* bound: bytes sent in a behaviour
  Window,       \* the stream's flow-control window
  MaxOut        \* longest buffer the caller gives to poll_read

ASSUME H2ReaderAssumption ==
  /\ MaxSent \in Nat
  /\ Window \in Nat \ {0}
  /\ MaxOut \in Nat \ {0}

VARIABLES
  sent, sender,   \* what the peer has sent, and how it closed the stream
  empties,        \* TRUE iff the peer also sends DATA frames without bytes
  credit,         \* what the peer may still send
  released,       \* credit given back to h2 that the peer does not know of
  recv,           \* h2's receive queue
  buf,            \* bytes left over from the last frame
  got, reader     \* what the caller was given, and what ended its reading

peerVars == <<sent, sender, empties>>
vars == <<peerVars, credit, released, recv, buf, got, reader>>

Init ==
  /\ sent = <<>> /\ sender = "open" /\ empties \in BOOLEAN
  /\ credit = Window /\ released = 0
  /\ recv = <<>>
  /\ buf = <<>>
  /\ got = <<>> /\ reader = "open"

Lesser(m, n) == IF m < n THEN m ELSE n
Prefix(s, n) == SubSeq(s, 1, n)
Suffix(s, n) == SubSeq(s, n + 1, Len(s))

-----------------------------------------------------------------------------
PeerSends ==
  /\ sender = "open"
  /\ credit > 0
  /\ Len(sent) < MaxSent
  /\ \E b \in Bytes : sent' = Append(sent, b) /\ recv' = Append(recv, b)
  /\ credit' = credit - 1
  /\ UNCHANGED <<sender, empties, released, buf, got, reader>>

PeerEnds ==
  /\ sender = "open"
  /\ sender' = "ended"
  /\ UNCHANGED <<sent, empties, credit, released, recv, buf, got, reader>>

PeerResets ==
  /\ sender # "reset"
  /\ sender' = "reset"
  /\ UNCHANGED <<sent, empties, credit, released, recv, buf, got, reader>>

(* A poll of the connection sends a WINDOW_UPDATE.                         *)
WindowUpdate ==
  /\ released > 0
  /\ credit' = credit + released
  /\ released' = 0
  /\ UNCHANGED <<peerVars, recv, buf, got, reader>>

(* Mutants: what is left over is given back once more; it has to wait for  *)
(* another frame.                                                          *)
ReadBufferMutant(m) ==
  /\ reader = "open"
  /\ buf # <<>>
  /\ LET n == Lesser(m, Len(buf))
     IN  got' = got \o Prefix(buf, n) /\ buf' = Suffix(buf, n)
                                      /\ released' = released + n
  /\ UNCHANGED <<peerVars, credit, recv, reader>>

ReadBufferWaitMutant(m) ==
  /\ reader = "open"
  /\ buf # <<>>
  /\ recv # <<>>
  /\ LET n == Lesser(m, Len(buf))
     IN  got' = got \o Prefix(buf, n) /\ buf' = Suffix(buf, n)
  /\ UNCHANGED <<peerVars, credit, released, recv, reader>>

(* poll_read with a buffer of m bytes: what is left over goes first.       *)
ReadBuffer(m) ==
  /\ reader = "open"
  /\ buf # <<>>
  /\ LET n == Lesser(m, Len(buf))
     IN  got' = got \o Prefix(buf, n) /\ buf' = Suffix(buf, n)
  /\ UNCHANGED <<peerVars, credit, released, recv, reader>>

(* Mutants: what does not fit is dropped; only what fits is given back;    *)
(* the next frame is taken while something is left over.                   *)
ReadFrameMutant(m, k) ==
  /\ reader = "open"
  /\ buf = <<>>
  /\ k <= Len(recv)
  /\ LET data == Prefix(recv, k)
         n == Lesser(m, k)
     IN  got' = got \o Prefix(data, n) /\ UNCHANGED buf
  /\ recv' = Suffix(recv, k)
  /\ released' = released + k
  /\ UNCHANGED <<peerVars, credit, reader>>

ReadFrameCreditMutant(m, k) ==
  /\ reader = "open"
  /\ buf = <<>>
  /\ k <= Len(recv)
  /\ LET data == Prefix(recv, k)
         n == Lesser(m, k)
     IN  /\ got' = got \o Prefix(data, n)
         /\ buf' = Suffix(data, n)
         /\ released' = released + n
  /\ recv' = Suffix(recv, k)
  /\ UNCHANGED <<peerVars, credit, reader>>

ReadFrameEarlyMutant(m, k) ==
  /\ reader = "open"
  /\ k <= Len(recv)
  /\ LET data == buf \o Prefix(recv, k)
         n == Lesser(m, k)
     IN  got' = got \o Prefix(data, n) /\ buf' = Suffix(data, n)
  /\ recv' = Suffix(recv, k)
  /\ released' = released + k
  /\ UNCHANGED <<peerVars, credit, reader>>

(* Otherwise the next frame, of k bytes, is taken.                         *)
ReadFrame(m, k) ==
  /\ reader = "open"
  /\ buf = <<>>
  /\ k <= Len(recv)
  /\ LET data == Prefix(recv, k)
         n == Lesser(m, k)
     IN  got' = got \o Prefix(data, n) /\ buf' = Suffix(data, n)
  /\ recv' = Suffix(recv, k)
  /\ released' = released + k
  /\ UNCHANGED <<peerVars, credit, reader>>

(* A frame without bytes: Ok(0), which tells the caller of the end.        *)
ReadEmptyFrame ==
  /\ empties
  /\ reader = "open"
  /\ buf = <<>>
  /\ reader' = "eof"
  /\ UNCHANGED <<peerVars, credit, released, recv, buf, got>>

(* No frame is left: Ok(0).                                                *)
ReadEnd ==
  /\ reader = "open"
  /\ buf = <<>>
  /\ recv = <<>>
  /\ sender = "ended"
  /\ reader' = "eof"
  /\ UNCHANGED <<peerVars, credit, released, recv, buf, got>>

(* The stream was reset: BrokenPipe, whether frames are left or not.       *)
ReadError ==
  /\ reader = "open"
  /\ buf = <<>>
  /\ sender = "reset"
  /\ reader' = "error"
  /\ UNCHANGED <<peerVars, credit, released, recv, buf, got>>

PollRead ==
  \/ \E m \in 1 .. MaxOut :
       ReadBuffer(m) \/ \E k \in 1 .. Window : ReadFrame(m, k)
  \/ ReadEmptyFrame \/ ReadEnd \/ ReadError

Next == PeerSends \/ PeerEnds \/ PeerResets \/ WindowUpdate \/ PollRead

Spec == Init /\ [][Next]_vars

-----------------------------------------------------------------------------
(* Every variable keeps to its type.                                       *)
TypeOK ==
  /\ sent \in Seq(Bytes) /\ recv \in Seq(Bytes)
  /\ buf \in Seq(Bytes) /\ got \in Seq(Bytes)
  /\ sender \in {"open", "ended", "reset"} /\ empties \in BOOLEAN
  /\ reader \in {"open", "eof", "error"}
  /\ credit \in 0 .. Window /\ released \in 0 .. Window

(* The window is conserved: what the peer may not send lies in the queue   *)
(* or has been given back to h2 (release_capacity in poll_read).           *)
CreditConserved == credit + released + Len(recv) = Window

(* What is held in memory is bounded, although credit is given back before *)
(* the caller has the bytes (poll_read).                                   *)
MemoryBounded == Len(recv) + Len(buf) < 2 * Window

(* poll_read is a byte stream: nothing is lost, doubled or reordered over  *)
(* the carry-over, and the end is reported at the end.  The promise is     *)
(* only made to peers that send no DATA frame without bytes.               *)
Stream == INSTANCE ByteStream
IsByteStream ==
  Stream!Init /\ [][~empties => Stream!Next]_<<sent, sender, got, reader>>

(* The caller gets what has been received, to the last byte left over of a *)
(* frame, whether or not anything follows, unless the stream is reset or a *)
(* DATA frame without bytes ends the reading (poll_read).                  *)
ReceivedIsRead ==
  \A n \in 1 .. MaxSent :
    (Len(sent) >= n) ~> (Len(got) >= n \/ sender = "reset" \/ empties)
=============================================================================
