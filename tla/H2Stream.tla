------------------------------ MODULE H2Stream ------------------------------
(***************************************************************************)
(* The two directions of the control stream, as RPC uses them: H2Reader    *)
(* for what the edge sends, H2Writer for what it is sent.  Each has a      *)
(* window of its own; a reset ends both.                                   *)
(***************************************************************************)
EXTENDS H2Reader

CONSTANTS
  MaxWritten, MaxWrite,   \* MaxSent and MaxWrite of H2Writer
  PeerWindow              \* the window of the peer

ASSUME H2StreamAssumption ==
  /\ MaxWritten \in Nat
  /\ MaxWrite \in Nat \ {0}
  /\ PeerWindow \in Nat \ {0}

VARIABLES wSent, wSender, wQueue, wCredit, wGot, wReader

writerVars == <<wSent, wSender, wQueue, wCredit, wGot, wReader>>
streamVars == <<vars, writerVars>>

Writer == INSTANCE H2Writer WITH
  MaxSent <- MaxWritten, Window <- PeerWindow,
  sent <- wSent, sender <- wSender, queue <- wQueue, credit <- wCredit,
  got <- wGot, reader <- wReader

StreamInit == Init /\ Writer!Init

Reads ==
  (PeerSends \/ PeerEnds \/ WindowUpdate \/ PollRead) /\ UNCHANGED writerVars

Writes ==
  (Writer!PollWrite \/ Writer!PollClose \/ Writer!Connection \/ Writer!PeerGrants)
    /\ UNCHANGED vars

(* A reset by the peer, or by h2 when the RPC system is dropped.           *)
Resets ==
  /\ PeerResets
  /\ IF wReader = "open" THEN Writer!Resets ELSE UNCHANGED writerVars

StreamNext == Reads \/ Writes \/ Resets

(* The RPC system polls its reader whenever it is woken.  Nothing is       *)
(* assumed of the connection: connect_and_serve does not poll it while the *)
(* RPC system runs (module Tunnel).                                        *)
StreamSpec ==
  /\ StreamInit /\ [][StreamNext]_streamVars
  /\ WF_streamVars(PollRead /\ UNCHANGED writerVars)

-----------------------------------------------------------------------------
(* The writer is a byte stream for the peer: what poll_write took arrives  *)
(* in order and before the end that poll_close queued (H2Writer).          *)
WriterIsByteStream == Writer!IsByteStream
=============================================================================
