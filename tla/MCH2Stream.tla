----------------------------- MODULE MCH2Stream -----------------------------
(***************************************************************************)
(* Instances of H2Stream for TLC; the .cfg file gives all the constants.   *)
(***************************************************************************)
EXTENDS H2Stream

(* The windows are smaller than the streams, the reader's buffer smaller   *)
(* than its window, and one write longer than the peer's.                  *)
ASSUME TightBounds ==
  /\ MaxOut < Window /\ 2 * Window < MaxSent
  /\ PeerWindow < MaxWrite /\ MaxWrite <= MaxWritten
=============================================================================
