------------------------- MODULE MCStandaloneProxy -------------------------
(***************************************************************************)
(* Instances of StandaloneProxy for TLC; the .cfg files give the constants.*)
(***************************************************************************)
EXTENDS StandaloneProxy

(* More is sent than the buffer of io::copy holds.                         *)
ASSUME TightBounds == MaxCopy < MaxSent
=============================================================================
