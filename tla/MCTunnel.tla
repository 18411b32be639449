------------------------------ MODULE MCTunnel ------------------------------
(***************************************************************************)
(* Instances of Tunnel for TLC.  The .cfg files give the streams as model  *)
(* values.                                                                 *)
(***************************************************************************)
EXTENDS Tunnel
=============================================================================
