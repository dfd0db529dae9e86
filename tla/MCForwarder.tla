------------------------------ MODULE MCForwarder ------------------------------
(***************************************************************************)
(* Forwarder for TLC.                                                      *)
(***************************************************************************)
EXTENDS Forwarder, TLC

=============================================================================
