------------------------- MODULE MCSourceVerification -------------------------
(* SourceVerification for TLC. *)
EXTENDS SourceVerification
=============================================================================
