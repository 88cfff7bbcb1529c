----------------------------- MODULE MCTransfer -----------------------------
(* TLC instance of Transfer.                                               *)
EXTENDS Transfer

=============================================================================
