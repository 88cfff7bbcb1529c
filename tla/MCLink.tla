------------------------------- MODULE MCLink -------------------------------
(* TLC instance of Link.                                                   *)
EXTENDS Link

=============================================================================
