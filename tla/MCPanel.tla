------------------------------- MODULE MCPanel -------------------------------
(* TLC instance of Panel.                                                  *)
EXTENDS Panel

=============================================================================
