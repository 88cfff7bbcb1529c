------------------------------ MODULE MCSession ------------------------------
(* TLC instance of Session.                                                *)
EXTENDS Session

=============================================================================
