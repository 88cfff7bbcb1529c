------------------------------ MODULE MCNotify ------------------------------
(* TLC instance of Notify: eight tickets, so that they come round.         *)
EXTENDS Notify

=============================================================================
