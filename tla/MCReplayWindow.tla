--------------------------- MODULE MCReplayWindow ---------------------------
(* TLC instance of ReplayWindow.                                           *)
EXTENDS ReplayWindow

=============================================================================
