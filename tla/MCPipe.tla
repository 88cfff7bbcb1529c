------------------------------- MODULE MCPipe -------------------------------
(* TLC instance of Pipe.                                                   *)
EXTENDS Pipe

=============================================================================
