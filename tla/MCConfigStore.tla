---------------------------- MODULE MCConfigStore ----------------------------
(* TLC instance of ConfigStore.                                            *)
EXTENDS ConfigStore

CONSTANTS c1, c2

=============================================================================
