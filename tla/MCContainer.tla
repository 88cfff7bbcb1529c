----------------------------- MODULE MCContainer ----------------------------
(* TLC instance of Container.                                              *)
EXTENDS Container

(* The lengths of all containers with the four packets every board has,    *)
(* with one byte less or more, and some of none.                           *)
BoardLengths == {4, 5, 6, 29, 769} \cup UNION {{n - 1, n, n + 1} : n \in {133, 199, 423, 489}}

=============================================================================
