----------------------------- MODULE ReplayMask -----------------------------
(***************************************************************************)
(* The replay window of src/security.c: the latest counter and a mask of   *)
(* the 32 counters that end with it.                                       *)
(***************************************************************************)
EXTENDS Integers

CONSTANT Window     \* bits of the mask: 32

ASSUME WindowAssumption == Window \in Nat \ {0}

(* Bit i of replay stands for the counter i behind rx_counter.             *)
Bits == 0 .. Window - 1

Fresh == [seen |-> FALSE, counter |-> 0, replay |-> {}]

(* Mutant: the oldest counter of the window is not looked up.              *)
RepeatedInside(w, counter) ==
    LET behind == w.counter - counter
    IN  w.seen /\ counter <= w.counter /\ (behind > Window \/ behind \in w.replay)

(* Counter zero is new to a window that has seen nothing.                  *)
Repeated(w, counter) ==
    LET behind == w.counter - counter
    IN  w.seen /\ counter <= w.counter /\ (behind >= Window \/ behind \in w.replay)

(* replay << ahead, in 32 bits; nothing is left of it when ahead is 32 or  *)
(* more.                                                                   *)
Shifted(replay, ahead) == {i + ahead : i \in replay} \cap Bits

Advanced(w, counter) ==
    IF ~w.seen \/ counter > w.counter
    THEN [seen |-> TRUE, counter |-> counter,
          replay |-> {0} \cup IF w.seen THEN Shifted(w.replay, counter - w.counter) ELSE {}]
    ELSE [w EXCEPT !.replay = @ \cup {w.counter - counter}]

=============================================================================
