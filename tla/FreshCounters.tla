---------------------------- MODULE FreshCounters ----------------------------
(***************************************************************************)
(* What the receiver of encrypted frames promises about their counters: no *)
(* counter is accepted twice, and an authentic frame is refused only if    *)
(* its counter was accepted before or is too old to tell.                  *)
(***************************************************************************)
EXTENDS Integers

CONSTANTS
    Window,     \* how far a counter may be behind the latest: 32
    Counters    \* counters of the client: below 2^63

VARIABLES
    accepted,   \* the counters accepted in this session
    answer      \* what became of the last frame

Init == accepted = {} /\ answer = "none"

Accept(counter) ==
    /\ counter \notin accepted
    /\ \A a \in accepted : a - counter < Window
    /\ accepted' = accepted \cup {counter}
    /\ answer' = "accepted"

Repeat(counter) ==
    /\ \/ counter \in accepted
       \/ \E a \in accepted : a - counter >= Window
    /\ answer' = "repeated"
    /\ UNCHANGED accepted

Bad ==
    /\ answer' = "bad"
    /\ UNCHANGED accepted

Next ==
    \/ \E counter \in Counters : Accept(counter) \/ Repeat(counter)
    \/ Bad

Spec == Init /\ [][Next]_<<accepted, answer>>

=============================================================================
