---------------------------- MODULE ReplayWindow ----------------------------
(***************************************************************************)
(* The replay window of src/security.c by itself, from the start of a      *)
(* session.                                                                *)
(***************************************************************************)
EXTENDS Integers, ReplayMask

CONSTANT FrameCounters     \* counters of the client: below 2^63

ASSUME FramesAssumption == FrameCounters \subseteq Nat

VARIABLES
    rx,         \* rx_seen, rx_counter and replay of struct od_security
    accepted,   \* history: the counters accepted so far
    answer      \* what od_security_decrypt made of the last frame

windowVars == <<rx, accepted, answer>>

WindowTypeOK ==
    /\ rx \in [seen : BOOLEAN, counter : FrameCounters \cup {0}, replay : SUBSET Bits]
    /\ accepted \subseteq FrameCounters
    /\ answer \in {"none", "accepted", "repeated", "bad"}

WindowInit ==
    /\ rx = Fresh
    /\ accepted = {}
    /\ answer = "none"

-----------------------------------------------------------------------------

(* od_security_decrypt of a frame of this session.  The window moves only  *)
(* after the tag of the frame has been verified.                           *)
Decrypt(counter, authentic) ==
    IF Repeated(rx, counter)
    THEN /\ answer' = "repeated"
         /\ UNCHANGED <<rx, accepted>>
    ELSE IF ~authentic
    THEN /\ answer' = "bad"
         /\ UNCHANGED <<rx, accepted>>
    ELSE /\ rx' = Advanced(rx, counter)
         /\ accepted' = accepted \cup {counter}
         /\ answer' = "accepted"

(* No session, another one, a counter of the other direction, a bad length. *)
Refused ==
    /\ answer' = "bad"
    /\ UNCHANGED <<rx, accepted>>

WindowNext ==
    \/ \E counter \in FrameCounters, authentic \in BOOLEAN : Decrypt(counter, authentic)
    \/ Refused

WindowSpec == WindowInit /\ [][WindowNext]_windowVars

-----------------------------------------------------------------------------

(* The mask names exactly the accepted counters it has room for, and the   *)
(* latest of them is at its end: what the window remembers is neither      *)
(* forgotten by a jump nor invented by a shift.                            *)
WindowIsExact ==
    /\ rx.seen <=> accepted # {}
    /\ rx.seen => /\ rx.counter \in accepted
                  /\ \A a \in accepted : a <= rx.counter
                  /\ \A i \in Bits : i \in rx.replay <=> rx.counter - i \in accepted

(* No counter is accepted twice, however late or out of order its frames   *)
(* arrive, and no authentic frame whose counter is new and not too old is  *)
(* refused.                                                                *)
Promise == INSTANCE FreshCounters WITH Counters <- FrameCounters
ImplementsFreshCounters == Promise!Spec

=============================================================================
