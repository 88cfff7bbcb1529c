----------------------------- MODULE Container -----------------------------
(***************************************************************************)
(* src/config_store.c: a configuration is a container of packets, each a   *)
(* number, a type and a payload whose size follows from the type alone.    *)
(* od_config_validate walks it once, with every check; config_packet walks *)
(* it again for each lookup, with a table of sizes of its own and no check *)
(* at all, so each step of it relies on what the first walk has found.     *)
(*                                                                         *)
(* The bytes are chosen as the validator comes to them and are remembered; *)
(* a byte it has never looked at as a type may be anything.                *)
(***************************************************************************)
EXTENDS Integers

CONSTANTS
    Lengths,    \* bound: lengths of a container
    LengthMax   \* OD_CONFIG_MAX

ASSUME ContainerAssumption == LengthMax \in Nat /\ Lengths \subseteq Nat

(* The packets this board can have, and those it must have.                *)
Types == {1, 2, 4, 32, 39, 44}
Required == {1, 2, 4, 32}

(* All the other values of a type byte.                                    *)
Unknown == 0

VARIABLES
    step,         \* "validate" and "walk" are the loops
    len,
    pos,        \* where the loop is
    place,      \* for each type the validator has seen: where
    wanted      \* the type that is looked up

containerVars == <<step, len, pos, place, wanted>>

Seen == DOMAIN place

ContainerTypeOK ==
    /\ step \in {"start", "validate", "refused", "valid", "walk", "found", "none"}
    /\ len \in Lengths /\ pos \in Nat
    /\ Seen \subseteq Types /\ place \in [Seen -> Nat]
    /\ wanted \in Types

ContainerInit ==
    /\ step = "start" /\ len \in Lengths /\ pos = 3
    /\ place = [t \in {} |-> 0]
    /\ wanted \in Types

-----------------------------------------------------------------------------
(* od_config_validate                                                      *)

(* Where the packets end: the outer checksum follows.                      *)
End == len - 2

Refused == step' = "refused" /\ UNCHANGED <<len, pos, place, wanted>>

(* The version, the length in the container and the outer checksum.        *)
Heading ==
    /\ step = "start"
    /\ \/ len >= 5 /\ len <= LengthMax /\ step' = "validate" /\ UNCHANGED <<len, pos, place, wanted>>
       \/ Refused

PayloadSize(t) ==
    CASE t = 4 -> 30 [] t = 32 -> 46 [] t = 39 -> 64 [] t = 44 -> 288 [] OTHER -> 22

PacketFits(t) == pos + 2 + PayloadSize(t) <= End

(* A packet that passes; the checks of its fields are abstracted.          *)
Packet(t) ==
    /\ step = "validate" /\ pos < End /\ pos + 2 <= End
    /\ t \notin Seen /\ PacketFits(t)
    /\ place' = [u \in Seen \cup {t} |-> IF u = t THEN pos ELSE place[u]]
    /\ pos' = pos + 2 + PayloadSize(t)
    /\ UNCHANGED <<step, len, wanted>>

(* It is numbered, is of no type or one too many, does not fit, or has a   *)
(* field this board cannot obey.                                           *)
BadPacket == step = "validate" /\ pos < End /\ Refused

HasRequired == Required \subseteq Seen

AllRead ==
    /\ step = "validate" /\ ~(pos < End)
    /\ IF HasRequired THEN step' = "valid" /\ UNCHANGED <<len, pos, place, wanted>> ELSE Refused

-----------------------------------------------------------------------------
(* config_packet, called any number of times for what has been validated   *)

FirstPacket == 3

Lookup(t) ==
    /\ step \in {"valid", "found", "none"}
    /\ step' = "walk" /\ pos' = FirstPacket /\ wanted' = t
    /\ UNCHANGED <<len, place>>

(* The byte read as a type: the validator's, if it has read it as one.     *)
Kinds ==
    LET there == {t \in Seen : place[t] = pos}
    IN  IF there = {} THEN Types \cup {Unknown} ELSE there

(* Mutant: security packets are missing from the table.                    *)
WalkedSizeOld(kind) ==
    CASE kind = 4 -> 30 [] kind = 32 -> 46 [] kind = 44 -> 288 [] OTHER -> 22

WalkedSize(kind) ==
    CASE kind = 4 -> 30 [] kind = 32 -> 46 [] kind = 39 -> 64 [] kind = 44 -> 288 [] OTHER -> 22

Walk ==
    /\ step = "walk" /\ pos < End
    /\ \E kind \in Kinds :
          IF kind = wanted THEN step' = "found" /\ UNCHANGED pos
          ELSE pos' = pos + WalkedSize(kind) + 2 /\ UNCHANGED step
    /\ UNCHANGED <<len, place, wanted>>

NotFound ==
    /\ step = "walk" /\ ~(pos < End)
    /\ step' = "none" /\ UNCHANGED <<len, pos, place, wanted>>

ContainerNext ==
    \/ Heading \/ (\E t \in Types : Packet(t)) \/ BadPacket \/ AllRead
    \/ (\E t \in Types : Lookup(t)) \/ Walk \/ NotFound

ContainerSpec == ContainerInit /\ [][ContainerNext]_containerVars

-----------------------------------------------------------------------------

(* The walk without checks stays on the packets of the walk with checks,   *)
(* and stops where that stopped: it takes no payload for a type and reads  *)
(* nothing behind the packets.                                             *)
WalksOnPackets ==
    step = "walk" => pos = End \/ \E t \in Seen : place[t] = pos

(* A lookup finds the packet of its type, and finds none only if there is  *)
(* none.                                                                   *)
LookupsFind ==
    /\ step = "found" => wanted \in Seen /\ place[wanted] = pos
    /\ step = "none" => wanted \notin Seen

(* All that the caller reads of a packet it has looked up lies before the  *)
(* checksum, and is of no other packet.                                    *)
PacketsAreApart ==
    step \in {"valid", "walk", "found", "none"} =>
        /\ Required \subseteq Seen
        /\ \A t \in Seen :
              /\ place[t] + 2 + PayloadSize(t) <= End
              /\ \A u \in Seen \ {t} :
                    \/ place[t] + 2 + PayloadSize(t) <= place[u]
                    \/ place[u] + 2 + PayloadSize(u) <= place[t]

=============================================================================
