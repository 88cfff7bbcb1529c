----------------------------- MODULE ConfigStore -----------------------------
(***************************************************************************)
(* src/config_store.c: a configuration container is streamed into the      *)
(* inactive one of two flash slots and made valid by a commit word that is *)
(* written last.  One action per flash operation: power may fail between   *)
(* any two of them and in the middle of one, and each may report an error. *)
(*                                                                         *)
(* A container is Size bytes.  A byte is named by the container it comes   *)
(* from, so a container is intact when all its bytes agree: the model's    *)
(* form of the two CRCs and of od_config_validate.                         *)
(***************************************************************************)
EXTENDS Integers, Sequences

CONSTANTS
    Containers,          \* valid configuration containers
    Default,             \* the built-in configuration
    Nothing,             \* no container
    Blank, Torn,         \* an erased byte; one whose write was disturbed
    Size,                \* bytes of a container
    WordBytes,           \* bytes of a flash word: 4
    GenerationModulus    \* values of the 32-bit generation: 2^32

ASSUME ConfigAssumption ==
    /\ Size \in Nat \ {0}
    /\ WordBytes \in Nat \ {0}
    /\ GenerationModulus \in Nat /\ GenerationModulus > 3
    /\ Default \notin Containers /\ Nothing \notin Containers \cup {Default}
    /\ Blank \notin Containers /\ Torn \notin Containers \cup {Blank}

VARIABLES
    slots,        \* the flash: two slots
    activeSlot,   \* active_slot
    generation,   \* generation
    staging,      \* staging
    expected,     \* expected
    received,     \* received
    pc,           \* the flash operation in progress, "idle" between calls
    chunk,        \* the bytes an append is given
    at            \* how many of them it has written: the local i

VARIABLE
    sent          \* history: every byte the open transaction was given

ramVars == <<activeSlot, generation, staging, expected, received>>
vars == <<slots, ramVars, pc, chunk, at, sent>>

-----------------------------------------------------------------------------

Slots == {0, 1}
None == -1
Byte == Containers \cup {Blank, Torn}
Generation == 0 .. GenerationModulus - 1
Positions == 0 .. Size - 1

(* The header is written before the commit word; a disturbed header or     *)
(* commit word is never a valid one.                                       *)
Header == [generation : Generation, length : {0, Size}]
NoHeader == [generation |-> 0, length |-> -1]
Slot == [header : Header \cup {NoHeader}, committed : BOOLEAN,
         body : [Positions -> Byte]]

Erased == [header |-> NoHeader, committed |-> FALSE, body |-> [i \in Positions |-> Blank]]
TornBody == [i \in Positions |-> Torn]

(* What an erase can leave behind when it fails or power does: the slot as *)
(* it was or blank, or with any part of it disturbed.                      *)
Disturbed(slot) ==
    {slot, Erased} \cup
    [header : {slot.header, NoHeader}, committed : {slot.committed, FALSE}, body : {TornBody}]

TypeOK ==
    /\ slots \in [Slots -> Slot]
    /\ activeSlot \in Slots \cup {None}
    /\ generation \in Generation
    /\ staging \in Slots \cup {None}
    /\ expected \in 0 .. Size
    /\ received \in 0 .. expected
    /\ pc \in {"idle", "erase", "clear", "write", "header", "commit"}
    /\ chunk \in Seq(Containers) /\ Len(chunk) <= Size
    /\ at \in 0 .. Len(chunk)
    /\ sent \in Seq(Containers) /\ Len(sent) <= Size

(* od_config_validate and the checksum.                                    *)
Intact(body) == \E c \in Containers : \A i \in Positions : body[i] = c

Valid(slot) ==
    /\ slot.committed
    /\ slot.header # NoHeader
    /\ slot.header.length # 0 => Intact(slot.body)

(* Mutant: generations compared as plain numbers.                          *)
NewerUnsigned(g, h) == g > h

(* (int32_t)(g - h) > 0                                                    *)
Newer(g, h) == (g - h) % GenerationModulus \in 1 .. (GenerationModulus \div 2) - 1

(* The scan of od_config_init, first slot 0 and then slot 1.               *)
Scan(flash) ==
    IF Valid(flash[0])
    THEN IF Valid(flash[1]) /\ Newer(flash[1].header.generation, flash[0].header.generation)
         THEN 1 ELSE 0
    ELSE IF Valid(flash[1]) THEN 1 ELSE None

(* od_config_get: no slot and the tombstone both mean the default.         *)
Content(flash, slot) ==
    IF slot = None THEN Default
    ELSE IF flash[slot].header.length = 0 THEN Default
    ELSE flash[slot].body[0]

(* Mutant: the container is read into a buffer.                            *)
PointerOfCopy(flash, slot) == "buffer"

(* Where od_config_get finds it.                                           *)
Pointer(flash, slot) ==
    IF slot = None THEN "default"
    ELSE IF flash[slot].header.length = 0 THEN "default"
    ELSE IF slot = 0 THEN "slot 0" ELSE "slot 1"

Init ==
    /\ slots = [s \in Slots |-> Erased]
    /\ activeSlot = None
    /\ generation = 0
    /\ staging = None
    /\ expected = 0
    /\ received = 0
    /\ pc = "idle"
    /\ chunk = <<>>
    /\ at = 0
    /\ sent = <<>>

-----------------------------------------------------------------------------
(* Calls.                                                                  *)

(* od_config_cancel                                                        *)
Cancelled ==
    /\ staging' = None
    /\ expected' = 0
    /\ received' = 0
    /\ sent' = <<>>

Cancel ==
    /\ pc = "idle"
    /\ Cancelled
    /\ UNCHANGED <<slots, activeSlot, generation, pc, chunk, at>>

(* od_config_start and od_config_clear cancel whatever was open and erase  *)
(* the target; a start of more than OD_CONFIG_MAX bytes stops there.       *)
Start(call) ==
    /\ pc = "idle"
    /\ Cancelled
    /\ pc' = call
    /\ UNCHANGED <<slots, activeSlot, generation, chunk, at>>

(* Mutant: the target is the slot in use.                                  *)
TargetInUse == IF activeSlot = 1 THEN 1 ELSE 0

Target == IF activeSlot = 0 THEN 1 ELSE 0

(* Once erased, a start waits for data while a clear goes on to commit the *)
(* empty container it is about to read back as the tombstone.              *)
Erase ==
    /\ pc \in {"erase", "clear"}
    /\ slots' = [slots EXCEPT ![Target] = Erased]
    /\ staging' = Target
    /\ expected' = IF pc = "erase" THEN Size ELSE 0
    /\ received' = 0
    /\ sent' = <<>>
    /\ pc' = IF pc = "erase" THEN "idle" ELSE "header"
    /\ UNCHANGED <<activeSlot, generation, chunk, at>>

EraseFails ==
    /\ pc \in {"erase", "clear"}
    /\ \E slot \in Disturbed(slots[Target]) : slots' = [slots EXCEPT ![Target] = slot]
    /\ pc' = "idle"
    /\ UNCHANGED <<ramVars, chunk, at, sent>>

(* Mutant: a chunk may exceed the declared length.                         *)
FitsAnyway(bytes) == staging # None /\ Len(bytes) > 0 /\ received + Len(bytes) <= Size + 1

Fits(bytes) == staging # None /\ Len(bytes) > 0 /\ Len(bytes) <= expected - received

(* od_config_append: a chunk that does not fit ends the transaction.       *)
AppendBytes(bytes) ==
    /\ pc = "idle"
    /\ IF Fits(bytes)
       THEN /\ pc' = "write"
            /\ chunk' = bytes
            /\ at' = 0
            /\ sent' = sent \o bytes
            /\ UNCHANGED <<staging, expected, received>>
       ELSE Cancelled /\ UNCHANGED <<pc, chunk, at>>
    /\ UNCHANGED <<slots, activeSlot, generation>>

(* Programming flash only clears bits: a byte takes a new value once.      *)
Program(old, new) ==
    CASE new = Blank -> old
      [] old = Blank -> new
      [] old = new   -> old
      [] OTHER       -> Torn

(* The positions of the flash word being written, and those of them this   *)
(* write is for.                                                           *)
Offset == received + at
WordStart == (Offset \div WordBytes) * WordBytes
Word == {i \in Positions : i >= WordStart /\ i < WordStart + WordBytes}

Written == {i \in Word : i >= Offset /\ i - Offset < Len(chunk) - at}

(* Read the word, replace the bytes that are due, write it back.           *)
NewWord(body) ==
    [i \in Positions |->
        IF i \in Written THEN Program(body[i], chunk[at + 1 + i - Offset]) ELSE body[i]]

TornWord(body) == [i \in Positions |-> IF i \in Word THEN Torn ELSE body[i]]

(* received reaches expected: validate, or wait for more.                  *)
Completed(body) ==
    IF received + Len(chunk) < expected
    THEN /\ received' = received + Len(chunk)
         /\ pc' = "idle"
         /\ UNCHANGED <<staging, expected, sent>>
    ELSE IF Intact(body)
    THEN /\ received' = received + Len(chunk)
         /\ pc' = "header"
         /\ UNCHANGED <<staging, expected, sent>>
    ELSE Cancelled /\ pc' = "idle"

WriteWord ==
    /\ pc = "write"
    /\ LET body == NewWord(slots[staging].body)
           next == WordStart + WordBytes - received
       IN  /\ slots' = [slots EXCEPT ![staging].body = body]
           /\ IF next < Len(chunk)
              THEN /\ at' = next
                   /\ UNCHANGED <<staging, expected, received, pc, sent, chunk>>
              ELSE /\ at' = 0
                   /\ chunk' = <<>>
                   /\ Completed(body)
    /\ UNCHANGED <<activeSlot, generation>>

WriteWordFails ==
    /\ pc = "write"
    /\ \E body \in {slots[staging].body, NewWord(slots[staging].body),
                    TornWord(slots[staging].body)} :
          slots' = [slots EXCEPT ![staging].body = body]
    /\ pc' = "idle"
    /\ chunk' = <<>>
    /\ at' = 0
    /\ Cancelled
    /\ UNCHANGED <<activeSlot, generation>>

NewHeader == [generation |-> (generation + 1) % GenerationModulus, length |-> expected]

WriteHeader ==
    /\ pc = "header"
    /\ slots' = [slots EXCEPT ![staging].header = NewHeader]
    /\ pc' = "commit"
    /\ UNCHANGED <<ramVars, chunk, at, sent>>

WriteHeaderFails ==
    /\ pc = "header"
    /\ \E header \in {NoHeader, NewHeader} :
          slots' = [slots EXCEPT ![staging].header = header]
    /\ pc' = "idle"
    /\ Cancelled
    /\ UNCHANGED <<activeSlot, generation, chunk, at>>

SwitchSlot ==
    /\ activeSlot' = staging
    /\ generation' = slots[staging].header.generation

(* The commit word, written last, and then the switch to the new slot.     *)
WriteCommit ==
    /\ pc = "commit"
    /\ slots' = [slots EXCEPT ![staging].committed = TRUE]
    /\ pc' = "idle"
    /\ SwitchSlot
    /\ Cancelled
    /\ UNCHANGED <<chunk, at>>

WriteCommitFails ==
    /\ pc = "commit"
    /\ \E committed \in BOOLEAN :
          slots' = [slots EXCEPT ![staging].committed = committed]
    /\ pc' = "idle"
    /\ Cancelled
    /\ UNCHANGED <<activeSlot, generation, chunk, at>>

-----------------------------------------------------------------------------
(* Power fails, between two flash operations or during one, and            *)
(* od_config_init scans what is left.                                      *)

Interrupted ==
    CASE pc \in {"erase", "clear"} ->
            {[slots EXCEPT ![Target] = slot] : slot \in Disturbed(slots[Target])}
      [] pc = "write" ->
            {[slots EXCEPT ![staging].body = body] :
                body \in {slots[staging].body, NewWord(slots[staging].body),
                          TornWord(slots[staging].body)}}
      [] pc = "header" -> {[slots EXCEPT ![staging].header = header] : header \in {NoHeader, NewHeader}}
      [] pc = "commit" -> {[slots EXCEPT ![staging].committed = committed] : committed \in BOOLEAN}
      [] pc = "idle" -> {slots}

Reboot ==
    /\ slots' \in Interrupted
    /\ activeSlot' = Scan(slots')
    /\ generation' = IF activeSlot' = None THEN 0 ELSE slots'[activeSlot'].header.generation
    /\ Cancelled
    /\ pc' = "idle"
    /\ chunk' = <<>>
    /\ at' = 0

-----------------------------------------------------------------------------

(* A chunk carries bytes of one container, or of two when the peer errs.   *)
Chunks == UNION {[1 .. n -> Containers] : n \in 1 .. Size}

Next ==
    \/ Cancel
    \/ \E call \in {"erase", "clear"} : Start(call)
    \/ Erase \/ EraseFails
    \/ \E bytes \in Chunks : AppendBytes(bytes)
    \/ WriteWord \/ WriteWordFails
    \/ WriteHeader \/ WriteHeaderFails
    \/ WriteCommit \/ WriteCommitFails
    \/ Reboot

Spec == Init /\ [][Next]_vars

-----------------------------------------------------------------------------

(* The bytes received so far are in flash, in order and undisturbed, no    *)
(* matter how the peer's chunks fall on flash words.                       *)
ReceivedBytesAreStored ==
    pc = "idle" /\ staging # None =>
        /\ received = Len(sent)
        /\ \A i \in 0 .. received - 1 : slots[staging].body[i] = sent[i + 1]

(* Two valid slots are always one generation apart, which is what makes    *)
(* the signed comparison of the scan meaningful across the wrap.           *)
ValidSlotsAreAdjacent ==
    Valid(slots[0]) /\ Valid(slots[1]) =>
        \/ Newer(slots[0].header.generation, slots[1].header.generation)
        \/ Newer(slots[1].header.generation, slots[0].header.generation)

(* The slot in use stays valid: nothing a transaction does, and no failure *)
(* of it, touches the configuration being read.                            *)
ActiveSlotStaysValid == activeSlot # None => Valid(slots[activeSlot])

(* The slots between two operations: what is read, what is being written   *)
(* and what the next boot will choose from.                                *)
SlotsAreSound == ReceivedBytesAreStored /\ ValidSlotsAreAdjacent /\ ActiveSlotStaysValid

(* A change of the configuration in force moves it: main compares pointers *)
(* before and after a command to learn that the key may be another.        *)
ChangesAreNoticed ==
    [][Content(slots', activeSlot') # Content(slots, activeSlot)
        => Pointer(slots', activeSlot') # Pointer(slots, activeSlot)]_vars

(* The container the open transaction has completed; a clear has completed *)
(* the default from the start.                                             *)
Offered ==
    IF pc = "clear" THEN Default
    ELSE IF pc = "header" \/ pc = "commit"
    THEN IF expected = 0 THEN Default ELSE sent[1]
    ELSE Nothing

Register == INSTANCE ConfigRegister WITH
    visible <- Content(slots, activeSlot),
    durable <- Content(slots, Scan(slots)),
    offered <- Offered

(* The store implements the register: it changes only to a container that  *)
(* was sent completely, and power loss leaves the old one or the new one.  *)
ImplementsRegister == Register!Spec

=============================================================================
