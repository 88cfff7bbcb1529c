-------------------------- MODULE ConfigStoreProofs --------------------------
(***************************************************************************)
(* ConfigStore for containers, flash words and generations of any size:    *)
(* what is in use stays valid, and the store implements ConfigRegister,    *)
(* wherever power fails.  And Container, for containers of every length.   *)
(***************************************************************************)
EXTENDS ConfigStore, Container, SequenceTheorems, TLAPS

Other(slot) == IF slot = 0 THEN 1 ELSE 0

(* A generation after and one before.                                      *)
After(g) == (g + 1) % GenerationModulus
Before(g) == (g - 1) % GenerationModulus

(* A flash with the active slot a of generation g: the other slot, if it   *)
(* is valid, was in use before or has been committed without anybody       *)
(* knowing.                                                                *)
Consistent(flash, a, g) ==
    /\ a # None => Valid(flash[a]) /\ flash[a].header.generation = g
    /\ a = None => g = 0 /\ ~Valid(flash[1])
    /\ Valid(flash[Other(a)]) =>
           \/ flash[Other(a)].header.generation = After(g)
           \/ a # None /\ flash[Other(a)].header.generation = Before(g)

InUse == Consistent(slots, activeSlot, generation)

(* What a transaction holds at each point of it.                           *)
Transaction ==
    /\ staging = None => expected = 0 /\ received = 0 /\ sent = <<>>
    /\ staging # None => staging = Target /\ slots[staging].committed = FALSE
    /\ pc \in {"erase", "clear"} => staging = None
    /\ pc \in {"write", "header", "commit"} => staging # None
    /\ pc # "write" => chunk = <<>> /\ at = 0
    /\ pc = "write" => at < Len(chunk)
    /\ pc \in {"idle", "write"} /\ staging # None => expected = Size

(* The bytes that are in flash while more are expected ...                 *)
Stored ==
    pc \in {"idle", "write"} /\ staging # None =>
        /\ Len(sent) = received + Len(chunk)
        /\ \A i \in Positions :
               slots[staging].body[i] = IF i < received + at THEN sent[i + 1] ELSE Blank
        /\ \A j \in 1 .. Len(chunk) : chunk[j] = sent[received + j]

(* ... and once all of them are.                                           *)
Complete ==
    /\ pc \in {"header", "commit"} =>
           \/ expected = 0
           \/ /\ expected = Size /\ Len(sent) = Size
              /\ Intact(slots[staging].body) /\ slots[staging].body[0] = sent[1]
    /\ pc = "commit" => slots[staging].header = NewHeader

IInv == TypeOK /\ InUse /\ Transaction /\ Stored /\ Complete

-----------------------------------------------------------------------------
(* Generations: the one after and the one before, compared as signed       *)
(* numbers of their width.                                                 *)

LEMMA Modulus ==
    /\ GenerationModulus \in Nat /\ GenerationModulus > 3
    /\ GenerationModulus \div 2 \in Nat /\ GenerationModulus \div 2 >= 2
    /\ GenerationModulus \div 2 < GenerationModulus
<1>1. \A m \in Nat : m > 3 => m \div 2 \in Nat /\ m \div 2 >= 2 /\ m \div 2 < m
  <2> SUFFICES ASSUME NEW m \in Nat, m > 3
               PROVE  m \div 2 \in Nat /\ m \div 2 >= 2 /\ m \div 2 < m
    OBVIOUS
  <2>1. m \div 2 \in Int /\ m = 2 * (m \div 2) + (m % 2) /\ m % 2 \in 0 .. 1
    OBVIOUS
  <2> QED
    BY <2>1
<1> QED
  BY <1>1, ConfigAssumption

LEMMA Wraps ==
    ASSUME NEW m \in Nat \ {0}, NEW x \in Int, -m <= x, x < m
    PROVE  x % m = IF x >= 0 THEN x ELSE x + m
<1>1. \A q \in Int, r \in 0 .. m - 1, y \in Int : y = q * m + r => y % m = r
  OBVIOUS
<1>2. CASE x >= 0
  BY <1>2
<1>3. CASE x < 0
  <2>1. x + m \in 0 .. m - 1 /\ x = (-1) * m + (x + m) /\ -1 \in Int
    BY <1>3
  <2> QED
    BY <1>1, <1>3, <2>1
<1> QED
  BY <1>2, <1>3

LEMMA Generations ==
    ASSUME NEW g \in Generation
    PROVE  /\ After(g) \in Generation /\ Before(g) \in Generation /\ After(g) # Before(g)
           /\ Before(After(g)) = g
           /\ Newer(After(g), g) /\ ~Newer(g, After(g))
           /\ Newer(g, Before(g)) /\ ~Newer(Before(g), g)
<1> DEFINE m == GenerationModulus
           half == GenerationModulus \div 2
<1>1. /\ m \in Nat \ {0} /\ m > 3 /\ half \in Nat /\ half >= 2 /\ half < m
      /\ g \in 0 .. m - 1
  BY Modulus DEF Generation
<1> HIDE DEF m, half
<1>2. \A x \in Int : -m <= x /\ x < m => x % m = IF x >= 0 THEN x ELSE x + m
  BY <1>1, Wraps
<1>3. m % m = 0
  BY <1>1
<1>4. (g + 1) % m = IF g = m - 1 THEN 0 ELSE g + 1
  BY <1>1, <1>2, <1>3
<1>5. (g - 1) % m = IF g = 0 THEN m - 1 ELSE g - 1
  BY <1>1, <1>2
<1> DEFINE a == (g + 1) % m
           b == (g - 1) % m
<1>6. a \in 0 .. m - 1 /\ b \in 0 .. m - 1 /\ a # b
  BY <1>1, <1>4, <1>5
<1>7. (a - 1) % m = g
  BY <1>1, <1>2, <1>4
<1>8. (a - g) % m = 1 /\ (g - a) % m = m - 1
  BY <1>1, <1>2, <1>4
<1>9. (g - b) % m = 1 /\ (b - g) % m = m - 1
  BY <1>1, <1>2, <1>5
<1>10. 1 \in 1 .. half - 1 /\ m - 1 \notin 1 .. half - 1
  BY <1>1
<1> QED
  BY <1>6, <1>7, <1>8, <1>9, <1>10 DEF m, half, a, b, After, Before, Newer, Generation

-----------------------------------------------------------------------------
(* Slots.                                                                  *)

LEMMA SlotFacts ==
    /\ Size \in Nat /\ Size > 0 /\ 0 \in Positions /\ Slots = {0, 1} /\ None \notin Slots
    /\ Erased \in Slot /\ Erased.committed = FALSE
    /\ TornBody \in [Positions -> Byte] /\ ~Intact(TornBody)
    /\ NoHeader \notin Header
<1>1. Size \in Nat /\ Size > 0 /\ 0 \in Positions
  BY ConfigAssumption DEF Positions
<1>2. Erased \in Slot /\ Erased.committed = FALSE
  BY DEF Erased, Slot, Byte
<1>3. TornBody \in [Positions -> Byte]
  BY DEF TornBody, Byte
<1>4. ~Intact(TornBody)
  BY <1>1, ConfigAssumption DEF Intact, TornBody
<1>5. NoHeader \notin Header
  <2> SUFFICES ASSUME NoHeader \in Header PROVE FALSE
    OBVIOUS
  <2>1. NoHeader.length \in {0, Size}
    BY DEF Header
  <2>2. NoHeader.length = -1
    BY DEF NoHeader
  <2> QED
    BY <1>1, <2>1, <2>2
<1> QED
  BY <1>1, <1>2, <1>3, <1>4, <1>5 DEF Slots, None

(* The parts of a slot that are written.                                   *)
LEMMA Parts ==
    ASSUME NEW slot \in Slot
    PROVE  /\ slot.header \in Header \cup {NoHeader} /\ slot.committed \in BOOLEAN
           /\ slot.body \in [Positions -> Byte]
BY DEF Slot

LEMMA WithBody ==
    ASSUME NEW slot \in Slot, NEW body \in [Positions -> Byte]
    PROVE  LET v == [slot EXCEPT !.body = body]
           IN  v \in Slot /\ v.body = body /\ v.header = slot.header /\ v.committed = slot.committed
BY DEF Slot

LEMMA WithHeader ==
    ASSUME NEW slot \in Slot, NEW header \in Header \cup {NoHeader}
    PROVE  LET v == [slot EXCEPT !.header = header]
           IN  v \in Slot /\ v.header = header /\ v.body = slot.body /\ v.committed = slot.committed
BY DEF Slot

LEMMA WithCommitted ==
    ASSUME NEW slot \in Slot, NEW committed \in BOOLEAN
    PROVE  LET v == [slot EXCEPT !.committed = committed]
           IN  v \in Slot /\ v.committed = committed /\ v.body = slot.body /\ v.header = slot.header
BY DEF Slot

(* What is left of a slot is what it was, if it is valid at all.           *)
Kept(v, slot) ==
    Valid(v) => /\ Valid(slot) /\ v.header = slot.header
                /\ v.header.length # 0 => v.body = slot.body

LEMMA DisturbedFacts ==
    ASSUME NEW slot \in Slot, NEW v \in Disturbed(slot)
    PROVE  v \in Slot /\ Kept(v, slot)
<1>1. CASE v = slot
  BY <1>1 DEF Kept
<1>2. CASE v = Erased
  BY <1>2, SlotFacts DEF Kept, Valid
<1>3. CASE v \in [header : {slot.header, NoHeader}, committed : {slot.committed, FALSE}, body : {TornBody}]
  <2>1. v.header \in {slot.header, NoHeader} /\ v.committed \in {slot.committed, FALSE} /\ v.body = TornBody
    BY <1>3
  <2>2. v \in Slot
    <3>1. slot.header \in Header \cup {NoHeader} /\ slot.committed \in BOOLEAN
      BY DEF Slot
    <3>2. {slot.header, NoHeader} \subseteq Header \cup {NoHeader} /\ {slot.committed, FALSE} \subseteq BOOLEAN
      BY <3>1
    <3>3. {TornBody} \subseteq [Positions -> Byte]
      BY SlotFacts
    <3>4. v \in [header : Header \cup {NoHeader}, committed : BOOLEAN, body : [Positions -> Byte]]
      BY <1>3, <3>2, <3>3
    <3> QED
      BY <3>4 DEF Slot
  <2>3. Kept(v, slot)
    BY <2>1, SlotFacts DEF Kept, Valid
  <2> QED
    BY <2>2, <2>3
<1> QED
  BY <1>1, <1>2, <1>3 DEF Disturbed

-----------------------------------------------------------------------------
(* The flash: one slot is changed at a time.                               *)

LEMMA Update ==
    ASSUME NEW flash \in [Slots -> Slot], NEW s \in Slots, NEW v \in Slot
    PROVE  /\ [flash EXCEPT ![s] = v] \in [Slots -> Slot]
           /\ [flash EXCEPT ![s] = v][s] = v
           /\ \A t \in Slots : t # s => [flash EXCEPT ![s] = v][t] = flash[t]
OBVIOUS

LEMMA UpdatePart ==
    ASSUME NEW flash \in [Slots -> Slot], NEW s \in Slots, NEW x
    PROVE  /\ [flash EXCEPT ![s].body = x] = [flash EXCEPT ![s] = [flash[s] EXCEPT !.body = x]]
           /\ [flash EXCEPT ![s].header = x] = [flash EXCEPT ![s] = [flash[s] EXCEPT !.header = x]]
           /\ [flash EXCEPT ![s].committed = x] = [flash EXCEPT ![s] = [flash[s] EXCEPT !.committed = x]]
OBVIOUS

LEMMA Others ==
    ASSUME NEW a \in Slots \cup {None}
    PROVE  /\ Other(a) \in Slots /\ Other(a) # a
           /\ a # None => a \in Slots /\ Other(Other(a)) = a
           /\ a = None => Other(a) = 0 /\ Other(Other(a)) = 1
           /\ \A s \in Slots : s # a /\ a # None => s = Other(a)
BY SlotFacts DEF Other, None

LEMMA ValidHeader ==
    ASSUME NEW slot \in Slot, Valid(slot)
    PROVE  /\ slot.header \in Header /\ slot.header.generation \in Generation
           /\ slot.header.length \in {0, Size}
BY DEF Slot, Valid, Header

(* The scan keeps the active slot unless the other one has been committed. *)
LEMMA ScanFacts ==
    ASSUME NEW flash \in [Slots -> Slot], NEW a \in Slots \cup {None}, NEW g \in Generation,
           Consistent(flash, a, g)
    PROVE  Scan(flash) =
               IF Valid(flash[Other(a)]) /\ flash[Other(a)].header.generation = After(g)
               THEN Other(a) ELSE a
<1>1. CASE a = None
  BY <1>1, SlotFacts DEF Consistent, Scan, Other
<1>2. CASE a = 0
  BY <1>2, SlotFacts, Generations DEF Consistent, Scan, Other
<1>3. CASE a = 1
  BY <1>3, SlotFacts, Generations DEF Consistent, Scan, Other
<1> QED
  BY <1>1, <1>2, <1>3, SlotFacts

LEMMA Rescanned ==
    ASSUME NEW flash \in [Slots -> Slot], NEW a \in Slots \cup {None}, NEW g \in Generation,
           Consistent(flash, a, g)
    PROVE  LET b == Scan(flash)
           IN  /\ b \in Slots \cup {None}
               /\ (IF b = None THEN 0 ELSE flash[b].header.generation) \in Generation
               /\ Consistent(flash, b, IF b = None THEN 0 ELSE flash[b].header.generation)
<1>1. CASE Scan(flash) = a
  BY <1>1, Modulus, SlotFacts DEF Consistent, Generation, None
<1>2. CASE Scan(flash) # a
  <2>1. /\ Scan(flash) = Other(a) /\ Valid(flash[Other(a)])
        /\ flash[Other(a)].header.generation = After(g)
    BY <1>2, ScanFacts
  <2>2. After(g) \in Generation /\ Before(After(g)) = g
    BY Generations
  <2>3. Other(a) \in Slots /\ Other(a) # None
    BY Others, SlotFacts
  <2>4. Consistent(flash, Other(a), After(g))
    <3>1. CASE a = None
      BY <3>1, <2>1, <2>3, Others DEF Consistent
    <3>2. CASE a # None
      BY <3>2, <2>1, <2>2, <2>3, Others DEF Consistent
    <3> QED
      BY <3>1, <3>2
  <2> QED
    BY <2>1, <2>2, <2>3, <2>4
<1> QED
  BY <1>1, <1>2

(* What disturbs or commits the other slot leaves a consistent flash.      *)
LEMMA OtherChanged ==
    ASSUME NEW flash \in [Slots -> Slot], NEW a \in Slots \cup {None}, NEW g \in Generation,
           Consistent(flash, a, g), NEW v \in Slot,
           Kept(v, flash[Other(a)]) \/ v.header.generation = After(g)
    PROVE  /\ Consistent([flash EXCEPT ![Other(a)] = v], a, g)
           /\ Content([flash EXCEPT ![Other(a)] = v], a) = Content(flash, a)
           /\ Pointer([flash EXCEPT ![Other(a)] = v], a) = Pointer(flash, a)
<1> DEFINE new == [flash EXCEPT ![Other(a)] = v]
<1>1. /\ Other(a) \in Slots /\ new[Other(a)] = v
      /\ \A t \in Slots : t # Other(a) => new[t] = flash[t]
  BY Others, Update
<1>2. a # None => new[a] = flash[a]
  BY <1>1, Others
<1>3. a = None => new[1] = flash[1]
  BY <1>1, Others, SlotFacts
<1> HIDE DEF new
<1>4. Consistent(new, a, g)
  BY <1>1, <1>2, <1>3 DEF Consistent, Kept
<1>5. Content(new, a) = Content(flash, a) /\ Pointer(new, a) = Pointer(flash, a)
  BY <1>2 DEF Content, Pointer
<1> QED
  BY <1>4, <1>5 DEF new

LEMMA OtherCommitted ==
    ASSUME NEW flash \in [Slots -> Slot], NEW a \in Slots \cup {None}, NEW g \in Generation,
           Consistent(flash, a, g), NEW v \in Slot,
           Valid(v), v.header.generation = After(g)
    PROVE  /\ Consistent([flash EXCEPT ![Other(a)] = v], Other(a), After(g))
           /\ Scan([flash EXCEPT ![Other(a)] = v]) = Other(a)
<1> DEFINE new == [flash EXCEPT ![Other(a)] = v]
<1>1. /\ new \in [Slots -> Slot] /\ Other(a) \in Slots /\ new[Other(a)] = v
      /\ \A t \in Slots : t # Other(a) => new[t] = flash[t]
  BY Others, Update
<1>2. Consistent(new, a, g)
  BY OtherChanged
<1> HIDE DEF new
<1>3. Scan(new) = Other(a)
  BY <1>1, <1>2, ScanFacts
<1>4. Other(a) # None
  BY <1>1, SlotFacts
<1>5. Consistent(new, Other(a), After(g))
  BY <1>1, <1>2, <1>3, <1>4, Rescanned
<1> QED
  BY <1>3, <1>5 DEF new

(* Whether it was in doubt or not, what a boot would find is what it found *)
(* before, or what is in use.                                              *)
LEMMA OtherDisturbed ==
    ASSUME NEW flash \in [Slots -> Slot], NEW a \in Slots \cup {None}, NEW g \in Generation,
           Consistent(flash, a, g), NEW v \in Slot, Kept(v, flash[Other(a)])
    PROVE  LET new == [flash EXCEPT ![Other(a)] = v]
           IN  /\ Valid(v) => Content(new, Scan(new)) = Content(flash, Scan(flash))
               /\ ~Valid(v) => Content(new, Scan(new)) = Content(flash, a)
<1> DEFINE new == [flash EXCEPT ![Other(a)] = v]
<1>1. new \in [Slots -> Slot] /\ Other(a) \in Slots /\ Other(a) # None /\ new[Other(a)] = v
  BY Others, Update, SlotFacts
<1>2. Consistent(new, a, g) /\ Content(new, a) = Content(flash, a)
  BY OtherChanged
<1> HIDE DEF new
<1>3. Scan(new) = IF Valid(v) /\ v.header.generation = After(g) THEN Other(a) ELSE a
  BY <1>1, <1>2, ScanFacts
<1>4. ASSUME Valid(v)
      PROVE  Content(new, Scan(new)) = Content(flash, Scan(flash))
  <2>1. /\ Valid(flash[Other(a)]) /\ v.header = flash[Other(a)].header
        /\ v.header.length # 0 => v.body = flash[Other(a)].body
    BY <1>4 DEF Kept
  <2>2. Scan(flash) = Scan(new)
    BY <1>3, <1>4, <2>1, ScanFacts
  <2>3. Content(new, Other(a)) = Content(flash, Other(a))
    BY <1>1, <2>1 DEF Content
  <2> QED
    BY <1>2, <1>3, <2>2, <2>3
<1> QED
  BY <1>2, <1>3, <1>4 DEF new

-----------------------------------------------------------------------------
(* What a step, or a power failure in the middle of one, can do to it.     *)

LEMMA Here ==
    ASSUME IInv
    PROVE  /\ slots \in [Slots -> Slot] /\ activeSlot \in Slots \cup {None} /\ generation \in Generation
           /\ Target = Other(activeSlot) /\ Target \in Slots /\ Target # None /\ Target # activeSlot
           /\ slots[Target] \in Slot /\ Consistent(slots, activeSlot, generation)
           /\ staging # None => staging = Target /\ slots[Target].committed = FALSE
           /\ pc \in {"write", "header", "commit"} => staging # None
BY Others, SlotFacts DEF IInv, TypeOK, InUse, Transaction, Target, Other

(* The lemmas on a consistent flash, for the target of a transaction.      *)
LEMMA TargetChanged ==
    ASSUME IInv, NEW v \in Slot, Kept(v, slots[Target]) \/ v.header.generation = After(generation)
    PROVE  LET new == [slots EXCEPT ![Target] = v]
           IN  /\ new \in [Slots -> Slot] /\ new[Target] = v
               /\ Consistent(new, activeSlot, generation)
               /\ Content(new, activeSlot) = Content(slots, activeSlot)
               /\ Pointer(new, activeSlot) = Pointer(slots, activeSlot)
<1>1. /\ slots \in [Slots -> Slot] /\ activeSlot \in Slots \cup {None} /\ generation \in Generation
      /\ Consistent(slots, activeSlot, generation)
      /\ Target = Other(activeSlot) /\ Target \in Slots
  BY Here
<1>2. Kept(v, slots[Other(activeSlot)]) \/ v.header.generation = After(generation)
  BY <1>1
<1>3. [slots EXCEPT ![Target] = v] \in [Slots -> Slot] /\ [slots EXCEPT ![Target] = v][Target] = v
  BY <1>1, Update
<1>4. /\ Consistent([slots EXCEPT ![Other(activeSlot)] = v], activeSlot, generation)
      /\ Content([slots EXCEPT ![Other(activeSlot)] = v], activeSlot) = Content(slots, activeSlot)
      /\ Pointer([slots EXCEPT ![Other(activeSlot)] = v], activeSlot) = Pointer(slots, activeSlot)
  BY <1>1, <1>2, OtherChanged
<1> QED
  BY <1>1, <1>3, <1>4

LEMMA TargetCommitted ==
    ASSUME IInv, NEW v \in Slot, Valid(v), v.header.generation = After(generation)
    PROVE  LET new == [slots EXCEPT ![Target] = v]
           IN  Consistent(new, Target, After(generation)) /\ Scan(new) = Target
<1>1. /\ slots \in [Slots -> Slot] /\ activeSlot \in Slots \cup {None} /\ generation \in Generation
      /\ Consistent(slots, activeSlot, generation)
      /\ Target = Other(activeSlot)
  BY Here
<1> QED
  BY <1>1, OtherCommitted

LEMMA TargetDisturbed ==
    ASSUME IInv, NEW v \in Slot, Kept(v, slots[Target])
    PROVE  LET new == [slots EXCEPT ![Target] = v]
           IN  /\ Valid(v) => Content(new, Scan(new)) = Content(slots, Scan(slots))
               /\ ~Valid(v) => Content(new, Scan(new)) = Content(slots, activeSlot)
<1>1. /\ slots \in [Slots -> Slot] /\ activeSlot \in Slots \cup {None} /\ generation \in Generation
      /\ Consistent(slots, activeSlot, generation)
      /\ Target = Other(activeSlot)
  BY Here
<1>2. Kept(v, slots[Other(activeSlot)])
  BY <1>1
<1> QED
  BY <1>1, <1>2, OtherDisturbed

LEMMA WordTypes ==
    ASSUME IInv
    PROVE  /\ \A body \in [Positions -> Byte] : NewWord(body) \in [Positions -> Byte]
           /\ \A body \in [Positions -> Byte] : TornWord(body) \in [Positions -> Byte]
<1>1. \A old \in Byte, new \in Containers : Program(old, new) \in Byte
  BY DEF Program, Byte
<1>2. /\ Positions \subseteq Nat /\ at \in Nat /\ Offset \in Nat /\ Len(chunk) \in Nat
      /\ \A j \in 1 .. Len(chunk) : chunk[j] \in Containers
  BY ConfigAssumption, ElementOfSeq, LenProperties DEF IInv, TypeOK, Positions, Offset
<1>3. ASSUME NEW i \in Written
      PROVE  chunk[at + 1 + i - Offset] \in Containers
  <2>1. i \in Nat /\ i >= Offset /\ i - Offset < Len(chunk) - at
    BY <1>2 DEF Written, Word
  <2>2. at + 1 + i - Offset \in 1 .. Len(chunk)
    BY <1>2, <2>1
  <2> QED
    BY <1>2, <2>2
<1>4. \A body \in [Positions -> Byte] : NewWord(body) \in [Positions -> Byte]
  BY <1>1, <1>3 DEF NewWord
<1>5. \A body \in [Positions -> Byte] : TornWord(body) \in [Positions -> Byte]
  BY DEF TornWord, Byte
<1> QED
  BY <1>4, <1>5

LEMMA HeaderType == ASSUME IInv, pc \in {"header", "commit"}
                    PROVE  NewHeader \in Header /\ NewHeader.generation = After(generation)
<1>1. expected \in {0, Size}
  BY DEF IInv, Complete
<1>2. After(generation) \in Generation
  BY Here, Generations
<1> QED
  BY <1>1, <1>2 DEF NewHeader, Header, After

(* The slot that is committed ...                                          *)
CommittedSlot == [slots[Target] EXCEPT !.committed = TRUE]

LEMMA CommitFacts ==
    ASSUME IInv, pc = "commit"
    PROVE  /\ CommittedSlot \in Slot /\ Valid(CommittedSlot)
           /\ CommittedSlot.header.generation = After(generation)
           /\ slots[staging].header.generation = After(generation)
           /\ Offered \in Containers \cup {Default}
           /\ Offered = IF CommittedSlot.header.length = 0 THEN Default ELSE CommittedSlot.body[0]
<1>1. /\ slots[Target].header = NewHeader /\ staging = Target
      /\ \/ expected = 0
         \/ /\ expected = Size /\ Len(sent) = Size /\ Intact(slots[Target].body)
            /\ slots[Target].body[0] = sent[1]
  BY Here DEF IInv, Complete
<1>2. /\ CommittedSlot \in Slot /\ CommittedSlot.committed = TRUE
      /\ CommittedSlot.body = slots[Target].body /\ CommittedSlot.header = NewHeader
  BY <1>1, Here, WithCommitted DEF CommittedSlot
<1>3. /\ NewHeader \in Header /\ NewHeader.generation = After(generation)
      /\ NewHeader.length = expected /\ NewHeader # NoHeader
  BY HeaderType, SlotFacts DEF NewHeader
<1>4. Valid(CommittedSlot)
  BY <1>1, <1>2, <1>3 DEF Valid
<1>5. Size # 0 /\ expected = Size => sent[1] \in Containers
  BY <1>1, SlotFacts, ElementOfSeq DEF IInv, TypeOK
<1>6. Offered = IF expected = 0 THEN Default ELSE sent[1]
  BY DEF Offered
<1>7. /\ Offered \in Containers \cup {Default}
      /\ Offered = IF CommittedSlot.header.length = 0 THEN Default ELSE CommittedSlot.body[0]
  BY <1>1, <1>2, <1>3, <1>5, <1>6, SlotFacts
<1> QED
  BY <1>1, <1>2, <1>3, <1>4, <1>7

(* ... and the two ways a slot changes.                                    *)
Commits(flash) == pc = "commit" /\ flash = [slots EXCEPT ![Target] = CommittedSlot]

Disturbs(flash) ==
    \E v \in Slot : Kept(v, slots[Target]) /\ flash = [slots EXCEPT ![Target] = v]

LEMMA InterruptedFacts ==
    ASSUME IInv, NEW flash \in Interrupted
    PROVE  /\ flash \in [Slots -> Slot]
           /\ Commits(flash) \/ Disturbs(flash)
<1>1. ASSUME NEW v \in Slot, Kept(v, slots[Target]), flash = [slots EXCEPT ![Target] = v]
      PROVE  Disturbs(flash)
  BY <1>1 DEF Disturbs
<1>2. Commits(flash) \/ Disturbs(flash)
  <2>1. CASE pc \in {"erase", "clear"}
    <3>1. PICK v \in Disturbed(slots[Target]) : flash = [slots EXCEPT ![Target] = v]
      BY <2>1 DEF Interrupted
    <3> QED
      BY <1>1, <3>1, Here, DisturbedFacts
  <2>2. CASE pc = "write"
    <3>1. PICK body \in {slots[staging].body, NewWord(slots[staging].body), TornWord(slots[staging].body)} :
              flash = [slots EXCEPT ![staging].body = body]
      BY <2>2 DEF Interrupted
    <3>2. staging = Target /\ slots[Target].committed = FALSE
      BY <2>2, Here
    <3>3. body \in [Positions -> Byte]
      BY <3>1, <3>2, WordTypes, Here, Parts
    <3> DEFINE v == [slots[Target] EXCEPT !.body = body]
    <3>4. v \in Slot /\ v.committed = FALSE
      BY <3>2, <3>3, Here, WithBody
    <3>5. Kept(v, slots[Target])
      BY <3>4 DEF Kept, Valid
    <3>6. flash = [slots EXCEPT ![Target] = v]
      BY <3>1, <3>2, Here, UpdatePart
    <3> QED
      BY <1>1, <3>4, <3>5, <3>6
  <2>3. CASE pc = "header"
    <3>1. PICK header \in {NoHeader, NewHeader} : flash = [slots EXCEPT ![staging].header = header]
      BY <2>3 DEF Interrupted
    <3>2. staging = Target /\ slots[Target].committed = FALSE
      BY <2>3, Here
    <3>3. header \in Header \cup {NoHeader}
      BY <2>3, <3>1, HeaderType
    <3> DEFINE v == [slots[Target] EXCEPT !.header = header]
    <3>4. v \in Slot /\ v.committed = FALSE
      BY <3>2, <3>3, Here, WithHeader
    <3>5. Kept(v, slots[Target])
      BY <3>4 DEF Kept, Valid
    <3>6. flash = [slots EXCEPT ![Target] = v]
      BY <3>1, <3>2, Here, UpdatePart
    <3> QED
      BY <1>1, <3>4, <3>5, <3>6
  <2>4. CASE pc = "commit"
    <3>1. PICK committed \in BOOLEAN : flash = [slots EXCEPT ![staging].committed = committed]
      BY <2>4 DEF Interrupted
    <3>2. staging = Target /\ slots[Target].committed = FALSE
      BY <2>4, Here
    <3> DEFINE v == [slots[Target] EXCEPT !.committed = committed]
    <3>3. v \in Slot /\ v.committed = committed
      BY Here, WithCommitted
    <3>4. flash = [slots EXCEPT ![Target] = v]
      BY <3>1, <3>2, Here, UpdatePart
    <3>5. CASE committed = TRUE
      BY <2>4, <3>4, <3>5 DEF Commits, CommittedSlot
    <3>6. CASE committed = FALSE
      <4>1. Kept(v, slots[Target])
        BY <3>3, <3>6 DEF Kept, Valid
      <4> QED
        BY <1>1, <3>3, <3>4, <4>1
    <3> QED
      BY <3>5, <3>6
  <2>5. CASE pc = "idle"
    <3>1. flash = slots
      BY <2>5 DEF Interrupted
    <3>2. flash = [slots EXCEPT ![Target] = slots[Target]]
      BY <3>1, Here
    <3> QED
      BY <1>1, <3>2, Here DEF Kept
  <2> QED
    BY <2>1, <2>2, <2>3, <2>4, <2>5 DEF IInv, TypeOK
<1>3. flash \in [Slots -> Slot]
  <2>1. CASE Commits(flash)
    BY <2>1, CommitFacts, Here, Update DEF Commits
  <2>2. CASE Disturbs(flash)
    BY <2>2, Here, Update DEF Disturbs
  <2> QED
    BY <1>2, <2>1, <2>2
<1> QED
  BY <1>2, <1>3

(* An operation that succeeds does one of the things it may do when it     *)
(* does not.                                                               *)
LEMMA StepIsInterrupted == ASSUME IInv, [Next]_vars PROVE slots' \in Interrupted \/ slots' = slots
<1>1. CASE Erase \/ EraseFails
  <2>1. \E slot \in Disturbed(slots[Target]) : slots' = [slots EXCEPT ![Target] = slot]
    BY <1>1 DEF Erase, EraseFails, Disturbed
  <2>2. pc \in {"erase", "clear"}
    BY <1>1 DEF Erase, EraseFails
  <2> QED
    BY <2>1, <2>2 DEF Interrupted
<1>2. CASE WriteWord \/ WriteWordFails
  <2>1. /\ pc = "write"
        /\ \E body \in {slots[staging].body, NewWord(slots[staging].body), TornWord(slots[staging].body)} :
              slots' = [slots EXCEPT ![staging].body = body]
    BY <1>2 DEF WriteWord, WriteWordFails
  <2> QED
    BY <2>1 DEF Interrupted
<1>3. CASE WriteHeader \/ WriteHeaderFails
  BY <1>3 DEF WriteHeader, WriteHeaderFails, Interrupted
<1>4. CASE WriteCommit \/ WriteCommitFails
  BY <1>4 DEF WriteCommit, WriteCommitFails, Interrupted
<1>5. CASE Reboot
  BY <1>5 DEF Reboot
<1>6. CASE \/ Cancel \/ UNCHANGED vars
           \/ \E call \in {"erase", "clear"} : Start(call)
           \/ \E bytes \in Chunks : AppendBytes(bytes)
  BY <1>6 DEF Cancel, Start, AppendBytes, vars
<1> QED
  BY <1>1, <1>2, <1>3, <1>4, <1>5, <1>6 DEF Next

-----------------------------------------------------------------------------
(* The inductive invariant.                                                *)

LEMMA InitIInv == Init => IInv
<1> SUFFICES ASSUME Init PROVE IInv
  OBVIOUS
<1>1. slots \in [Slots -> Slot] /\ \A s \in Slots : slots[s] = Erased
  BY SlotFacts DEF Init
<1>2. TypeOK
  BY <1>1, SlotFacts, Modulus, EmptySeq DEF Init, TypeOK, Generation
<1>3. ~Valid(slots[0]) /\ ~Valid(slots[1])
  BY <1>1, SlotFacts DEF Valid
<1>4. InUse
  BY <1>3 DEF Init, InUse, Consistent, Other
<1>5. Transaction /\ Stored /\ Complete
  BY DEF Init, Transaction, Stored, Complete
<1> QED
  BY <1>2, <1>4, <1>5 DEF IInv

(* What is in use stays valid, whatever becomes of the other slot.         *)
LEMMA FlashStaysConsistent ==
    ASSUME IInv, NEW flash \in Interrupted \cup {slots}
    PROVE  /\ flash \in [Slots -> Slot]
           /\ Consistent(flash, activeSlot, generation)
           /\ Content(flash, activeSlot) = Content(slots, activeSlot)
           /\ Pointer(flash, activeSlot) = Pointer(slots, activeSlot)
<1>1. CASE flash = slots
  BY <1>1, Here
<1>2. CASE flash \in Interrupted
  <2>1. flash \in [Slots -> Slot]
    BY <1>2, InterruptedFacts
  <2>2. CASE Commits(flash)
    BY <2>1, <2>2, CommitFacts, TargetChanged DEF Commits
  <2>3. CASE Disturbs(flash)
    <3>1. PICK v \in Slot : Kept(v, slots[Target]) /\ flash = [slots EXCEPT ![Target] = v]
      BY <2>3 DEF Disturbs
    <3> QED
      BY <3>1, TargetChanged
  <2> QED
    BY <1>2, <2>2, <2>3, InterruptedFacts
<1> QED
  BY <1>1, <1>2

LEMMA WriteCommitSlots ==
    ASSUME IInv, WriteCommit
    PROVE  /\ slots' = [slots EXCEPT ![Target] = CommittedSlot]
           /\ activeSlot' = Other(activeSlot) /\ generation' = After(generation)
<1>1. staging = Target /\ pc = "commit"
  BY Here DEF WriteCommit
<1>2. slots' = [slots EXCEPT ![Target] = CommittedSlot]
  BY <1>1, Here, UpdatePart DEF WriteCommit, CommittedSlot
<1> QED
  BY <1>1, <1>2, Here, CommitFacts DEF WriteCommit, SwitchSlot

LEMMA InUseStep ==
    ASSUME IInv, [Next]_vars
    PROVE  /\ slots' \in [Slots -> Slot] /\ activeSlot' \in Slots \cup {None} /\ generation' \in Generation
           /\ InUse'
<1>1. /\ slots' \in [Slots -> Slot]
      /\ Consistent(slots', activeSlot, generation)
  BY StepIsInterrupted, FlashStaysConsistent
<1>2. CASE WriteCommit
  <2>1. Consistent(slots', activeSlot', generation')
    <3>1. pc = "commit" /\ activeSlot' = Target
      BY <1>2, WriteCommitSlots, Here DEF WriteCommit
    <3> QED
      BY <1>2, <3>1, WriteCommitSlots, CommitFacts, TargetCommitted
  <2> QED
    BY <1>1, <1>2, <2>1, WriteCommitSlots, Here, Generations, Others DEF InUse
<1>3. CASE Reboot
  <2>1. /\ activeSlot' = Scan(slots')
        /\ generation' = IF Scan(slots') = None THEN 0 ELSE slots'[Scan(slots')].header.generation
    BY <1>3 DEF Reboot
  <2> QED
    BY <1>1, <2>1, Here, Rescanned DEF InUse
<1>4. CASE UNCHANGED <<activeSlot, generation>>
  BY <1>1, <1>4, Here DEF InUse
<1> QED
  BY <1>2, <1>3, <1>4
  DEF Next, Cancel, Start, Erase, EraseFails, AppendBytes, WriteWord, WriteWordFails, WriteHeader,
      WriteHeaderFails, WriteCommitFails, ramVars, vars

(* The rest of the invariant is about the open transaction.                *)
Open == Transaction /\ Stored /\ Complete

(* It is trivial once there is none.                                       *)
LEMMA Closed ==
    ASSUME IInv, [Next]_vars,
           \/ Cancelled
           \/ staging = None /\ UNCHANGED <<staging, expected, received, sent>>,
           pc' \in {"idle", "erase", "clear"}, chunk' = <<>>, at' = 0
    PROVE  IInv'
<1>1. staging' = None /\ expected' = 0 /\ received' = 0 /\ sent' = <<>>
  BY DEF Cancelled, IInv, Transaction
<1>2. TypeOK'
  BY <1>1, InUseStep, EmptySeq, SlotFacts DEF TypeOK
<1>3. Open'
  BY <1>1 DEF Open, Transaction, Stored, Complete
<1> QED
  BY <1>2, <1>3, InUseStep DEF IInv, Open

LEMMA Closing ==
    ASSUME IInv, [Next]_vars,
           \/ Cancel \/ EraseFails \/ WriteWordFails \/ WriteHeaderFails
           \/ WriteCommit \/ WriteCommitFails \/ Reboot
           \/ \E call \in {"erase", "clear"} : Start(call)
    PROVE  IInv'
<1>1. Transaction
  BY DEF IInv
<1>2. pc # "write" => chunk = <<>> /\ at = 0
  BY <1>1 DEF Transaction
<1>3. CASE Cancel
  BY <1>2, <1>3, Closed DEF Cancel
<1>4. CASE EraseFails
  <2>1. staging = None
    BY <1>1, <1>4 DEF EraseFails, Transaction
  <2> QED
    BY <1>2, <1>4, <2>1, Closed DEF EraseFails, ramVars
<1>5. CASE WriteWordFails
  BY <1>5, Closed DEF WriteWordFails
<1>6. CASE WriteHeaderFails
  BY <1>2, <1>6, Closed DEF WriteHeaderFails
<1>7. CASE WriteCommit
  BY <1>2, <1>7, Closed DEF WriteCommit
<1>8. CASE WriteCommitFails
  BY <1>2, <1>8, Closed DEF WriteCommitFails
<1>9. CASE Reboot
  BY <1>9, Closed DEF Reboot
<1>10. CASE \E call \in {"erase", "clear"} : Start(call)
  BY <1>2, <1>10, Closed DEF Start
<1> QED
  BY <1>3, <1>4, <1>5, <1>6, <1>7, <1>8, <1>9, <1>10

LEMMA Erasing == ASSUME IInv, Erase PROVE IInv'
<1> USE DEF Next
<1>1. Transaction /\ TypeOK
  BY DEF IInv
<1>2. /\ pc \in {"erase", "clear"} /\ staging' = Target /\ Target' = Target
      /\ received' = 0 /\ sent' = <<>> /\ chunk' = <<>> /\ at' = 0
      /\ IF pc = "erase" THEN pc' = "idle" /\ expected' = Size ELSE pc' = "header" /\ expected' = 0
  BY <1>1 DEF Erase, Transaction, Target
<1>3. slots'[Target] = Erased
  BY Here, SlotFacts, Update DEF Erase
<1>4. Erased.committed = FALSE /\ \A i \in Positions : Erased.body[i] = Blank
  BY DEF Erased
<1>5. TypeOK'
  BY <1>2, InUseStep, Here, EmptySeq, SlotFacts DEF TypeOK
<1>6. Transaction'
  BY <1>2, <1>3, <1>4, Here DEF Transaction
<1>7. Stored'
  BY <1>2, <1>3, <1>4, SlotFacts DEF Stored, Positions
<1>8. Complete'
  BY <1>2 DEF Complete
<1> QED
  BY <1>5, <1>6, <1>7, <1>8, InUseStep DEF IInv

LEMMA WritingHeader == ASSUME IInv, WriteHeader PROVE IInv'
<1> USE DEF Next
<1>1. /\ pc = "header" /\ pc' = "commit" /\ staging' = staging /\ expected' = expected
      /\ received' = received /\ sent' = sent /\ chunk' = chunk /\ at' = at
      /\ activeSlot' = activeSlot /\ generation' = generation
  BY DEF WriteHeader, ramVars
<1>2. staging = Target /\ Target' = Target /\ NewHeader' = NewHeader /\ slots[Target] \in Slot
  BY <1>1, Here DEF Target, NewHeader
<1>3. /\ slots'[Target].header = NewHeader /\ slots'[Target].body = slots[Target].body
      /\ slots'[Target].committed = slots[Target].committed
  <2>1. slots' = [slots EXCEPT ![Target] = [slots[Target] EXCEPT !.header = NewHeader]]
    BY <1>2, Here, UpdatePart DEF WriteHeader
  <2>2. NewHeader \in Header
    BY <1>1, HeaderType
  <2> QED
    BY <2>1, <2>2, Here, WithHeader, Update
<1>4. TypeOK'
  BY <1>1, InUseStep DEF IInv, TypeOK
<1>5. Transaction'
  BY <1>1, <1>2, <1>3 DEF IInv, Transaction
<1>6. Stored' /\ Complete'
  BY <1>1, <1>2, <1>3 DEF IInv, Stored, Complete
<1> QED
  BY <1>4, <1>5, <1>6, InUseStep DEF IInv

-----------------------------------------------------------------------------
(* A chunk is taken: its bytes are the next of those that were sent.       *)

LEMMA ChunkFacts == \A bytes \in Chunks : bytes \in Seq(Containers) /\ Len(bytes) \in 1 .. Size
<1> SUFFICES ASSUME NEW bytes \in Chunks PROVE bytes \in Seq(Containers) /\ Len(bytes) \in 1 .. Size
  OBVIOUS
<1>1. PICK n \in 1 .. Size : bytes \in [1 .. n -> Containers]
  BY DEF Chunks
<1>2. n \in Nat
  BY <1>1, SlotFacts
<1>3. bytes \in Seq(Containers)
  BY <1>1, <1>2, SeqDef
<1>4. Len(bytes) = n
  <2>1. Len(bytes) \in Nat /\ 1 .. Len(bytes) = 1 .. n
    BY <1>1, <1>3, LenProperties
  <2>2. \A a, b \in Nat : a >= 1 /\ 1 .. b = 1 .. a => b = a
    OBVIOUS
  <2>3. n >= 1
    BY <1>1, <1>2
  <2> QED
    BY <1>2, <2>1, <2>2, <2>3
<1> QED
  BY <1>1, <1>3, <1>4

LEMMA Taken ==
    ASSUME IInv, NEW bytes \in Chunks, AppendBytes(bytes), Fits(bytes)
    PROVE  IInv'
<1> USE DEF Next
<1>1. /\ pc = "idle" /\ pc' = "write" /\ chunk' = bytes /\ at' = 0 /\ sent' = sent \o bytes
      /\ staging' = staging /\ expected' = expected /\ received' = received
      /\ slots' = slots /\ activeSlot' = activeSlot /\ generation' = generation
  BY DEF AppendBytes
<1>2. /\ TypeOK /\ Transaction /\ Stored /\ staging # None /\ chunk = <<>> /\ at = 0
      /\ expected = Size /\ Len(bytes) <= expected - received
      /\ bytes \in Seq(Containers) /\ Len(bytes) \in 1 .. Size
  BY <1>1, ChunkFacts DEF IInv, Transaction, Fits
<1>3. /\ sent \in Seq(Containers) /\ Len(sent) = received /\ received \in Nat /\ Len(chunk) = 0
      /\ \A i \in Positions : slots[staging].body[i] = IF i < received THEN sent[i + 1] ELSE Blank
  <2>1. Len(chunk) = 0
    BY <1>2, EmptySeq
  <2>2. received \in Nat /\ sent \in Seq(Containers)
    BY <1>2, SlotFacts DEF TypeOK
  <2> QED
    BY <1>1, <1>2, <2>1, <2>2 DEF Stored
<1>4. /\ sent' \in Seq(Containers) /\ Len(sent') = received + Len(bytes)
      /\ \A i \in 1 .. received + Len(bytes) : sent'[i] = IF i <= received THEN sent[i] ELSE bytes[i - received]
  <2>1. /\ sent \o bytes \in Seq(Containers) /\ Len(sent \o bytes) = Len(sent) + Len(bytes)
        /\ \A i \in 1 .. Len(sent) + Len(bytes) :
               (sent \o bytes)[i] = IF i <= Len(sent) THEN sent[i] ELSE bytes[i - Len(sent)]
    BY <1>2, <1>3, ConcatProperties
  <2> QED
    BY <1>1, <1>3, <2>1
<1>5. TypeOK'
  BY <1>1, <1>2, <1>3, <1>4, InUseStep, SlotFacts DEF TypeOK
<1>6. Transaction' /\ Complete'
  BY <1>1, <1>2 DEF Transaction, Complete, Target
<1>7. Stored'
  <2>1. \A i \in Positions : i < received => sent'[i + 1] = sent[i + 1]
    BY <1>2, <1>3, <1>4 DEF Positions
  <2>2. \A j \in 1 .. Len(bytes) : bytes[j] = sent'[received + j]
    <3> SUFFICES ASSUME NEW j \in 1 .. Len(bytes) PROVE bytes[j] = sent'[received + j]
      OBVIOUS
    <3>1. received + j \in 1 .. received + Len(bytes) /\ ~(received + j <= received) /\ (received + j) - received = j
      BY <1>2, <1>3
    <3> QED
      BY <1>4, <3>1
  <2>3. \A i \in Positions :
            slots'[staging'].body[i] = IF i < received' + at' THEN sent'[i + 1] ELSE Blank
    <3> SUFFICES ASSUME NEW i \in Positions
                 PROVE  slots[staging].body[i] = IF i < received + 0 THEN sent'[i + 1] ELSE Blank
      BY <1>1
    <3>1. received + 0 = received
      BY <1>3
    <3> QED
      BY <1>3, <2>1, <3>1
  <2>4. Len(sent') = received' + Len(chunk')
    BY <1>1, <1>4
  <2>5. \A j \in 1 .. Len(chunk') : chunk'[j] = sent'[received' + j]
    BY <1>1, <2>2
  <2> QED
    BY <2>3, <2>4, <2>5 DEF Stored
<1> QED
  BY <1>5, <1>6, <1>7, InUseStep DEF IInv

LEMMA Appending == ASSUME IInv, NEW bytes \in Chunks, AppendBytes(bytes) PROVE IInv'
<1>1. CASE Fits(bytes)
  BY <1>1, Taken
<1>2. CASE ~Fits(bytes)
  <2>1. pc = "idle" /\ pc' = "idle" /\ Cancelled /\ chunk' = chunk /\ at' = at
    BY <1>2 DEF AppendBytes
  <2>2. chunk = <<>> /\ at = 0
    BY <2>1 DEF IInv, Transaction
  <2> QED
    BY <2>1, <2>2, Closed DEF Next
<1> QED
  BY <1>1, <1>2

-----------------------------------------------------------------------------
(* A word is written: the bytes stored now reach to its end, or to that of *)
(* the chunk.                                                              *)

LEMMA WordFacts ==
    ASSUME NEW off \in Nat, NEW w \in Nat \ {0}
    PROVE  LET start == (off \div w) * w
           IN  start \in Nat /\ start <= off /\ off < start + w
<1>1. \A q \in Int, r \in 0 .. w - 1 : off = q * w + r => q >= 0
  OBVIOUS
<1>2. off \div w \in Int /\ off % w \in 0 .. w - 1 /\ off = (off \div w) * w + (off % w)
  OBVIOUS
<1>3. \A q \in Nat : q * w \in Nat
  OBVIOUS
<1> QED
  BY <1>1, <1>2, <1>3

(* Where the stored bytes end then.                                        *)
Reached == IF WordStart + WordBytes < Len(sent) THEN WordStart + WordBytes ELSE Len(sent)

LEMMA WrittenBytes ==
    ASSUME IInv, pc = "write"
    PROVE  /\ WordStart \in Nat /\ WordStart + WordBytes > received + at /\ Reached \in Nat
           /\ NewWord(slots[staging].body) \in [Positions -> Byte]
           /\ \A i \in Positions :
                  NewWord(slots[staging].body)[i] = IF i < Reached THEN sent[i + 1] ELSE Blank
<1>1. /\ received \in Nat /\ at \in Nat /\ Len(chunk) \in Nat /\ at < Len(chunk)
      /\ Len(sent) = received + Len(chunk) /\ staging # None /\ Offset = received + at
      /\ WordBytes \in Nat \ {0} /\ Positions \subseteq Nat
      /\ \A i \in Positions :
             slots[staging].body[i] = IF i < received + at THEN sent[i + 1] ELSE Blank
      /\ \A j \in 1 .. Len(chunk) : chunk[j] = sent[received + j] /\ chunk[j] \in Containers
  <2>1. /\ staging # None /\ at < Len(chunk) /\ Len(sent) = received + Len(chunk)
        /\ \A i \in Positions :
               slots[staging].body[i] = IF i < received + at THEN sent[i + 1] ELSE Blank
        /\ \A j \in 1 .. Len(chunk) : chunk[j] = sent[received + j]
    BY Here DEF IInv, Transaction, Stored
  <2>2. chunk \in Seq(Containers) /\ received \in 0 .. expected /\ at \in 0 .. Len(chunk) /\ expected \in 0 .. Size
    BY DEF IInv, TypeOK
  <2>3. Len(chunk) \in Nat /\ \A j \in 1 .. Len(chunk) : chunk[j] \in Containers
    BY <2>2, LenProperties, ElementOfSeq
  <2>4. received \in Nat /\ at \in Nat
    BY <2>2, <2>3, SlotFacts
  <2> QED
    BY <2>1, <2>3, <2>4, ConfigAssumption DEF Offset, Positions
<1>2. WordStart \in Nat /\ WordStart <= Offset /\ Offset < WordStart + WordBytes
  <2>1. Offset \in Nat
    BY <1>1
  <2> QED
    BY <1>1, <2>1, WordFacts DEF WordStart
<1>3. Reached \in Nat /\ Offset < Reached
  BY <1>1, <1>2 DEF Reached
<1>4. NewWord(slots[staging].body) \in [Positions -> Byte]
  BY WordTypes, Here, Parts
<1>5. ASSUME NEW i \in Positions
      PROVE  NewWord(slots[staging].body)[i] = IF i < Reached THEN sent[i + 1] ELSE Blank
  <2>0. i \in Nat
    BY <1>1
  <2>1. i \in Written <=> i >= Offset /\ i < Reached
    BY <1>1, <1>2, <1>3, <2>0 DEF Written, Word, Reached
  <2>2. CASE i \in Written
    <3>1. at + 1 + i - Offset \in 1 .. Len(chunk) /\ received + (at + 1 + i - Offset) = i + 1
      BY <1>1, <1>2, <2>0, <2>1, <2>2 DEF Reached
    <3>2. chunk[at + 1 + i - Offset] = sent[i + 1] /\ chunk[at + 1 + i - Offset] \in Containers
      BY <1>1, <3>1
    <3>3. slots[staging].body[i] = Blank
      BY <1>1, <1>2, <2>0, <2>1, <2>2
    <3>4. Program(Blank, chunk[at + 1 + i - Offset]) = chunk[at + 1 + i - Offset]
      BY <3>2, ConfigAssumption DEF Program
    <3>5. NewWord(slots[staging].body)[i] = Program(slots[staging].body[i], chunk[at + 1 + i - Offset])
      BY <2>2 DEF NewWord
    <3> QED
      BY <2>1, <2>2, <3>2, <3>3, <3>4, <3>5
  <2>3. CASE i \notin Written
    <3>1. NewWord(slots[staging].body)[i] = slots[staging].body[i]
      BY <2>3 DEF NewWord
    <3>2. i < Offset <=> i < Reached
      BY <1>1, <1>2, <1>3, <2>0, <2>1, <2>3
    <3> QED
      BY <1>1, <3>1, <3>2
  <2> QED
    BY <2>2, <2>3
<1> QED
  BY <1>1, <1>2, <1>3, <1>4, <1>5

LEMMA Writing == ASSUME IInv, WriteWord PROVE IInv'
<1> USE DEF Next
<1> DEFINE body == NewWord(slots[staging].body)
           next == WordStart + WordBytes - received
<1>1. /\ pc = "write" /\ staging = Target /\ staging # None /\ Target' = Target
      /\ activeSlot' = activeSlot /\ generation' = generation
      /\ slots[Target].committed = FALSE /\ slots[Target] \in Slot
  BY Here DEF WriteWord, Target
<1>2. slots'[Target].body = body /\ slots'[Target].committed = FALSE
  <2>1. slots' = [slots EXCEPT ![Target] = [slots[Target] EXCEPT !.body = body]]
    BY <1>1, Here, UpdatePart DEF WriteWord
  <2>2. body \in [Positions -> Byte]
    BY <1>1, WrittenBytes
  <2> HIDE DEF body
  <2> QED
    BY <1>1, <2>1, <2>2, Here, WithBody, Update
<1>3. /\ TypeOK /\ received \in Nat /\ at \in Nat /\ Len(chunk) \in Nat /\ at < Len(chunk)
      /\ sent \in Seq(Containers) /\ Len(sent) = received + Len(chunk) /\ expected = Size
      /\ received <= Size /\ Len(sent) <= Size /\ Len(sent) \in Nat /\ WordBytes \in Nat
      /\ \A j \in 1 .. Len(chunk) : chunk[j] = sent[received + j]
  BY <1>1, ConfigAssumption, SlotFacts, LenProperties DEF IInv, TypeOK, Transaction, Stored
<1>4. /\ WordStart \in Nat /\ WordStart + WordBytes > received + at
      /\ \A i \in Positions : body[i] = IF i < Reached THEN sent[i + 1] ELSE Blank
  BY <1>1, WrittenBytes
<1>5. /\ \/ /\ next < Len(chunk) /\ at' = next
            /\ UNCHANGED <<staging, expected, received, pc, sent, chunk>>
         \/ ~(next < Len(chunk)) /\ at' = 0 /\ chunk' = <<>> /\ Completed(body)
  BY DEF WriteWord
<1> HIDE DEF body
<1>6. CASE next < Len(chunk) /\ at' = next /\ UNCHANGED <<staging, expected, received, pc, sent, chunk>>
  <2>1. Reached = received + next /\ next \in Nat
    BY <1>3, <1>4, <1>6 DEF Reached
  <2>2. TypeOK'
    BY <1>3, <1>6, <2>1, InUseStep DEF TypeOK
  <2>3. Transaction' /\ Complete'
    BY <1>1, <1>2, <1>3, <1>6 DEF Transaction, Complete
  <2>4. Stored'
    BY <1>1, <1>2, <1>3, <1>4, <1>6, <2>1 DEF Stored
  <2> QED
    BY <2>2, <2>3, <2>4, InUseStep DEF IInv
<1>7. CASE ~(next < Len(chunk)) /\ at' = 0 /\ chunk' = <<>> /\ Completed(body)
  <2>1. Reached = Len(sent)
    BY <1>3, <1>4, <1>7 DEF Reached
  <2>2. chunk' \in Seq(Containers) /\ Len(chunk') = 0
    BY <1>7, EmptySeq
  <2>3. CASE /\ received + Len(chunk) < expected /\ received' = received + Len(chunk)
             /\ pc' = "idle" /\ UNCHANGED <<staging, expected, sent>>
    <3>1. TypeOK'
      BY <1>3, <1>7, <2>2, <2>3, InUseStep DEF TypeOK
    <3>2. Transaction' /\ Complete'
      BY <1>1, <1>2, <1>3, <1>7, <2>3 DEF Transaction, Complete
    <3>3. Stored'
      BY <1>1, <1>2, <1>3, <1>4, <1>7, <2>1, <2>2, <2>3 DEF Stored
    <3> QED
      BY <3>1, <3>2, <3>3, InUseStep DEF IInv
  <2>4. CASE /\ ~(received + Len(chunk) < expected) /\ Intact(body) /\ received' = received + Len(chunk)
             /\ pc' = "header" /\ UNCHANGED <<staging, expected, sent>>
    <3>1. TypeOK'
      BY <1>3, <1>7, <2>2, <2>4, InUseStep DEF TypeOK
    <3>2. Transaction'
      BY <1>1, <1>2, <1>3, <1>7, <2>4 DEF Transaction
    <3>3. Stored'
      BY <2>4 DEF Stored
    <3>4. Complete'
      <4>1. Len(sent) = Size
        BY <1>3, <2>4, SlotFacts
      <4>2. 0 \in Positions /\ 0 < Reached
        BY <2>1, <4>1, SlotFacts
      <4>3. body[0] = sent[0 + 1]
        BY <1>4, <4>2
      <4> QED
        BY <1>1, <1>2, <1>3, <2>4, <4>1, <4>3 DEF Complete
    <3> QED
      BY <3>1, <3>2, <3>3, <3>4, InUseStep DEF IInv
  <2>5. CASE Cancelled /\ pc' = "idle"
    BY <1>7, <2>5, Closed
  <2> QED
    BY <1>7, <2>3, <2>4, <2>5 DEF Completed
<1> QED
  BY <1>5, <1>6, <1>7

LEMMA NextIInv == IInv /\ [Next]_vars => IInv'
<1> SUFFICES ASSUME IInv, [Next]_vars PROVE IInv'
  OBVIOUS
<1>1. CASE \E bytes \in Chunks : AppendBytes(bytes)
  BY <1>1, Appending
<1>2. CASE UNCHANGED vars
  BY <1>2
  DEF vars, ramVars, IInv, TypeOK, InUse, Consistent, Transaction, Stored, Complete, Target, NewHeader
<1> QED
  BY <1>1, <1>2, Closing, Erasing, Writing, WritingHeader DEF Next

-----------------------------------------------------------------------------
(* Safety.                                                                 *)

LEMMA Invariance == Spec => []IInv
BY InitIInv, NextIInv, PTL DEF Spec

(* Every variable keeps its type, and the two slots always hold a header,  *)
(* a body and a commit word.                                               *)
THEOREM ConfigTypeCorrect == Spec => []TypeOK
<1>1. IInv => TypeOK
  BY DEF IInv
<1> QED
  BY <1>1, Invariance, PTL

LEMMA Sound == IInv => SlotsAreSound
<1> SUFFICES ASSUME IInv PROVE SlotsAreSound
  OBVIOUS
<1>1. ActiveSlotStaysValid
  BY Here DEF Consistent, ActiveSlotStaysValid
<1>2. ReceivedBytesAreStored
  <2> SUFFICES ASSUME pc = "idle", staging # None
               PROVE  /\ received = Len(sent)
                      /\ \A i \in 0 .. received - 1 : slots[staging].body[i] = sent[i + 1]
    BY DEF ReceivedBytesAreStored
  <2>1. chunk = <<>> /\ at = 0 /\ Len(chunk) = 0 /\ received \in Nat /\ received <= Size /\ Size \in Nat
    BY SlotFacts, EmptySeq DEF IInv, Transaction, TypeOK
  <2>2. /\ Len(sent) = received + Len(chunk)
        /\ \A i \in Positions :
               slots[staging].body[i] = IF i < received + at THEN sent[i + 1] ELSE Blank
    BY DEF IInv, Stored
  <2> QED
    BY <2>1, <2>2 DEF Positions
<1>3. ValidSlotsAreAdjacent
  <2>1. CASE activeSlot = None
    BY <2>1, Here DEF Consistent, ValidSlotsAreAdjacent
  <2>2. CASE activeSlot = 0
    BY <2>2, Here, Generations, SlotFacts DEF Consistent, ValidSlotsAreAdjacent, Other
  <2>3. CASE activeSlot = 1
    BY <2>3, Here, Generations, SlotFacts DEF Consistent, ValidSlotsAreAdjacent, Other
  <2> QED
    BY <2>1, <2>2, <2>3, Here, SlotFacts
<1> QED
  BY <1>1, <1>2, <1>3 DEF SlotsAreSound

(* The bytes received are in flash, however chunks fall on flash words;    *)
(* the active slot stays valid; and two valid slots are one generation     *)
(* apart, so the signed comparison of od_config_init picks the newer one   *)
(* across the wrap.                                                        *)
THEOREM StoreStaysSound == Spec => []SlotsAreSound
BY Sound, Invariance, PTL

-----------------------------------------------------------------------------
(* What main sees of a change.                                             *)

LEMMA SamePlace ==
    ASSUME NEW f, NEW h, NEW a \in Slots \cup {None}, NEW b \in Slots \cup {None},
           a # b, Pointer(f, a) = Pointer(h, b)
    PROVE  Content(f, a) = Content(h, b)
<1>1. ASSUME Pointer(f, a) # "default"
      PROVE  FALSE
  <2>1. a \in Slots /\ Pointer(f, a) = IF a = 0 THEN "slot 0" ELSE "slot 1"
    BY <1>1 DEF Pointer
  <2>2. b \in Slots /\ Pointer(h, b) = IF b = 0 THEN "slot 0" ELSE "slot 1"
    BY <1>1 DEF Pointer
  <2>3. (IF a = 0 THEN "slot 0" ELSE "slot 1") = (IF b = 0 THEN "slot 0" ELSE "slot 1")
    BY <2>1, <2>2
  <2>4. "slot 0" # "slot 1"
    OBVIOUS
  <2>5. a \in {0, 1} /\ b \in {0, 1}
    BY <2>1, <2>2, SlotFacts
  <2>6. CASE a = 0
    BY <2>3, <2>4, <2>5, <2>6
  <2>7. CASE a = 1
    BY <2>3, <2>4, <2>5, <2>7
  <2> QED
    BY <2>5, <2>6, <2>7
<1>2. Content(f, a) = Default
  BY <1>1 DEF Pointer, Content
<1>3. Content(h, b) = Default
  BY <1>1 DEF Pointer, Content
<1> QED
  BY <1>2, <1>3

LEMMA StaysInUse ==
    ASSUME IInv, [Next]_vars, activeSlot' = activeSlot
    PROVE  Content(slots', activeSlot') = Content(slots, activeSlot)
BY StepIsInterrupted, FlashStaysConsistent

(* No change of the configuration in force escapes od_config_get's caller, *)
(* who compares pointers.                                                  *)
THEOREM EveryChangeIsNoticed == Spec => ChangesAreNoticed
<1>1. IInv /\ [Next]_vars =>
          [Content(slots', activeSlot') # Content(slots, activeSlot)
            => Pointer(slots', activeSlot') # Pointer(slots, activeSlot)]_vars
  <2> SUFFICES ASSUME IInv, [Next]_vars, Pointer(slots', activeSlot') = Pointer(slots, activeSlot)
               PROVE  Content(slots', activeSlot') = Content(slots, activeSlot)
    OBVIOUS
  <2> QED
    BY InUseStep, Here, SamePlace, StaysInUse
<1> QED
  BY <1>1, Invariance, PTL DEF Spec, ChangesAreNoticed

-----------------------------------------------------------------------------
(* The store implements the register.                                      *)

Configuration == Containers \cup {Default}

LEMMA OfferedType ==
    /\ IInv => Offered \in Configuration \cup {Nothing}
    /\ pc \in {"idle", "erase", "write"} => Offered = Nothing
    /\ IInv /\ pc = "commit" => Offered # Nothing
<1>1. IInv /\ pc \in {"header", "commit"} => Offered \in Configuration
  <2> SUFFICES ASSUME IInv, pc \in {"header", "commit"} PROVE Offered \in Configuration
    OBVIOUS
  <2>1. expected = 0 \/ (expected = Size /\ Len(sent) = Size)
    BY DEF IInv, Complete
  <2>2. expected # 0 => sent[1] \in Containers
    BY <2>1, SlotFacts, ElementOfSeq DEF IInv, TypeOK
  <2> QED
    BY <2>2 DEF Offered, Configuration
<1>2. pc \notin {"header", "commit", "clear"} => Offered = Nothing
  BY DEF Offered
<1>3. pc = "clear" => Offered = Default
  BY DEF Offered
<1> QED
  BY <1>1, <1>2, <1>3, ConfigAssumption DEF Configuration

(* What a boot finds in a flash that a step, or a power failure during     *)
(* one, leaves.                                                            *)
LEMMA BootFinds ==
    ASSUME IInv, NEW flash \in Interrupted \cup {slots}
    PROVE  \/ Content(flash, Scan(flash)) = Content(slots, Scan(slots))
           \/ pc \in {"erase", "clear"} /\ Content(flash, Scan(flash)) = Content(slots, activeSlot)
           \/ pc = "commit" /\ Content(flash, Scan(flash)) = Offered
<1>1. CASE flash = slots \/ pc = "idle"
  BY <1>1 DEF Interrupted
<1>2. CASE flash \in Interrupted /\ Commits(flash)
  <2>1. pc = "commit" /\ flash = [slots EXCEPT ![Target] = CommittedSlot]
    BY <1>2 DEF Commits
  <2>2. Scan(flash) = Target /\ flash[Target] = CommittedSlot
    BY <2>1, CommitFacts, TargetChanged, TargetCommitted
  <2>3. Content(flash, Target) = Offered
    BY <2>1, <2>2, Here, CommitFacts DEF Content
  <2> QED
    BY <2>1, <2>2, <2>3
<1>3. CASE flash \in Interrupted /\ Disturbs(flash) /\ pc # "idle"
  <2>1. PICK v \in Slot : Kept(v, slots[Target]) /\ flash = [slots EXCEPT ![Target] = v]
    BY <1>3 DEF Disturbs
  <2>2. CASE pc \in {"erase", "clear"}
    BY <2>1, <2>2, TargetDisturbed
  <2>3. CASE pc \notin {"erase", "clear"}
    <3>1. slots[Target].committed = FALSE
      BY <1>3, <2>3, Here DEF IInv, TypeOK
    <3>2. ~Valid(v) /\ Scan(slots) = activeSlot
      BY <2>1, <3>1, Here, ScanFacts DEF Valid, Kept
    <3> QED
      BY <2>1, <3>2, TargetDisturbed
  <2> QED
    BY <2>2, <2>3
<1> QED
  BY <1>1, <1>2, <1>3, InterruptedFacts

LEMMA RegisterStarts == Init => Register!Init
<1> SUFFICES ASSUME Init PROVE Register!Init
  OBVIOUS
<1>1. activeSlot = None /\ IInv /\ pc = "idle" /\ slots[0] = Erased
  BY InitIInv, SlotFacts DEF Init
<1>2. Other(activeSlot) = 0
  BY <1>1 DEF Other, None
<1>3. ~Valid(slots[0])
  BY <1>1, SlotFacts DEF Valid
<1>4. Scan(slots) = None
  BY <1>1, <1>2, <1>3, Here, ScanFacts
<1> QED
  BY <1>1, <1>4, OfferedType DEF Register!Init, Content

LEMMA RegisterSteps == IInv /\ [Next]_vars => [Register!Next]_(Register!vars)
<1> SUFFICES ASSUME IInv, [Next]_vars PROVE [Register!Next]_(Register!vars)
  OBVIOUS
<1> DEFINE visible == Content(slots, activeSlot)
           durable == Content(slots, Scan(slots))
<1>1. /\ Offered' \in Configuration \cup {Nothing}
      /\ pc' = "idle" => Offered' = Nothing
  <2>1. IInv'
    BY NextIInv
  <2>2. (IInv => Offered \in Configuration \cup {Nothing})'
    BY OfferedType, PTL
  <2>3. (pc \in {"idle", "erase", "write"} => Offered = Nothing)'
    BY OfferedType, PTL
  <2> QED
    BY <2>1, <2>2, <2>3
<1>2. /\ Offered \in Configuration \cup {Nothing}
      /\ pc = "commit" => Offered # Nothing
      /\ pc = "erase" => Offered = Nothing
  BY OfferedType
<1>3. \/ durable' = durable
      \/ pc \in {"erase", "clear"} /\ durable' = visible
      \/ pc = "commit" /\ durable' = Offered
  BY StepIsInterrupted, BootFinds
<1> USE DEF Register!Next
<1>4. CASE Reboot
  <2>1. pc' = "idle" /\ activeSlot' = Scan(slots')
    BY <1>4 DEF Reboot
  <2>2. visible' = durable'
    BY <2>1
  <2> QED
    BY <1>1, <1>2, <1>3, <2>1, <2>2 DEF Register!Reboot
<1>5. CASE WriteCommit
  <2>1. pc = "commit" /\ pc' = "idle" /\ slots' = [slots EXCEPT ![Target] = CommittedSlot] /\ activeSlot' = Target
    BY <1>5, WriteCommitSlots, Here DEF WriteCommit
  <2>2. Scan(slots') = Target /\ slots'[Target] = CommittedSlot
    BY <2>1, CommitFacts, TargetChanged, TargetCommitted
  <2>3. visible' = Offered /\ durable' = Offered
    BY <2>1, <2>2, Here, CommitFacts DEF Content
  <2> QED
    BY <1>1, <1>2, <2>1, <2>3 DEF Register!Commit
<1>6. CASE activeSlot' = activeSlot
  <2>1. visible' = visible
    BY <1>6, StaysInUse
  <2>2. CASE durable' = durable
    BY <1>1, <2>1, <2>2 DEF Register!Offer, Register!Config, Configuration
  <2>3. CASE pc \in {"erase", "clear"} /\ durable' = visible
    <3>1. Offered' \in {Offered, Nothing}
      <4>1. CASE Erase /\ pc = "clear"
        BY <4>1 DEF Erase, Offered
      <4>2. CASE pc' = "idle"
        BY <4>2, <1>1
      <4>3. CASE UNCHANGED vars
        BY <4>3 DEF vars, ramVars, Offered
      <4> QED
        BY <2>3, <4>1, <4>2, <4>3
        DEF Next, Cancel, Start, Erase, EraseFails, AppendBytes, WriteWord, WriteWordFails, WriteHeader,
            WriteHeaderFails, WriteCommit, WriteCommitFails, Reboot
    <3> QED
      BY <2>1, <2>3, <3>1 DEF Register!Retract
  <2>4. CASE pc = "commit" /\ durable' = Offered /\ ~(durable' = durable)
    <3>1. pc' = "idle"
      <4>1. UNCHANGED vars => durable' = durable
        BY DEF vars
      <4> QED
        BY <2>4, <4>1
        DEF Next, Cancel, Start, Erase, EraseFails, AppendBytes, WriteWord, WriteWordFails, WriteHeader,
            WriteHeaderFails, WriteCommit, WriteCommitFails, Reboot
    <3> QED
      BY <1>1, <1>2, <2>1, <2>4, <3>1 DEF Register!CommitInDoubt
  <2> QED
    BY <1>3, <2>2, <2>3, <2>4
<1> QED
  BY <1>4, <1>5, <1>6
  DEF Next, Cancel, Start, Erase, EraseFails, AppendBytes, WriteWord, WriteWordFails, WriteHeader,
      WriteHeaderFails, WriteCommitFails, ramVars, vars

(* The configuration changes only to a container that was sent completely, *)
(* or to the default, and power loss at any point leaves the old one or    *)
(* the new one.                                                            *)
THEOREM StoreIsRegister == Spec => ImplementsRegister
BY RegisterStarts, RegisterSteps, Invariance, PTL DEF Spec, ImplementsRegister, Register!Spec

-----------------------------------------------------------------------------
(* What Container promises, for containers of every length.  The packets   *)
(* form a chain: each ends where another starts or where all end, and no   *)
(* two overlap.  So a walk that starts on one and steps by the same sizes  *)
(* comes by all of them.                                                   *)

EndOf(t) == place[t] + 2 + PayloadSize(t)

(* Where the packets read so far end.                                      *)
LastRead == IF step \in {"start", "validate"} THEN pos ELSE End

Reading == step \in {"validate", "valid", "walk", "found", "none"}

NoOverlap ==
    Reading => \A t, u \in Seen : t # u => EndOf(t) <= place[u] \/ EndOf(u) <= place[t]

Chained ==
    Reading =>
        /\ 3 <= LastRead /\ LastRead <= End
        /\ 3 = LastRead \/ \E t \in Seen : place[t] = 3
        /\ \A t \in Seen : 3 <= place[t] /\ EndOf(t) <= LastRead
        /\ \A t \in Seen : EndOf(t) = LastRead \/ \E u \in Seen : place[u] = EndOf(t)

RequiredSeen == step \in {"valid", "walk", "found", "none"} => Required \subseteq Seen

(* What a walk has left behind is not what it looks for.                   *)
PassedBy == step \in {"walk", "none"} => \A t \in Seen : place[t] < pos => t # wanted

StoppedAtEnd == step = "none" => pos = End

NothingSeen == step = "start" => Seen = {} /\ pos = 3

WalkTypes ==
    /\ step \in {"start", "validate", "refused", "valid", "walk", "found", "none"}
    /\ len \in Nat /\ pos \in Nat
    /\ Seen \subseteq Types /\ place \in [Seen -> Nat]
    /\ wanted \in Types

ReadInv ==
    /\ WalkTypes /\ len \in Lengths /\ NothingSeen
    /\ NoOverlap /\ Chained /\ RequiredSeen
    /\ WalksOnPackets /\ PassedBy /\ StoppedAtEnd /\ LookupsFind

LEMMA PacketSizes == \A t \in Types : PayloadSize(t) \in Nat /\ WalkedSize(t) = PayloadSize(t)
BY DEF Types, PayloadSize, WalkedSize

LEMMA InitReadInv == ContainerInit => ReadInv
BY ContainerAssumption DEF ContainerInit, ReadInv, WalkTypes, NothingSeen, Seen, Types, NoOverlap, Chained, RequiredSeen, Reading,
       WalksOnPackets, PassedBy, StoppedAtEnd, LookupsFind

LEMMA RefusedReadInv == ReadInv /\ Refused => ReadInv'
BY DEF ReadInv, WalkTypes, NothingSeen, Refused, Seen, NoOverlap, Chained, RequiredSeen,
       Reading, WalksOnPackets, PassedBy, StoppedAtEnd, LookupsFind

LEMMA HeadingReadInv == ReadInv /\ Heading => ReadInv'
<1> SUFFICES ASSUME ReadInv, step = "start", len >= 5, step' = "validate", UNCHANGED <<len, pos, place, wanted>>
             PROVE  ReadInv'
  BY RefusedReadInv DEF Heading
<1>1. Seen = {} /\ Seen' = {} /\ pos' = 3 /\ len' = len /\ len \in Nat
  BY DEF ReadInv, WalkTypes, NothingSeen, Seen
<1>2. (WalkTypes /\ len \in Lengths /\ NothingSeen)'
  BY DEF ReadInv, WalkTypes, NothingSeen, Seen
<1>3. (NoOverlap /\ RequiredSeen /\ WalksOnPackets /\ PassedBy /\ StoppedAtEnd /\ LookupsFind)'
  BY <1>1 DEF NoOverlap, RequiredSeen, WalksOnPackets, PassedBy, StoppedAtEnd, LookupsFind
<1>4. Chained'
  BY <1>1 DEF Chained, LastRead, End
<1> QED
  BY <1>2, <1>3, <1>4 DEF ReadInv

LEMMA PacketReadInv == ASSUME NEW t \in Types, ReadInv, Packet(t) PROVE ReadInv'
<1> DEFINE n == EndOf(t)'
<1>1. /\ step = "validate" /\ step' = "validate" /\ len' = len /\ wanted' = wanted
      /\ pos \in Nat /\ len \in Nat /\ pos <= End /\ t \notin Seen
  BY DEF Packet, ReadInv, WalkTypes, End
<1>2. /\ Seen' = Seen \cup {t} /\ place'[t] = pos
      /\ \A u \in Seen : u \in Types /\ u # t /\ place'[u] = place[u] /\ place[u] \in Nat /\ EndOf(u)' = EndOf(u)
  BY DEF Packet, Seen, ReadInv, WalkTypes, EndOf
<1>3. /\ n = pos' /\ n = pos + 2 + PayloadSize(t) /\ n \in Nat /\ n > pos /\ n <= End
  BY <1>1, <1>2, PacketSizes DEF Packet, PacketFits, EndOf
<1>4. (WalkTypes /\ len \in Lengths /\ NothingSeen)'
  <2>1. place' \in [Seen' -> Nat]
    BY <1>1, <1>2 DEF Packet, Seen, ReadInv, WalkTypes
  <2> QED
    BY <1>1, <1>2, <1>3, <2>1 DEF ReadInv, WalkTypes, NothingSeen
<1>5. (RequiredSeen /\ WalksOnPackets /\ PassedBy /\ StoppedAtEnd /\ LookupsFind)'
  BY <1>1 DEF RequiredSeen, WalksOnPackets, PassedBy, StoppedAtEnd, LookupsFind
<1>6. \A u \in Seen : EndOf(u) \in Nat /\ EndOf(u) <= pos
  BY <1>1, <1>2, PacketSizes DEF ReadInv, Chained, Reading, LastRead, EndOf
<1>7. NoOverlap'
  <2> SUFFICES ASSUME NEW v \in Seen', NEW w \in Seen', v # w
               PROVE  EndOf(v)' <= place'[w] \/ EndOf(w)' <= place'[v]
    BY DEF NoOverlap
  <2>1. CASE v \in Seen /\ w \in Seen
    BY <2>1, <1>1, <1>2 DEF ReadInv, NoOverlap, Reading
  <2>2. CASE v = t \/ w = t
    BY <2>2, <1>2, <1>6
  <2> QED
    BY <2>1, <2>2, <1>2
<1>8. Chained'
  <2>1. LastRead = pos /\ LastRead' = pos' /\ End' = End /\ Reading
    BY <1>1 DEF LastRead, End, Reading
  <2>2. 3 <= LastRead' /\ LastRead' <= End'
    BY <2>1, <1>1, <1>3 DEF ReadInv, Chained
  <2>3. 3 = LastRead' \/ \E u \in Seen' : place'[u] = 3
    BY <2>1, <1>2 DEF ReadInv, Chained
  <2>4. \A u \in Seen' : 3 <= place'[u] /\ EndOf(u)' <= LastRead'
    BY <2>1, <1>1, <1>2, <1>3, <1>6 DEF ReadInv, Chained
  <2>5. \A u \in Seen' : EndOf(u)' = LastRead' \/ \E v \in Seen' : place'[v] = EndOf(u)'
    BY <2>1, <1>2, <1>3 DEF ReadInv, Chained
  <2> QED
    BY <2>2, <2>3, <2>4, <2>5 DEF Chained
<1> QED
  BY <1>4, <1>5, <1>7, <1>8 DEF ReadInv

(* What holds of the packets stays as long as they do.                     *)
LEMMA PacketsStay ==
    ReadInv /\ Reading /\ Reading' /\ UNCHANGED <<len, place>> /\ LastRead' = LastRead => NoOverlap' /\ Chained'
<1> SUFFICES ASSUME ReadInv, Reading, UNCHANGED <<len, place>>, LastRead' = LastRead PROVE NoOverlap' /\ Chained'
  OBVIOUS
<1>1. Seen' = Seen /\ place' = place /\ End' = End /\ \A t : EndOf(t)' = EndOf(t)
  BY DEF Seen, End, EndOf
<1> QED
  BY <1>1 DEF ReadInv, NoOverlap, Chained

LEMMA AllReadReadInv == ReadInv /\ AllRead => ReadInv'
<1> SUFFICES ASSUME ReadInv, step = "validate", ~(pos < End), HasRequired,
                    step' = "valid", UNCHANGED <<len, pos, place, wanted>>
             PROVE  ReadInv'
  BY RefusedReadInv DEF AllRead
<1>1. Seen' = Seen /\ pos \in Nat /\ len \in Nat
  BY DEF Seen, ReadInv, WalkTypes
<1>2. (WalkTypes /\ len \in Lengths /\ NothingSeen)'
  BY <1>1 DEF ReadInv, WalkTypes, NothingSeen
<1>3. (RequiredSeen /\ WalksOnPackets /\ PassedBy /\ StoppedAtEnd /\ LookupsFind)'
  BY <1>1 DEF RequiredSeen, WalksOnPackets, PassedBy, StoppedAtEnd, LookupsFind, HasRequired
<1>4. NoOverlap' /\ Chained'
  <2>1. Reading /\ Reading'
    BY DEF Reading
  <2>2. LastRead = pos /\ LastRead' = End
    BY DEF LastRead, End
  <2>3. pos = End
    BY <1>1, <2>1, <2>2 DEF ReadInv, Chained, End
  <2> QED
    BY <2>1, <2>2, <2>3, PacketsStay
<1> QED
  BY <1>2, <1>3, <1>4 DEF ReadInv

LEMMA LookupReadInv == ASSUME NEW t \in Types, ReadInv, Lookup(t) PROVE ReadInv'
<1>1. /\ step \in {"valid", "found", "none"} /\ step' = "walk" /\ pos' = 3 /\ wanted' = t
      /\ len' = len /\ place' = place /\ Seen' = Seen
  BY DEF Lookup, FirstPacket, Seen
<1>2. (WalkTypes /\ len \in Lengths /\ NothingSeen)'
  BY <1>1 DEF ReadInv, WalkTypes, NothingSeen
<1>3. (RequiredSeen /\ StoppedAtEnd /\ LookupsFind)'
  BY <1>1 DEF ReadInv, RequiredSeen, StoppedAtEnd, LookupsFind
<1>4. Reading /\ Reading' /\ LastRead = End /\ LastRead' = End
  BY <1>1 DEF Reading, LastRead, End
<1>5. NoOverlap' /\ Chained'
  BY <1>1, <1>4, PacketsStay
<1>6. WalksOnPackets'
  BY <1>1, <1>4 DEF ReadInv, Chained, WalksOnPackets, End
<1>7. PassedBy'
  <2>1. \A u \in Seen : place[u] \in Nat /\ 3 <= place[u]
    BY <1>4 DEF ReadInv, WalkTypes, Chained
  <2> QED
    BY <1>1, <2>1 DEF PassedBy
<1> QED
  BY <1>2, <1>3, <1>5, <1>6, <1>7 DEF ReadInv

(* The type that is read is that of the packet there, and the next packet  *)
(* is where the first walk has found it.                                   *)
LEMMA WalkReadInv == ReadInv /\ Walk => ReadInv'
<1> SUFFICES ASSUME ReadInv, Walk PROVE ReadInv'
  OBVIOUS
<1>1. /\ step = "walk" /\ pos < End /\ Seen' = Seen /\ Reading /\ LastRead = End
      /\ len' = len /\ place' = place /\ wanted' = wanted
  BY DEF Walk, Seen, Reading, LastRead
<1>2. PICK t \in Seen : place[t] = pos
  BY <1>1 DEF ReadInv, WalksOnPackets, End, WalkTypes
<1>3. t \in Types /\ pos \in Nat /\ PayloadSize(t) \in Nat /\ EndOf(t) \in Nat /\ EndOf(t) = pos + 2 + PayloadSize(t)
  BY <1>2, PacketSizes DEF ReadInv, WalkTypes, EndOf
<1>4. Kinds = {t}
  <2>1. \A u \in Seen : u # t => place[u] # pos
    <3> SUFFICES ASSUME NEW u \in Seen, u # t, place[u] = pos PROVE FALSE
      OBVIOUS
    <3>1. u \in Types /\ PayloadSize(u) \in Nat /\ EndOf(u) = pos + 2 + PayloadSize(u)
      BY PacketSizes DEF ReadInv, WalkTypes, EndOf
    <3> QED
      BY <1>1, <1>2, <1>3, <3>1 DEF ReadInv, NoOverlap
  <2> QED
    BY <1>2, <2>1 DEF Kinds
<1>5. \/ t = wanted /\ step' = "found" /\ pos' = pos
      \/ t # wanted /\ step' = "walk" /\ pos' = EndOf(t)
  BY <1>1, <1>3, <1>4, PacketSizes DEF Walk
<1>6. (WalkTypes /\ len \in Lengths /\ NothingSeen)'
  BY <1>1, <1>3, <1>5 DEF ReadInv, WalkTypes, NothingSeen
<1>7. NoOverlap' /\ Chained'
  <2>1. Reading' /\ LastRead' = LastRead
    BY <1>1, <1>5 DEF Reading, LastRead, End
  <2> QED
    BY <1>1, <2>1, PacketsStay
<1>8. (RequiredSeen /\ StoppedAtEnd)'
  BY <1>1, <1>5 DEF ReadInv, RequiredSeen, StoppedAtEnd
<1>9. (WalksOnPackets /\ PassedBy /\ LookupsFind)'
  <2>1. CASE t = wanted
    BY <1>1, <1>2, <1>5, <2>1 DEF WalksOnPackets, PassedBy, LookupsFind
  <2>2. CASE t # wanted
    <3>1. step' = "walk" /\ pos' = EndOf(t) /\ End' = End
      BY <1>1, <1>5, <2>2 DEF End
    <3>2. WalksOnPackets'
      BY <1>1, <3>1 DEF ReadInv, Chained, WalksOnPackets
    <3>3. \A u \in Seen : place[u] < EndOf(t) => u # wanted
      <4> SUFFICES ASSUME NEW u \in Seen, place[u] < EndOf(t), u # t PROVE u # wanted
        BY <2>2
      <4>1. u \in Types /\ place[u] \in Nat /\ PayloadSize(u) \in Nat /\ EndOf(u) = place[u] + 2 + PayloadSize(u)
        BY PacketSizes DEF ReadInv, WalkTypes, EndOf
      <4>2. EndOf(u) <= pos
        BY <1>1, <1>2, <1>3, <4>1 DEF ReadInv, NoOverlap
      <4> QED
        BY <1>1, <1>3, <4>1, <4>2 DEF ReadInv, PassedBy
    <3> QED
      BY <1>1, <3>1, <3>2, <3>3 DEF PassedBy, LookupsFind
  <2> QED
    BY <2>1, <2>2
<1> QED
  BY <1>6, <1>7, <1>8, <1>9 DEF ReadInv

LEMMA NotFoundReadInv == ReadInv /\ NotFound => ReadInv'
<1> SUFFICES ASSUME ReadInv, NotFound PROVE ReadInv'
  OBVIOUS
<1>1. /\ step = "walk" /\ step' = "none" /\ ~(pos < End) /\ Seen' = Seen /\ Reading /\ LastRead = End
      /\ len' = len /\ pos' = pos /\ place' = place /\ wanted' = wanted
  BY DEF NotFound, Seen, Reading, LastRead
<1>2. \A t \in Seen : t \in Types /\ place[t] \in Nat /\ place[t] < End
  <2> SUFFICES ASSUME NEW t \in Seen PROVE t \in Types /\ place[t] \in Nat /\ place[t] < End
    OBVIOUS
  <2>1. t \in Types /\ place[t] \in Nat /\ PayloadSize(t) \in Nat /\ EndOf(t) = place[t] + 2 + PayloadSize(t)
    BY PacketSizes DEF ReadInv, WalkTypes, EndOf
  <2>2. EndOf(t) <= End /\ End \in Int
    BY <1>1 DEF ReadInv, WalkTypes, Chained, End
  <2> QED
    BY <2>1, <2>2
<1>3. pos = End
  BY <1>1, <1>2 DEF ReadInv, WalksOnPackets
<1>4. wanted \notin Seen
  BY <1>1, <1>2, <1>3 DEF ReadInv, PassedBy
<1>5. (WalkTypes /\ len \in Lengths /\ NothingSeen)'
  BY <1>1 DEF ReadInv, WalkTypes, NothingSeen
<1>6. (RequiredSeen /\ WalksOnPackets /\ PassedBy /\ StoppedAtEnd /\ LookupsFind)'
  BY <1>1, <1>2, <1>3, <1>4 DEF ReadInv, RequiredSeen, WalksOnPackets, PassedBy, StoppedAtEnd, LookupsFind, End
<1>7. NoOverlap' /\ Chained'
  <2>1. Reading' /\ LastRead' = LastRead
    BY <1>1 DEF Reading, LastRead, End
  <2> QED
    BY <1>1, <2>1, PacketsStay
<1> QED
  BY <1>5, <1>6, <1>7 DEF ReadInv

LEMMA NextReadInv == ReadInv /\ [ContainerNext]_containerVars => ReadInv'
<1> SUFFICES ASSUME ReadInv, [ContainerNext]_containerVars PROVE ReadInv'
  OBVIOUS
<1>1. CASE Heading
  BY <1>1, HeadingReadInv
<1>2. CASE \E t \in Types : Packet(t)
  BY <1>2, PacketReadInv
<1>3. CASE BadPacket
  BY <1>3, RefusedReadInv DEF BadPacket
<1>4. CASE AllRead
  BY <1>4, AllReadReadInv
<1>5. CASE \E t \in Types : Lookup(t)
  BY <1>5, LookupReadInv
<1>6. CASE Walk
  BY <1>6, WalkReadInv
<1>7. CASE NotFound
  BY <1>7, NotFoundReadInv
<1>8. CASE UNCHANGED containerVars
  BY <1>8 DEF containerVars, ReadInv, WalkTypes, NothingSeen, Seen, NoOverlap, Chained, RequiredSeen,
              Reading, LastRead, End, EndOf, WalksOnPackets, PassedBy, StoppedAtEnd, LookupsFind
<1> QED
  BY <1>1, <1>2, <1>3, <1>4, <1>5, <1>6, <1>7, <1>8 DEF ContainerNext

LEMMA StaysRead == ContainerSpec => []ReadInv
<1>1. ContainerInit => ReadInv
  BY InitReadInv
<1> QED
  BY <1>1, NextReadInv, PTL DEF ContainerSpec

-----------------------------------------------------------------------------

(* Every variable keeps its type.                                          *)
THEOREM ContainerTypeCorrect == ContainerSpec => []ContainerTypeOK
<1>1. ReadInv => ContainerTypeOK
  BY DEF ReadInv, WalkTypes, ContainerTypeOK
<1> QED
  BY <1>1, StaysRead, PTL

(* config_packet never reads a byte of a payload as a type, and never one  *)
(* behind the packets.                                                     *)
THEOREM WalkStaysOnPackets == ContainerSpec => []WalksOnPackets
<1>1. ReadInv => WalksOnPackets
  BY DEF ReadInv
<1> QED
  BY <1>1, StaysRead, PTL

(* config_packet finds a type exactly if od_config_validate has seen it,   *)
(* and where.                                                              *)
THEOREM LookupsAreExact == ContainerSpec => []LookupsFind
<1>1. ReadInv => LookupsFind
  BY DEF ReadInv
<1> QED
  BY <1>1, StaysRead, PTL

(* What is looked up lies inside the container, apart from all else.       *)
THEOREM LookedUpIsInside == ContainerSpec => []PacketsAreApart
<1>1. ReadInv => PacketsAreApart
  <2> SUFFICES ASSUME ReadInv, step \in {"valid", "walk", "found", "none"} PROVE PacketsAreApart
    BY DEF PacketsAreApart
  <2>1. Reading /\ LastRead = End
    BY DEF Reading, LastRead
  <2> QED
    BY <2>1 DEF ReadInv, RequiredSeen, NoOverlap, Chained, PacketsAreApart, EndOf
<1> QED
  BY <1>1, StaysRead, PTL

=============================================================================
