------------------------------- MODULE Panel -------------------------------
(***************************************************************************)
(* src/epd.c: the driver of the panel.  Its functions are cut at the waits *)
(* for BUSY, each of which ends with the panel ready or, after 30 s,       *)
(* without it; the MCU may restart at any time, the panel with it or not.  *)
(*                                                                         *)
(* The driver's caller, src/protocol.c, turns the panel on when it is not  *)
(* in use, writes no more than the window takes, refreshes when it is full *)
(* and may switch off at any time between two calls.                       *)
(***************************************************************************)
EXTENDS Integers

CONSTANTS
    FrameBytes,     \* EPD_FRAME_BYTES
    PlaneSizes,     \* bytes a plane of a region may have: (w / 8) * h
    DeepSleep       \* CONFIG_LT213A_EPD_DEEP_SLEEP

ASSUME PanelAssumption ==
    /\ FrameBytes \in Nat \ {0}
    /\ PlaneSizes \subseteq Nat \ {0}
    /\ DeepSleep \in BOOLEAN

VARIABLES
    partial, awake, planeBytes, planeWritten,    \* statics of src/epd.c
    pc,        \* the wait the driver is in; "idle" between calls
    asked,     \* the plane size of the latest epd_region, 0 for epd_begin
    err,       \* the call in progress, or the latest, fails
    open,      \* the caller has turned the panel on: p->active
    fed        \* bytes the caller has written: p->received

VARIABLES
    chip,      \* the panel's controller
    busyInput, \* BUSY is connected to its pin
    timeouts   \* history: waits of the call in progress that timed out

driver == <<partial, awake, planeBytes, planeWritten>>
vars == <<driver, pc, asked, err, open, fed, chip, busyInput, timeouts>>

-----------------------------------------------------------------------------

Waits == {"power_on", "refresh", "power_off"}

(* plane: where the next data byte goes; old, new: bytes of each plane.    *)
Chip == [asleep : BOOLEAN, power : BOOLEAN, waveform : {"otp", "register"},
         plane : {"none", "old", "new"}, old : Nat, new : Nat]

TypeOK ==
    /\ partial \in BOOLEAN /\ awake \in BOOLEAN
    /\ planeBytes \in {0} \cup PlaneSizes /\ planeWritten \in Nat
    /\ pc \in Waits \cup {"boot", "idle"}
    /\ asked \in {0} \cup PlaneSizes
    /\ err \in BOOLEAN /\ open \in BOOLEAN
    /\ fed \in Nat
    /\ chip \in Chip
    /\ busyInput \in BOOLEAN
    /\ timeouts \in Nat

Window == IF asked = 0 THEN FrameBytes ELSE 2 * asked

Init ==
    /\ partial = FALSE /\ awake = FALSE /\ planeBytes = 0 /\ planeWritten = 0
    /\ pc = "boot"
    /\ asked = 0 /\ err = FALSE /\ open = FALSE /\ fed = 0
    /\ \E asleep \in BOOLEAN :
        chip = [asleep |-> asleep, power |-> FALSE, waveform |-> "otp",
                plane |-> "none", old |-> 0, new |-> 0]
    /\ busyInput = FALSE
    /\ timeouts = 0

(* The controller after a reset: awake, with its settings restored.  That  *)
(* a reset also cuts the power is not relied on.                           *)
AfterReset == [chip EXCEPT !.asleep = FALSE, !.waveform = "otp", !.plane = "none",
                           !.old = 0, !.new = 0]

(* panel_reset                                                             *)
PanelReset ==
    /\ awake' = TRUE
    /\ busyInput' = TRUE

-----------------------------------------------------------------------------
(* epd_off                                                                 *)

(* Up to the wait, or to the end if there is nothing to do.                *)
OffCommands ==
    /\ partial' = FALSE
    /\ pc' = IF awake THEN "power_off" ELSE "idle"

(* Mutant: what matters is that the panel is off.                          *)
ResultOfOff(before, off) == off

(* err ? err : off_err                                                     *)
Result(before, off) == before \/ off

(* Ready: the power is off, and the panel is put to sleep.                 *)
OffReady ==
    /\ pc = "power_off"
    /\ chip' = [chip EXCEPT !.power = FALSE, !.asleep = DeepSleep]
    /\ busyInput' = ~DeepSleep
    /\ awake' = FALSE
    /\ err' = Result(err, FALSE)
    /\ pc' = "idle" /\ open' = FALSE
    /\ UNCHANGED <<partial, planeBytes, planeWritten, asked, fed, timeouts>>

(* Mutant: taken for asleep all the same.                                  *)
AsleepAnyway == FALSE

AwakeAfterTimeout == awake

GiveUpOff == "idle"

OffTimeout ==
    /\ pc = "power_off"
    /\ \E power \in {FALSE, chip.power} : chip' = [chip EXCEPT !.power = power]
    /\ awake' = AwakeAfterTimeout
    /\ err' = Result(err, TRUE) /\ timeouts' = timeouts + 1
    /\ pc' = GiveUpOff /\ open' = FALSE
    /\ UNCHANGED <<partial, planeBytes, planeWritten, asked, fed, busyInput>>

(* epd_init                                                                *)
Boot ==
    /\ pc = "boot"
    /\ PanelReset
    /\ chip' = AfterReset
    /\ pc' = "power_off" /\ partial' = FALSE
    /\ UNCHANGED <<planeBytes, planeWritten, asked, err, open, fed, timeouts>>

(* od_abort of an active transfer.                                         *)
Abort ==
    /\ pc = "idle" /\ open
    /\ OffCommands
    /\ err' = FALSE /\ timeouts' = 0
    /\ open' = FALSE
    /\ UNCHANGED <<awake, planeBytes, planeWritten, asked, fed, chip, busyInput>>

-----------------------------------------------------------------------------
(* epd_begin, and epd_region of a valid window.                            *)

(* Mutant: every transfer is one of a region.                              *)
RegionAlways(plane) == TRUE

IsRegion(plane) == plane # 0

Begin(plane) ==
    /\ pc = "idle" /\ ~open
    /\ partial' = IsRegion(plane)
    /\ PanelReset
    /\ chip' = [AfterReset EXCEPT !.power = TRUE]
    /\ pc' = "power_on"
    /\ asked' = plane /\ fed' = 0 /\ err' = FALSE /\ timeouts' = 0
    /\ UNCHANGED <<planeBytes, planeWritten, open>>

(* Settings and the old plane, which is white for a full frame.            *)
BeginReady ==
    /\ pc = "power_on" /\ asked = 0
    /\ chip' = [chip EXCEPT !.old = FrameBytes, !.plane = "new"]
    /\ pc' = "idle" /\ open' = TRUE
    /\ UNCHANGED <<driver, asked, err, fed, busyInput, timeouts>>

(* Mutant: the count of the previous region goes on.                       *)
PlanesContinued ==
    /\ planeBytes' = asked
    /\ planeWritten' = IF planeWritten < asked THEN planeWritten ELSE asked

PlanesStarted ==
    /\ planeBytes' = asked
    /\ planeWritten' = 0

RegionReady ==
    /\ pc = "power_on" /\ asked # 0
    /\ chip' = [chip EXCEPT !.waveform = "register", !.plane = "old"]
    /\ PlanesStarted
    /\ partial' = TRUE
    /\ pc' = "idle" /\ open' = TRUE
    /\ UNCHANGED <<awake, asked, err, fed, busyInput, timeouts>>

BeginTimeout ==
    /\ pc = "power_on"
    /\ OffCommands
    /\ err' = TRUE /\ timeouts' = timeouts + 1
    /\ UNCHANGED <<awake, planeBytes, planeWritten, asked, open, fed, chip, busyInput>>

-----------------------------------------------------------------------------

(* One byte of epd_write, which is the same however the bytes are split    *)
(* into calls.                                                             *)
WriteByte ==
    LET plane == IF partial /\ planeWritten = planeBytes THEN "new" ELSE chip.plane
    IN  /\ pc = "idle" /\ open /\ fed < Window
        /\ chip' = IF plane = "old"
                   THEN [chip EXCEPT !.plane = plane, !.old = chip.old + 1]
                   ELSE [chip EXCEPT !.plane = plane, !.new = chip.new + 1]
        /\ planeWritten' = planeWritten + IF partial THEN 1 ELSE 0
        /\ fed' = fed + 1
        /\ UNCHANGED <<partial, awake, planeBytes, pc, asked, err, open, busyInput, timeouts>>

(* epd_finish: a region in mode 0 is drawn with the waveform of the frame. *)
Finish(mode) ==
    /\ pc = "idle" /\ open /\ fed = Window
    /\ chip' = [chip EXCEPT !.waveform = IF partial /\ mode = 0 THEN "otp" ELSE @]
    /\ pc' = "refresh"
    /\ err' = FALSE /\ timeouts' = 0
    /\ UNCHANGED <<driver, asked, open, fed, busyInput>>

FinishReady ==
    /\ pc = "refresh"
    /\ OffCommands
    /\ UNCHANGED <<awake, planeBytes, planeWritten, asked, err, open, fed, chip, busyInput, timeouts>>

FinishTimeout ==
    /\ pc = "refresh"
    /\ OffCommands
    /\ err' = TRUE /\ timeouts' = timeouts + 1
    /\ UNCHANGED <<awake, planeBytes, planeWritten, asked, open, fed, chip, busyInput>>

(* The MCU restarts; the panel keeps its power and goes on.                *)
Restart ==
    /\ partial' = FALSE /\ awake' = FALSE /\ planeBytes' = 0 /\ planeWritten' = 0
    /\ pc' = "boot"
    /\ asked' = 0 /\ err' = FALSE /\ open' = FALSE /\ fed' = 0
    /\ busyInput' = FALSE /\ timeouts' = 0
    /\ UNCHANGED chip

Next ==
    \/ Boot \/ OffReady \/ OffTimeout \/ Abort
    \/ \E plane \in {0} \cup PlaneSizes : Begin(plane)
    \/ BeginReady \/ RegionReady \/ BeginTimeout
    \/ WriteByte
    \/ \E mode \in 0 .. (IF partial THEN 2 ELSE 1) : Finish(mode)
    \/ FinishReady \/ FinishTimeout
    \/ Restart

Spec == Init /\ [][Next]_vars

-----------------------------------------------------------------------------

(* Whenever the driver talks to the panel or polls BUSY, the panel is      *)
(* awake and BUSY is connected: deep sleep leaves the line undriven.       *)
TalksToAwakePanel ==
    open \/ pc \in Waits => ~chip.asleep /\ busyInput

(* The driver takes a panel for switched off only if it is, whatever timed *)
(* out before; a panel left under power is one it knows to be awake.       *)
NoForgottenPower == pc # "boot" /\ chip.power => awake

(* awake tells the truth in both directions, through every timeout.        *)
AwakeIsTrue == TalksToAwakePanel /\ NoForgottenPower

(* What is drawn is whole: the panel is under power, both planes have just *)
(* the bytes of the window, the first of a region in the old plane, and    *)
(* the waveform is that of a region only for a region.                     *)
DrawsWholePlanes ==
    [][pc' = "refresh" /\ pc # "refresh" =>
        /\ chip.power
        /\ IF asked = 0 THEN chip'.old = FrameBytes /\ chip'.new = FrameBytes
                             /\ chip'.waveform = "otp"
           ELSE chip'.old = asked /\ chip'.new = asked]_vars

(* A call returns after at most two timeouts: what the watchdog's budget   *)
(* counts on.                                                              *)
AtMostTwoTimeouts == timeouts <= 2

(* A call reports a failure if and only if a wait of it timed out: one     *)
(* that ends well after a refresh that did not is not taken for a success. *)
TimeoutsAreReported == err <=> timeouts > 0

(* The driver as its caller knows it.  A call that turns the panel on is   *)
(* in doubt until it returns, and so is one that switches it off.          *)
Power == IF open /\ pc \in {"idle", "refresh"} THEN "on" ELSE IF awake THEN "stuck" ELSE "off"

Shown == INSTANCE Display WITH
    FullBytes <- FrameBytes,
    RegionSizes <- {2 * plane : plane \in PlaneSizes},
    epd <- [power |-> Power, window |-> IF Power # "on" THEN 0
                                        ELSE IF partial THEN 2 * planeBytes ELSE FrameBytes]

ImplementsDisplay == Shown!DisplaySpec

=============================================================================
