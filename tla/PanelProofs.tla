---------------------------- MODULE PanelProofs ----------------------------
(***************************************************************************)
(* Proofs about Panel, for every frame size, set of region sizes and       *)
(* setting of deep sleep.  The inductive invariant adds to the properties  *)
(* what a call relies on at each wait: how far the timeouts have got, and  *)
(* how the counts of the driver and of the controller go together while an *)
(* image is written.                                                       *)
(***************************************************************************)
EXTENDS Panel, TLAPS

(* awake is never claimed of a panel that sleeps or cannot be heard, and   *)
(* the driver is awake wherever it waits or is written to.                 *)
Awake ==
    /\ awake => ~chip.asleep /\ busyInput
    /\ pc \in Waits => awake
    /\ open => awake /\ pc \in {"idle", "refresh", "power_off"}
    /\ pc = "refresh" => open

Timeouts ==
    /\ err <=> timeouts > 0
    /\ pc \in {"boot", "power_on", "refresh"} => timeouts = 0
    /\ pc = "power_off" => timeouts <= 1
    /\ timeouts <= 2

(* Powered up for the window asked, and nothing written yet.               *)
Opening ==
    pc = "power_on" =>
        /\ chip.power /\ chip.old = 0 /\ chip.new = 0 /\ fed = 0
        /\ chip.waveform = "otp"
        /\ partial = (asked # 0)

FrameFilling ==
    open /\ pc = "idle" /\ asked = 0 =>
        /\ chip.power /\ ~partial
        /\ chip.old = FrameBytes /\ chip.new = fed
        /\ chip.plane = "new" /\ chip.waveform = "otp"

(* The old plane fills first, and the driver's count is the caller's.      *)
RegionFilling ==
    open /\ pc = "idle" /\ asked # 0 =>
        /\ chip.power /\ partial
        /\ planeBytes = asked /\ planeWritten = fed
        /\ fed <= asked => chip.plane = "old" /\ chip.old = fed /\ chip.new = 0
        /\ fed > asked => chip.plane = "new" /\ chip.old = asked /\ chip.new = fed - asked

IInv ==
    TypeOK /\ Awake /\ Timeouts /\ NoForgottenPower /\ Opening /\ FrameFilling /\ RegionFilling

-----------------------------------------------------------------------------

LEMMA InitIInv == Init => IInv
<1> SUFFICES ASSUME Init PROVE IInv
  OBVIOUS
<1>1. TypeOK
  <2>1. chip \in Chip
    BY DEF Init, Chip
  <2> QED
    BY <2>1 DEF Init, TypeOK
<1>2. Awake /\ Timeouts
  BY DEF Init, Awake, Timeouts, Waits
<1>3. NoForgottenPower /\ Opening /\ FrameFilling /\ RegionFilling
  BY DEF Init, NoForgottenPower, Opening, FrameFilling, RegionFilling
<1> QED
  BY <1>1, <1>2, <1>3 DEF IInv

LEMMA ByteStored ==
    ASSUME NEW c \in Chip, NEW plane \in {"none", "old", "new"}, NEW n \in Nat
    PROVE  /\ [c EXCEPT !.plane = plane, !.old = n] \in Chip
           /\ [c EXCEPT !.plane = plane, !.new = n] \in Chip
BY DEF Chip

(* An action leaves each field of the controller a value of its type.      *)
LEMMA TypeStep == ASSUME TypeOK, Next PROVE TypeOK'
<1> USE PanelAssumption DEF TypeOK, Chip, Waits, driver
<1>1. CASE Boot
  BY <1>1 DEF Boot, PanelReset, AfterReset
<1>2. CASE OffReady
  BY <1>2 DEF OffReady, Result
<1>3. CASE OffTimeout
  <2>1. chip' \in Chip
    BY <1>3 DEF OffTimeout
  <2>2. err' \in BOOLEAN /\ awake' \in BOOLEAN /\ open' \in BOOLEAN
    BY <1>3 DEF OffTimeout, Result, AwakeAfterTimeout
  <2>3. UNCHANGED <<partial, planeBytes, planeWritten, asked, fed, busyInput>>
        /\ pc' = "idle" /\ timeouts' \in Nat
    BY <1>3 DEF OffTimeout, GiveUpOff
  <2> HIDE DEF Chip
  <2> QED
    BY <2>1, <2>2, <2>3
<1>4. CASE Abort
  BY <1>4 DEF Abort, OffCommands
<1>5. ASSUME NEW plane \in {0} \cup PlaneSizes, Begin(plane) PROVE TypeOK'
  BY <1>5 DEF Begin, PanelReset, AfterReset, IsRegion
<1>6. CASE BeginReady
  BY <1>6 DEF BeginReady
<1>7. CASE RegionReady
  BY <1>7 DEF RegionReady, PlanesStarted
<1>8. CASE BeginTimeout
  <2> HIDE DEF Chip
  <2>1. partial' \in BOOLEAN /\ err' \in BOOLEAN /\ timeouts' = timeouts + 1
    BY <1>8 DEF BeginTimeout, OffCommands
  <2>3. pc' \in Waits \cup {"boot", "idle"}
    BY <1>8 DEF BeginTimeout, OffCommands
  <2>2. UNCHANGED <<awake, planeBytes, planeWritten, asked, open, fed, chip, busyInput>>
    BY <1>8 DEF BeginTimeout
  <2> QED
    BY <2>1, <2>2, <2>3
<1>9. CASE WriteByte
  <2>1. chip' \in Chip
    <3>1. PICK plane \in {"none", "old", "new"} :
            chip' = IF plane = "old" THEN [chip EXCEPT !.plane = plane, !.old = chip.old + 1]
                    ELSE [chip EXCEPT !.plane = plane, !.new = chip.new + 1]
      BY <1>9, chip.plane \in {"none", "old", "new"} DEF WriteByte
    <3>2. chip \in Chip /\ chip.old + 1 \in Nat /\ chip.new + 1 \in Nat
      OBVIOUS
    <3> HIDE DEF Chip, TypeOK
    <3>3. /\ [chip EXCEPT !.plane = plane, !.old = chip.old + 1] \in Chip
          /\ [chip EXCEPT !.plane = plane, !.new = chip.new + 1] \in Chip
      BY <3>2, ByteStored
    <3> QED
      BY <3>1, <3>2, <3>3
  <2>2. planeWritten' \in Nat /\ fed' \in Nat
    BY <1>9 DEF WriteByte
  <2>3. UNCHANGED <<partial, awake, planeBytes, pc, asked, err, open, busyInput, timeouts>>
    BY <1>9 DEF WriteByte
  <2> HIDE DEF Chip
  <2> QED
    BY <2>1, <2>2, <2>3
<1>10. ASSUME NEW mode \in 0 .. (IF partial THEN 2 ELSE 1), Finish(mode) PROVE TypeOK'
  BY <1>10 DEF Finish
<1>11. CASE FinishReady
  BY <1>11 DEF FinishReady, OffCommands
<1>12. CASE FinishTimeout
  <2> HIDE DEF Chip
  <2>1. partial' \in BOOLEAN /\ err' \in BOOLEAN /\ timeouts' = timeouts + 1
    BY <1>12 DEF FinishTimeout, OffCommands
  <2>3. pc' \in Waits \cup {"boot", "idle"}
    BY <1>12 DEF FinishTimeout, OffCommands
  <2>2. UNCHANGED <<awake, planeBytes, planeWritten, asked, open, fed, chip, busyInput>>
    BY <1>12 DEF FinishTimeout
  <2> QED
    BY <2>1, <2>2, <2>3
<1>13. CASE Restart
  BY <1>13 DEF Restart
<1> QED
  BY <1>1, <1>2, <1>3, <1>4, <1>5, <1>6, <1>7, <1>8, <1>9, <1>10, <1>11, <1>12, <1>13 DEF Next

LEMMA Step == ASSUME IInv, [Next]_vars PROVE IInv'
<1> USE PanelAssumption
        DEF IInv, TypeOK, Chip, Waits, Awake, Timeouts, NoForgottenPower, Opening,
            FrameFilling, RegionFilling, driver
<1>0. CASE UNCHANGED vars
  BY <1>0 DEF vars
<1> SUFFICES ASSUME Next PROVE IInv'
  BY <1>0
<1>t. TypeOK'
  BY TypeStep
<1>1. CASE Boot
  BY <1>t, <1>1 DEF Boot, PanelReset, AfterReset
<1>2. CASE OffReady
  BY <1>t, <1>2 DEF OffReady, Result
<1>3. CASE OffTimeout
  <2>1. Awake'
    BY <1>3 DEF OffTimeout, AwakeAfterTimeout, GiveUpOff
  <2>2. Timeouts'
    <3>1. err' <=> TRUE
      BY <1>3, Zenon DEF OffTimeout, Result
    <3>2. timeouts' = timeouts + 1 /\ pc' = "idle" /\ timeouts <= 1
      BY <1>3 DEF OffTimeout, GiveUpOff
    <3> QED
      BY <3>1, <3>2
  <2>3. NoForgottenPower' /\ Opening' /\ FrameFilling' /\ RegionFilling'
    BY <1>3 DEF OffTimeout, AwakeAfterTimeout, GiveUpOff
  <2> QED
    BY <1>t, <2>1, <2>2, <2>3
<1>4. CASE Abort
  BY <1>t, <1>4 DEF Abort, OffCommands
<1>5. ASSUME NEW plane \in {0} \cup PlaneSizes, Begin(plane) PROVE IInv'
  BY <1>t, <1>5 DEF Begin, PanelReset, AfterReset, IsRegion
<1>6. CASE BeginReady
  BY <1>t, <1>6 DEF BeginReady
<1>7. CASE RegionReady
  BY <1>t, <1>7 DEF RegionReady, PlanesStarted
<1>8. CASE BeginTimeout
  BY <1>t, <1>8 DEF BeginTimeout, OffCommands
<1>9. CASE WriteByte
  BY <1>t, <1>9 DEF WriteByte
<1>10. ASSUME NEW mode \in 0 .. (IF partial THEN 2 ELSE 1), Finish(mode) PROVE IInv'
  BY <1>t, <1>10 DEF Finish
<1>11. CASE FinishReady
  BY <1>t, <1>11 DEF FinishReady, OffCommands
<1>12. CASE FinishTimeout
  BY <1>t, <1>12 DEF FinishTimeout, OffCommands
<1>13. CASE Restart
  BY <1>t, <1>13 DEF Restart
<1> QED
  BY <1>1, <1>2, <1>3, <1>4, <1>5, <1>6, <1>7, <1>8, <1>9, <1>10, <1>11, <1>12, <1>13 DEF Next

LEMMA Invariance == Spec => []IInv
BY InitIInv, Step, PTL DEF Spec

-----------------------------------------------------------------------------

(* Every variable keeps its type.                                          *)
THEOREM PanelTypeCorrect == Spec => []TypeOK
<1>1. IInv => TypeOK
  BY DEF IInv
<1> QED
  BY <1>1, Invariance, PTL

(* Neither commands nor BUSY polls ever go to a sleeping panel.            *)
THEOREM PanelHears == Spec => []TalksToAwakePanel
<1>1. IInv => TalksToAwakePanel
  BY DEF IInv, Awake, TalksToAwakePanel
<1> QED
  BY <1>1, Invariance, PTL

(* However its waits time out, the driver knows of a panel under power.    *)
THEOREM PowerIsNeverForgotten == Spec => []NoForgottenPower
<1>1. IInv => NoForgottenPower
  BY DEF IInv
<1> QED
  BY <1>1, Invariance, PTL

(* What the driver believes of the panel is true, whatever times out.      *)
THEOREM DriverKnowsThePanel == Spec => []AwakeIsTrue
BY PanelHears, PowerIsNeverForgotten, PTL DEF AwakeIsTrue

(* No call waits out more than two timeouts.                               *)
THEOREM CallsAreBounded == Spec => []AtMostTwoTimeouts
<1>1. IInv => AtMostTwoTimeouts
  BY DEF IInv, Timeouts, AtMostTwoTimeouts
<1> QED
  BY <1>1, Invariance, PTL

(* A timeout is never swallowed, and no other failure is made up.          *)
THEOREM NoTimeoutIsSwallowed == Spec => []TimeoutsAreReported
<1>1. IInv => TimeoutsAreReported
  BY DEF IInv, Timeouts, TimeoutsAreReported
<1> QED
  BY <1>1, Invariance, PTL

(* A refresh is only ever started on two whole planes.                     *)
THEOREM OnlyWholePlanesAreDrawn == Spec => DrawsWholePlanes
<1> DEFINE Drawn ==
      pc' = "refresh" /\ pc # "refresh" =>
        /\ chip.power
        /\ IF asked = 0 THEN chip'.old = FrameBytes /\ chip'.new = FrameBytes
                             /\ chip'.waveform = "otp"
           ELSE chip'.old = asked /\ chip'.new = asked
<1>1. ASSUME IInv, Next PROVE Drawn
  <2>1. ASSUME NEW mode \in 0 .. (IF partial THEN 2 ELSE 1), Finish(mode) PROVE Drawn
    BY <1>1, <2>1, PanelAssumption
    DEF Finish, Window, IInv, TypeOK, Chip, FrameFilling, RegionFilling
  <2>2. (\E mode \in 0 .. (IF partial THEN 2 ELSE 1) : Finish(mode))
        \/ pc' # "refresh" \/ pc = "refresh"
    BY <1>1 DEF Next, Boot, OffReady, OffTimeout, GiveUpOff, Abort, OffCommands, Begin,
       BeginReady, RegionReady, BeginTimeout, WriteByte, FinishReady, FinishTimeout, Restart
  <2> QED
    BY <2>1, <2>2
<1>2. ASSUME IInv, [Next]_vars PROVE [Drawn]_vars
  BY <1>1, <1>2
<1> QED
  BY <1>2, Invariance, PTL DEF Spec, DrawsWholePlanes

-----------------------------------------------------------------------------
(* The refinement: each step is a call of Display, or none of its business. *)

Epd == [power |-> Power, window |-> IF Power # "on" THEN 0
                                    ELSE IF partial THEN 2 * planeBytes ELSE FrameBytes]

LEMMA Simulation ==
    ASSUME IInv, Next
    PROVE  Shown!DisplayNext \/ UNCHANGED Epd
<1> USE PanelAssumption
        DEF IInv, TypeOK, Awake, Waits, Opening, FrameFilling, RegionFilling, driver,
            Epd, Power, Shown!DisplayNext, Shown!Off, Shown!PanelOn, Shown!PanelFails, Shown!Sizes
<1>1. CASE Boot
  BY <1>1 DEF Boot, PanelReset
<1>2. CASE OffReady
  BY <1>2 DEF OffReady
<1>3. CASE OffTimeout
  BY <1>3 DEF OffTimeout, AwakeAfterTimeout, GiveUpOff
<1>4. CASE Abort
  BY <1>4 DEF Abort, OffCommands
<1>5. ASSUME NEW plane \in {0} \cup PlaneSizes, Begin(plane)
      PROVE  Shown!DisplayNext \/ UNCHANGED Epd
  BY <1>5 DEF Begin, PanelReset
<1>6. CASE BeginReady
  BY <1>6 DEF BeginReady
<1>7. CASE RegionReady
  BY <1>7 DEF RegionReady, PlanesStarted
<1>8. CASE BeginTimeout
  BY <1>8 DEF BeginTimeout, OffCommands
<1>9. CASE WriteByte
  BY <1>9 DEF WriteByte
<1>10. ASSUME NEW mode \in 0 .. (IF partial THEN 2 ELSE 1), Finish(mode)
       PROVE  Shown!DisplayNext \/ UNCHANGED Epd
  BY <1>10 DEF Finish
<1>11. CASE FinishReady
  BY <1>11 DEF FinishReady, OffCommands
<1>12. CASE FinishTimeout
  BY <1>12 DEF FinishTimeout, OffCommands
<1>13. CASE Restart
  BY <1>13 DEF Restart
<1> QED
  BY <1>1, <1>2, <1>3, <1>4, <1>5, <1>6, <1>7, <1>8, <1>9, <1>10, <1>11, <1>12, <1>13 DEF Next

(* src/epd.c keeps the promises src/protocol.c relies on: the panel is on  *)
(* only after a call that succeeded, with the window asked, and a call     *)
(* that switches it off leaves it off or in doubt.                         *)
THEOREM PanelImplementsDisplay == Spec => ImplementsDisplay
<1>1. Init => Shown!DisplayInit
  BY DEF Init, Shown!DisplayInit, Shown!PanelFails, Power
<1>2. ASSUME IInv, [Next]_vars PROVE [Shown!DisplayNext]_Epd
  <2>1. CASE UNCHANGED vars
    BY <2>1 DEF vars, driver, Epd, Power
  <2> QED
    BY <1>2, <2>1, Simulation
<1> QED
  BY <1>1, <1>2, Invariance, PTL DEF Spec, ImplementsDisplay, Shown!DisplaySpec, Epd

=============================================================================
