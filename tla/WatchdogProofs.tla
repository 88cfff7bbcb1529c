--------------------------- MODULE WatchdogProofs ---------------------------
(***************************************************************************)
(* Proofs about Watchdog, for any unit of time and any limits the          *)
(* assumption admits.  What a round may still take is bounded by what it   *)
(* has taken and by whether a transfer is open; how long a peer has been   *)
(* quiet, by last_activity and the round in which it connected.            *)
(***************************************************************************)
EXTENDS Watchdog, TLAPS

(* An open transfer reserves the time its abort may take.                  *)
Budget ==
    /\ pc \in {"boot", "wait"} => fed = 0
    /\ pc = "woken" => fed <= Interval
    /\ pc \in {"telemetry", "command"} => fed + Closing(active) <= PanelWait
    /\ pc \in {"failed", "idle", "top"} => fed + Closing(active) <= Interval

(* At each wait an open transfer or transaction has time left.             *)
Attended ==
    /\ ~(active /\ writing)
    /\ active \/ writing => packet <= PacketIdle
    /\ pc # "woken" /\ (active \/ writing) => packet < PacketIdle
    /\ pc = "failed" => packet = 0
    /\ pc = "boot" => ~active /\ ~writing

Rounds == {"telemetry", "command", "failed", "idle", "top"}

(* A connection the loop has not seen yet is no older than the round; of   *)
(* the other, last_activity knows up to the length of one.                 *)
Watched ==
    /\ pc = "boot" => ~up /\ changed
    /\ up /\ changed => quiet <= Interval
    /\ up /\ changed /\ pc \in Rounds => quiet <= fed
    /\ up /\ ~changed /\ activity < LinkIdle => quiet <= Interval + activity
    /\ up /\ ~changed /\ pc \in {"top", "wait"} => activity < LinkIdle
    /\ up /\ ~changed /\ pc = "woken" => quiet <= Interval + LinkIdle

IInv == TypeOK /\ Budget /\ Attended /\ Watched

-----------------------------------------------------------------------------

LEMMA Limits ==
    /\ Interval \in Nat \ {0} /\ IdleWait \in Nat \ {0} /\ PacketIdle \in Nat \ {0}
    /\ LinkIdle \in Nat \ {0} /\ Telemetry \in Nat \ {0} /\ PanelWait \in Nat \ {0}
    /\ SendWait \in Nat \ {0} /\ ReadWait \in Nat \ {0}
BY WatchdogAssumption

LEMMA InitIInv == Init => IInv
<1> SUFFICES ASSUME Init PROVE IInv
  OBVIOUS
<1>1. pc = "boot" /\ ~up /\ changed /\ ~active /\ ~writing /\ fed = 0 /\ packet = 0
      /\ up \in BOOLEAN /\ changed \in BOOLEAN /\ active \in BOOLEAN /\ writing \in BOOLEAN
      /\ activity = 0 /\ telemetry = 0 /\ quiet = 0
  BY DEF Init
<1>2. TypeOK
  BY <1>1, Limits DEF TypeOK, Positions
<1>3. Budget /\ Attended /\ Watched
  BY <1>1, Limits DEF Budget, Attended, Watched, Rounds
<1> QED
  BY <1>2, <1>3 DEF IInv

(* A handler takes no longer than the round has left, and leaves at most   *)
(* one transaction open.                                                   *)
LEMMA HandlerFits ==
    ASSUME active \in BOOLEAN, writing \in BOOLEAN, ~(active /\ writing),
           NEW handler \in Handlers,
           NEW spent \in Nat, spent + Closing(active) <= PanelWait
    PROVE  /\ handler.time \in Nat
           /\ handler.active \in BOOLEAN /\ handler.writing \in BOOLEAN
           /\ ~(handler.active /\ handler.writing)
           /\ spent + handler.time + Closing(handler.active) <= Interval
<1> USE Limits, WatchdogAssumption DEF Closing, Takes
<1>1. CASE handler \in Answers
  BY <1>1 DEF Answers
<1>2. CASE handler \in Chunks
  <2>1. handler = Takes(SendWait, active, FALSE)
    BY <1>2 DEF Chunks
  <2> QED
    BY <2>1
<1>3. CASE handler \in Aborts
  <2>1. PICK staging \in BOOLEAN : handler = Takes(Closing(active) + SendWait, FALSE, staging)
    BY <1>3 DEF Aborts
  <2> QED
    BY <2>1
<1>4. CASE handler \in Starts
  <2>1. CASE handler = Takes(Closing(active) + PanelWait + SendWait, TRUE, FALSE)
    BY <2>1
  <2>2. CASE handler = Takes(Closing(active) + 2 * PanelWait + SendWait, FALSE, FALSE)
    BY <2>2
  <2> QED
    BY <1>4, <2>1, <2>2 DEF Starts
<1>5. CASE handler \in Ends
  <2>1. CASE handler = Takes(Closing(active) + 2 * SendWait, FALSE, writing)
    BY <2>1
  <2>2. CASE active /\ handler = Takes(2 * PanelWait + 3 * SendWait, FALSE, writing)
    BY <2>2
  <2> QED
    BY <1>5, <2>1, <2>2 DEF Ends
<1> QED
  BY <1>1, <1>2, <1>3, <1>4, <1>5 DEF Handlers

LEMMA CommandStep ==
    ASSUME IInv, NEW handler \in Handlers, NEW d \in Nat, NEW accepted \in BOOLEAN,
           NEW err \in BOOLEAN, Command(handler, d, accepted, err)
    PROVE  IInv'
<1> USE Limits DEF IInv, TypeOK
<1>1. /\ pc = "command" /\ up /\ ~changed /\ d <= handler.time
      /\ active' = handler.active /\ writing' = handler.writing
      /\ fed' = fed + d /\ telemetry' = Older(telemetry, d, Telemetry)
      /\ packet' = 0
      /\ pc' \in {"failed", "idle"}
      /\ up' = up /\ changed' = changed
  BY DEF Command, Busy
<1>2. \/ activity' = 0 /\ quiet' = 0
      \/ /\ activity' = Older(activity, d, LinkIdle)
         /\ quiet' = Older(quiet, d, LinkIdle + Interval + 1)
  BY DEF Command, Counts, Quiet
<1>3. /\ handler.time \in Nat
      /\ handler.active \in BOOLEAN /\ handler.writing \in BOOLEAN
      /\ ~(handler.active /\ handler.writing)
      /\ fed + handler.time + Closing(handler.active) <= Interval
  BY <1>1, HandlerFits DEF Budget, Attended
<1>4. Closing(active)' = Closing(handler.active)
  BY <1>1 DEF Closing
<1>5. Budget'
  <2>1. Closing(handler.active) \in Nat
    BY DEF Closing
  <2> QED
    BY <1>1, <1>3, <1>4, <2>1 DEF Budget
<1>6. TypeOK'
  BY <1>1, <1>2, <1>3 DEF Older, Positions
<1>7. Attended'
  BY <1>1, <1>3 DEF Attended
<1>8. Watched'
  BY <1>1, <1>2 DEF Older, Watched, Rounds
<1> QED
  BY <1>5, <1>6, <1>7, <1>8

LEMMA WaitStep == ASSUME IInv, NEW d \in Nat, Wait(d) PROVE IInv'
<1> USE Limits DEF IInv, TypeOK
<1>1. /\ pc = "wait" /\ (changed => d = 0) /\ d <= IdleWait
      /\ (up => d <= LinkIdle - activity)
      /\ (active \/ writing => d <= PacketIdle - packet)
  BY DEF Wait, Deadlines
<1>2. /\ fed' = fed + d /\ telemetry' = Older(telemetry, d, Telemetry)
      /\ quiet' = Older(quiet, d, LinkIdle + Interval + 1)
      /\ packet' = Older(packet, d, PacketIdle + 1)
      /\ activity' = Older(activity, d, LinkIdle)
      /\ pc' = "woken" /\ UNCHANGED <<up, changed, active, writing>>
  BY DEF Wait, Aging, Busy, Quiet
<1>3. TypeOK' /\ Budget'
  BY <1>1, <1>2, WatchdogAssumption DEF Older, Budget, Positions
<1>4. Attended'
  BY <1>1, <1>2 DEF Older, Attended
<1>5. Watched'
  BY <1>1, <1>2 DEF Older, Watched, Rounds
<1> QED
  BY <1>3, <1>4, <1>5

LEMMA CleanupStep == ASSUME IInv, NEW d \in 0 .. PanelWait, Cleanup(d) PROVE IInv'
<1> USE Limits DEF IInv, TypeOK
<1>1. /\ pc = "woken" /\ fed' = d /\ telemetry' = Older(telemetry, d, Telemetry)
      /\ quiet' = Older(quiet, d, LinkIdle + Interval + 1)
      /\ packet' = Older(IF changed THEN 0 ELSE packet, d, PacketIdle + 1)
      /\ activity' = Older(IF changed THEN 0 ELSE activity, d, LinkIdle)
      /\ changed' = FALSE /\ pc' = "telemetry" /\ up' = up
  BY DEF Cleanup, Quiet
<1>2. \/ /\ changed \/ Overdue
         /\ ~active' /\ ~writing' /\ active' \in BOOLEAN /\ writing' \in BOOLEAN
      \/ /\ ~changed /\ ~Overdue /\ d = 0
         /\ active' = active /\ writing' = writing
  BY DEF Cleanup
<1>3. TypeOK'
  <2>1. /\ fed' \in Nat /\ telemetry' \in 0 .. Telemetry
        /\ quiet' \in 0 .. LinkIdle + Interval + 1
    BY <1>1 DEF Older
  <2>2. packet' \in 0 .. PacketIdle + 1 /\ activity' \in 0 .. LinkIdle
    BY <1>1 DEF Older
  <2>3. active' \in BOOLEAN /\ writing' \in BOOLEAN
    BY <1>2
  <2>4. up' \in BOOLEAN /\ changed' \in BOOLEAN /\ pc' \in Positions
    BY <1>1 DEF Positions
  <2> QED
    BY <2>1, <2>2, <2>3, <2>4
<1>4. Budget'
  BY <1>1, <1>2, WatchdogAssumption DEF Budget, Closing
<1>5. Attended'
  BY <1>1, <1>2 DEF Older, Attended, Overdue
<1>6. Watched'
  BY <1>1 DEF Older, Watched, Rounds
<1> QED
  BY <1>3, <1>4, <1>5, <1>6

LEMMA FailedStep == ASSUME IInv, NEW d \in 0 .. PanelWait, Failed(d) PROVE IInv'
<1> USE Limits DEF IInv, TypeOK
<1>1. /\ pc = "failed" /\ d <= Closing(active)
      /\ fed' = fed + d /\ telemetry' = Older(telemetry, d, Telemetry)
      /\ quiet' = Older(quiet, d, LinkIdle + Interval + 1)
      /\ packet' = Older(packet, d, PacketIdle + 1)
      /\ activity' = Older(activity, d, LinkIdle)
      /\ ~active' /\ active' \in BOOLEAN
      /\ pc' = "idle" /\ UNCHANGED <<up, changed, writing>>
  BY DEF Failed, Aging, Busy, Quiet
<1>2. TypeOK'
  BY <1>1 DEF Older, Positions
<1>3. Budget'
  BY <1>1 DEF Budget, Closing
<1>4. Attended'
  BY <1>1 DEF Older, Attended, Closing
<1>5. Watched'
  <2>1. up /\ changed => quiet' <= fed' /\ quiet' <= Interval
    BY <1>1, <1>3 DEF Older, Watched, Rounds, Budget, Closing
  <2>2. up /\ ~changed /\ activity' < LinkIdle => quiet' <= Interval + activity'
    BY <1>1 DEF Older, Watched, Rounds
  <2> QED
    BY <1>1, <2>1, <2>2 DEF Watched, Rounds
<1> QED
  BY <1>2, <1>3, <1>4, <1>5

LEMMA Step == ASSUME IInv, [Next]_vars PROVE IInv'
<1> USE Limits
<1>0. CASE UNCHANGED vars
  BY <1>0 DEF vars, IInv, TypeOK, Budget, Attended, Watched, Closing
<1> SUFFICES ASSUME Next PROVE IInv'
  BY <1>0
<1>1. CASE Connected
  <2>1. pc # "boot" /\ up' = TRUE /\ changed' = TRUE /\ quiet' = 0
        /\ UNCHANGED <<pc, active, writing, fed, packet, activity, telemetry>>
    BY <1>1 DEF Connected
  <2> QED
    BY <2>1 DEF IInv, TypeOK, Budget, Attended, Watched, Closing
<1>2. CASE Disconnected
  <2>1. up /\ up' = FALSE /\ changed' = TRUE
        /\ UNCHANGED <<pc, active, writing, fed, packet, activity, telemetry, quiet>>
    BY <1>2 DEF Disconnected
  <2> QED
    BY <2>1 DEF IInv, TypeOK, Budget, Attended, Watched, Closing
<1>3. CASE Boot
  <2>1. PICK d \in 0 .. PanelWait : fed' = d
    BY <1>3 DEF Boot
  <2>2. pc = "boot" /\ pc' = "top"
        /\ UNCHANGED <<up, changed, active, writing, packet, activity, telemetry, quiet>>
    BY <1>3 DEF Boot
  <2>3. TypeOK' /\ Attended' /\ Watched'
    BY <2>1, <2>2 DEF IInv, TypeOK, Positions, Attended, Watched
  <2>4. ~active'
    BY <2>2 DEF IInv, Attended
  <2>5. Budget'
    BY <2>1, <2>2, <2>4, WatchdogAssumption DEF Budget, Closing
  <2> QED
    BY <2>3, <2>5 DEF IInv
<1>4. CASE Top
  BY <1>4 DEF Top, IInv, TypeOK, Positions, Budget, Attended, Watched, Rounds, Closing
<1>5. ASSUME NEW d \in 0 .. Telemetry, Wait(d) PROVE IInv'
  BY <1>5, WaitStep
<1>6. ASSUME NEW d \in 0 .. PanelWait, Cleanup(d) PROVE IInv'
  BY <1>6, CleanupStep
<1>7. CASE Sample
  <2>1. pc = "telemetry" /\ pc' = "command" /\ telemetry' \in {0, telemetry}
        /\ UNCHANGED <<up, changed, active, writing, fed, packet, activity, quiet>>
    BY <1>7 DEF Sample
  <2> QED
    BY <2>1 DEF IInv, TypeOK, Positions, Budget, Attended, Watched, Rounds, Closing
<1>8. ASSUME NEW handler \in Handlers, NEW d \in 0 .. Interval, NEW accepted \in BOOLEAN,
             NEW err \in BOOLEAN, Command(handler, d, accepted, err)
      PROVE  IInv'
  BY <1>8, CommandStep
<1>9. CASE NoCommand
  <2>1. pc = "command" /\ pc' = "idle"
        /\ UNCHANGED <<up, changed, active, writing, fed, packet, activity, telemetry, quiet>>
    BY <1>9 DEF NoCommand
  <2> QED
    BY <2>1, WatchdogAssumption
    DEF IInv, TypeOK, Positions, Budget, Attended, Watched, Rounds, Closing
<1>10. ASSUME NEW d \in 0 .. PanelWait, Failed(d) PROVE IInv'
  BY <1>10, FailedStep
<1>11. CASE Idle
  <2>1. /\ pc = "idle" /\ pc' = "top"
        /\ UNCHANGED <<up, changed, active, writing, fed, packet, telemetry>>
        /\ \/ up /\ activity = LinkIdle /\ activity' = 0 /\ quiet' = 0
           \/ ~(up /\ activity = LinkIdle) /\ activity' = activity /\ quiet' = quiet
    BY <1>11 DEF Idle
  <2>2. TypeOK' /\ Budget' /\ Attended'
    BY <2>1 DEF IInv, TypeOK, Positions, Budget, Attended, Closing
  <2>3. Watched'
    BY <2>1 DEF IInv, TypeOK, Watched, Rounds, Budget, Closing
  <2> QED
    BY <2>2, <2>3 DEF IInv
<1> QED
  BY <1>1, <1>2, <1>3, <1>4, <1>5, <1>6, <1>7, <1>8, <1>9, <1>10, <1>11 DEF Next

LEMMA Invariance == Spec => []IInv
BY InitIInv, Step, PTL DEF Spec

-----------------------------------------------------------------------------

(* Every variable keeps its type.                                          *)
THEOREM WatchdogTypeCorrect == Spec => []TypeOK
<1>1. IInv => TypeOK
  BY DEF IInv, TypeOK
<1> QED
  BY <1>1, Invariance, PTL

(* No round of the loop takes longer than the watchdog allows, whatever    *)
(* commands arrive and however their waits run into their timeouts.        *)
THEOREM WatchdogNeverFires == Spec => []NeverFires
<1>1. IInv => NeverFires
  <2> SUFFICES ASSUME IInv PROVE fed <= Interval
    BY DEF NeverFires
  <2> QED
    BY Limits, WatchdogAssumption DEF IInv, TypeOK, Positions, Budget, Closing
<1> QED
  BY <1>1, Invariance, PTL

(* A transfer or transaction without commands is aborted on time.          *)
THEOREM AbandonedEnds == Spec => []AbandonedIsEnded
<1>1. IInv => AbandonedIsEnded
  BY DEF IInv, Attended, AbandonedIsEnded
<1> QED
  BY <1>1, Invariance, PTL

(* A quiet peer is hung up on, however many refused commands it sends.     *)
THEOREM QuietEnds == Spec => []QuietIsHungUp
<1>1. IInv => QuietIsHungUp
  BY Limits DEF IInv, TypeOK, Watched, QuietIsHungUp
<1> QED
  BY <1>1, Invariance, PTL

=============================================================================
