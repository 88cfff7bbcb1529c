----------------------------- MODULE LinkProofs -----------------------------
(***************************************************************************)
(* Proofs of Link's safety properties, for any number of connections and   *)
(* of failing HCI requests.                                                *)
(*                                                                         *)
(* The inductive invariant IInv relates the generation counter to the      *)
(* connection object (Counting), commands to the connection they came from *)
(* (Commands, References) and what the loop has cleaned up to where it is  *)
(* (Progress, Owners, Wakeups, Advertising).                               *)
(***************************************************************************)
EXTENDS Link, TLAPS

(* The generation counts the callbacks: odd while a connection exists.     *)
Counting ==
    /\ generation = IF air \in Linked THEN 2 * links - 1 ELSE 2 * links
    /\ linkUp <=> air \in Linked
    /\ air \in Linked => links > 0

(* No connection object can be reserved for a new peer while the           *)
(* application refers to it, so every command belongs to the last one.     *)
References ==
    /\ RefsBalanced
    /\ air = "adv" => refs = 0

Commands ==
    /\ queue # NoCommand => queue.generation = 2 * links - 1
    /\ command # NoCommand => command.generation = 2 * links - 1
    /\ pc \in {"top", "blocked", "get", "idle", "idleCheck", "idleHangUp"} =>
         command = NoCommand
    /\ pc \in {"dispatch", "fail", "unref"} => command # NoCommand

(* The loop reads the generation after it has taken the command.           *)
Progress ==
    /\ current <= generation
    /\ next <= generation
    /\ pc = "restart" => current <= next
    /\ pc = "restart" /\ command # NoCommand => command.generation <= next
    /\ pc \in {"advertise", "stop", "recheck", "start", "live"}
         /\ command # NoCommand => command.generation <= current
    /\ pc = "dispatch" => command.generation = current
    /\ pc = "idleHangUp" /\ air \in Linked => generation = current

(* What is open belongs to the generation the loop has cleaned up for.     *)
Owners ==
    \A owner \in {transfer, staging, session} :
        owner # Nobody => owner = IF pc = "restart" THEN next ELSE current

Wakeups ==
    /\ queue # NoCommand /\ events = 0 => pc = "get"
    /\ pc = "blocked" /\ events = 0 => generation = current

(* Off the air, unarmed and up to date never come together, save while the *)
(* loop is about to start advertising.                                     *)
Advertising ==
    /\ current = -1 =>
         fastAdvertising /\ pc \in {"top", "blocked", "get", "generation", "restart"}
    /\ air = "idle" /\ ~restartAdvertising /\ ~fastAdvertising =>
         \/ pc \in {"recheck", "start"}
         \/ pc = "restart" /\ (generation # next \/ next # current)
         \/ pc # "restart" /\ generation # current

IInv ==
    /\ TypeOK
    /\ Counting
    /\ References
    /\ Commands
    /\ Progress
    /\ Owners
    /\ Wakeups
    /\ Advertising

(* A connection that lost a write is on its way down, or about to be.      *)
Losses ==
    /\ lossy /\ air = "connected" => bt = "overflow"
    /\ queue # NoCommand /\ queue.afterLoss => air # "connected"
    /\ command # NoCommand /\ command.afterLoss => air # "connected"
    /\ NothingRunsAfterALoss

-----------------------------------------------------------------------------

(* The flags are Boolean: a fact of its own because it needs no arithmetic. *)
FlagsOK ==
    /\ linkUp \in BOOLEAN
    /\ fastAdvertising \in BOOLEAN
    /\ restartAdvertising \in BOOLEAN
    /\ fast \in BOOLEAN
    /\ slowDue \in BOOLEAN
    /\ retryDue \in BOOLEAN
    /\ lossy \in BOOLEAN

(* Each step leaves the flags Boolean. *)
LEMMA FlagsStep ==
  IInv /\ [Next]_vars => FlagsOK'
<1> SUFFICES ASSUME IInv, [Next]_vars PROVE FlagsOK'
  OBVIOUS
<1> USE DEF IInv, TypeOK, FlagsOK, stackVars, workVars, loopVars, advVars,
                ghostVars, Goto
<1>1. CASE Connected
  BY <1>1 DEF Connected
<1>2. CASE Disconnected
  BY <1>2 DEF Disconnected
<1>3. CASE WrittenOverflow
  BY <1>3 DEF WrittenOverflow
<1>4. CASE ArmRestart
  BY <1>4 DEF ArmRestart, RestartNeeded
<1>5. CASE CheckAdvertising
  BY <1>5 DEF CheckAdvertising, AdvertisingDue
<1>6. CASE StopAdvertisingFails
  BY <1>6 DEF StopAdvertisingFails, AdvertisingDone
<1>7. CASE RecheckLink
  BY <1>7 DEF RecheckLink, AdvertisingDone
<1>8. CASE StartAdvertising
  BY <1>8 DEF StartAdvertising, AdvertisingDone
<1>9. CASE StartAdvertisingFails
  BY <1>9 DEF StartAdvertisingFails, AdvertisingDone
<1>10. CASE SlowTime
  BY <1>10 DEF SlowTime
<1>11. CASE RetryTime
  BY <1>11 DEF RetryTime
<1>12. CASE UNCHANGED <<linkUp, fastAdvertising, restartAdvertising, fast,
                     slowDue, retryDue, lossy>>
  BY <1>12
<1> QED
  BY <1>1, <1>2, <1>3, <1>4, <1>5, <1>6, <1>7, <1>8, <1>9, <1>10, <1>11,
       <1>12
  DEF Next, Callbacks, MainLoop, Clock, LinkLost, Written, WrittenHangUp,
          Top, TakeEvent, DeadlineReached, OtherTimeout, TakeCommand,
          ReadGeneration, StopAdvertising, CheckLive, Dispatch,
          DispatchFailed, Unref, CheckIdle, DisconnectIdle, IdleHangUp,
          vars, stackVars, workVars, loopVars, advVars, ghostVars, Goto

(* The counter moves with the connection object. *)
LEMMA CountingStep ==
  IInv /\ [Next]_vars => Counting'
<1> SUFFICES ASSUME IInv, [Next]_vars PROVE Counting'
  OBVIOUS
<1> USE DEF IInv, TypeOK, Counting, Linked, HangUp, stackVars, workVars,
                loopVars, advVars, ghostVars, Goto
<1>1. CASE Connected
  BY <1>1 DEF Connected, Air
<1>2. CASE LinkLost
  BY <1>2 DEF LinkLost
<1>3. CASE Disconnected
  BY <1>3 DEF Disconnected
<1>4. CASE WrittenHangUp
  BY <1>4 DEF WrittenHangUp
<1>5. CASE StopAdvertising
  BY <1>5 DEF StopAdvertising
<1>6. CASE StartAdvertising
  BY <1>6 DEF StartAdvertising, ObjectFree
<1>7. CASE DispatchFailed
  BY <1>7 DEF DispatchFailed
<1>8. CASE IdleHangUp
  BY <1>8 DEF IdleHangUp
<1>9. CASE UNCHANGED <<air, generation, links, linkUp>>
  BY <1>9
<1> QED
  BY <1>1, <1>2, <1>3, <1>4, <1>5, <1>6, <1>7, <1>8, <1>9
  DEF Next, Callbacks, MainLoop, Clock, Written, WrittenOverflow, Top,
          TakeEvent, DeadlineReached, OtherTimeout, TakeCommand,
          ReadGeneration, ArmRestart, CheckAdvertising,
          StopAdvertisingFails, RecheckLink, StartAdvertisingFails,
          CheckLive, Dispatch, Unref, CheckIdle, DisconnectIdle, SlowTime,
          RetryTime, vars, stackVars, workVars, loopVars, advVars,
          ghostVars, Goto

(* References are counted, and none is held when a peer can connect. *)
LEMMA ReferencesStep ==
  IInv /\ [Next]_vars => References'
<1> SUFFICES ASSUME IInv, [Next]_vars PROVE References'
  OBVIOUS
<1> USE DEF IInv, TypeOK, References, RefsBalanced, Held, Linked, NoCommand,
                Command, Commands, HangUp, stackVars, workVars, loopVars,
                advVars, ghostVars, Goto
<1>1. CASE Connected
  BY <1>1 DEF Connected
<1>2. CASE LinkLost
  BY <1>2 DEF LinkLost
<1>3. CASE Disconnected
  BY <1>3 DEF Disconnected
<1>4. CASE Written
  BY <1>4 DEF Written
<1>5. CASE WrittenHangUp
  BY <1>5 DEF WrittenHangUp
<1>6. CASE TakeCommand
  BY <1>6 DEF TakeCommand
<1>7. CASE StopAdvertising
  BY <1>7 DEF StopAdvertising
<1>8. CASE StartAdvertising
  BY <1>8 DEF StartAdvertising, ObjectFree
<1>9. CASE DispatchFailed
  BY <1>9 DEF DispatchFailed
<1>10. CASE Unref
  BY <1>10 DEF Unref
<1>11. CASE CheckIdle
  BY <1>11 DEF CheckIdle
<1>12. CASE DisconnectIdle
  BY <1>12 DEF DisconnectIdle
<1>13. CASE IdleHangUp
  BY <1>13 DEF IdleHangUp
<1>14. CASE /\ UNCHANGED <<air, refs, queue, command>>
        /\ (pc \in {"idleCheck", "idleHangUp"}) = (pc' \in {"idleCheck", "idleHangUp"})
  BY <1>14
<1> QED
  BY <1>1, <1>2, <1>3, <1>4, <1>5, <1>6, <1>7, <1>8, <1>9, <1>10, <1>11,
       <1>12, <1>13, <1>14
  DEF Next, Callbacks, MainLoop, Clock, WrittenOverflow, Top, TakeEvent,
          DeadlineReached, OtherTimeout, ReadGeneration, ArmRestart,
          CheckAdvertising, StopAdvertisingFails, RecheckLink,
          StartAdvertisingFails, CheckLive, Dispatch, SlowTime, RetryTime,
          vars, stackVars, workVars, loopVars, advVars, ghostVars, Goto

(* A command in hand or in the queue comes from the latest connection. *)
LEMMA CommandsStep ==
  IInv /\ [Next]_vars => Commands'
<1> SUFFICES ASSUME IInv, [Next]_vars PROVE Commands'
  OBVIOUS
<1> USE DEF IInv, TypeOK, References, RefsBalanced, Held, Counting, Linked,
                Command, NoCommand, Commands, stackVars, workVars, loopVars,
                advVars, ghostVars, Goto
<1>1. CASE Connected
  BY <1>1 DEF Connected
<1>2. CASE Written
  BY <1>2 DEF Written
<1>3. CASE Top
  BY <1>3 DEF Top
<1>4. CASE TakeEvent
  BY <1>4 DEF TakeEvent
<1>5. CASE DeadlineReached
  BY <1>5 DEF DeadlineReached
<1>6. CASE OtherTimeout
  BY <1>6 DEF OtherTimeout
<1>7. CASE TakeCommand
  BY <1>7 DEF TakeCommand
<1>8. CASE CheckLive
  BY <1>8 DEF CheckLive
<1>9. CASE Dispatch
  BY <1>9 DEF Dispatch
<1>10. CASE DispatchFailed
  BY <1>10 DEF DispatchFailed
<1>11. CASE Unref
  BY <1>11 DEF Unref
<1>12. CASE CheckIdle
  BY <1>12 DEF CheckIdle
<1>13. CASE DisconnectIdle
  BY <1>13 DEF DisconnectIdle
<1>14. CASE IdleHangUp
  BY <1>14 DEF IdleHangUp
<1>15. CASE /\ UNCHANGED <<queue, command, links>>
        /\ \/ UNCHANGED pc
           \/ pc' \notin {"top", "blocked", "get", "idle", "idleCheck",
                         "idleHangUp", "dispatch", "fail", "unref"}
  BY <1>15
<1> QED
  BY <1>1, <1>2, <1>3, <1>4, <1>5, <1>6, <1>7, <1>8, <1>9, <1>10, <1>11,
       <1>12, <1>13, <1>14, <1>15
  DEF Next, Callbacks, MainLoop, Clock, LinkLost, Disconnected,
          WrittenOverflow, WrittenHangUp, ReadGeneration, ArmRestart,
          CheckAdvertising, StopAdvertising, StopAdvertisingFails,
          RecheckLink, StartAdvertising, StartAdvertisingFails, SlowTime,
          RetryTime, vars, stackVars, workVars, loopVars, advVars,
          ghostVars, Goto

(* The loop is never ahead of the counter, nor a command ahead of the cleanup. *)
LEMMA ProgressStep ==
  IInv /\ [Next]_vars => Progress'
<1> SUFFICES ASSUME IInv, [Next]_vars PROVE Progress'
  OBVIOUS
<1> USE DEF IInv, TypeOK, Owner, Nobody, Counting, Linked, References,
                RefsBalanced, Held, Command, NoCommand, Commands, Progress,
                stackVars, workVars, loopVars, advVars, ghostVars, Goto
<1>1. CASE Connected
  BY <1>1 DEF Connected
<1>2. CASE LinkLost
  BY <1>2 DEF LinkLost
<1>3. CASE Disconnected
  BY <1>3 DEF Disconnected
<1>4. CASE TakeCommand
  BY <1>4 DEF TakeCommand
<1>5. CASE ReadGeneration
  BY <1>5 DEF ReadGeneration
<1>6. CASE ArmRestart
  BY <1>6 DEF ArmRestart
<1>7. CASE CheckAdvertising
  BY <1>7 DEF CheckAdvertising
<1>8. CASE StopAdvertising
  BY <1>8 DEF StopAdvertising
<1>9. CASE StopAdvertisingFails
  BY <1>9 DEF StopAdvertisingFails
<1>10. CASE RecheckLink
  BY <1>10 DEF RecheckLink
<1>11. CASE StartAdvertising
  BY <1>11 DEF StartAdvertising, ObjectFree
<1>12. CASE StartAdvertisingFails
  BY <1>12 DEF StartAdvertisingFails
<1>13. CASE CheckLive
  BY <1>13 DEF CheckLive, Live
<1>14. CASE Dispatch
  BY <1>14 DEF Dispatch
<1>15. CASE DispatchFailed
  BY <1>15 DEF DispatchFailed, HangUp
<1>16. CASE Unref
  BY <1>16 DEF Unref
<1>17. CASE DisconnectIdle
  BY <1>17 DEF DisconnectIdle
<1>18. CASE WrittenHangUp
  BY <1>18 DEF WrittenHangUp, HangUp
<1>19. CASE /\ UNCHANGED <<generation, current, next, command>>
        /\ \/ UNCHANGED <<pc, air>>
           \/ pc' \in {"top", "blocked", "get", "idle", "idleCheck"}
  BY <1>19
<1> QED
  BY <1>1, <1>2, <1>3, <1>4, <1>5, <1>6, <1>7, <1>8, <1>9, <1>10, <1>11,
       <1>12, <1>13, <1>14, <1>15, <1>16, <1>17, <1>18, <1>19
  DEF Next, Callbacks, MainLoop, Clock, Written, WrittenOverflow, Top,
          TakeEvent, DeadlineReached, OtherTimeout, CheckIdle, IdleHangUp,
          SlowTime, RetryTime, vars, stackVars, workVars, loopVars, advVars,
          ghostVars, Goto

(* Cleanup empties what a past generation owned before the next one is served. *)
LEMMA OwnersStep ==
  IInv /\ [Next]_vars => Owners'
<1> SUFFICES ASSUME IInv, [Next]_vars PROVE Owners'
  OBVIOUS
<1> USE DEF IInv, TypeOK, Owner, Nobody, Progress, Owners, stackVars,
                workVars, loopVars, advVars, ghostVars, Goto
<1>1. CASE ReadGeneration
  BY <1>1 DEF ReadGeneration, Cleanup
<1>2. CASE ArmRestart
  BY <1>2 DEF ArmRestart
<1>3. CASE Dispatch
  BY <1>3 DEF Dispatch
<1>4. CASE DispatchFailed
  BY <1>4 DEF DispatchFailed
<1>5. CASE /\ UNCHANGED <<transfer, staging, session, current, next>>
        /\ \/ UNCHANGED pc
           \/ pc # "restart" /\ pc' # "restart"
  BY <1>5
<1> QED
  BY <1>1, <1>2, <1>3, <1>4, <1>5
  DEF Next, Callbacks, MainLoop, Clock, Connected, LinkLost, Disconnected,
          Written, WrittenOverflow, WrittenHangUp, Top, TakeEvent,
          DeadlineReached, OtherTimeout, TakeCommand, CheckAdvertising,
          StopAdvertising, StopAdvertisingFails, RecheckLink,
          StartAdvertising, StartAdvertisingFails, CheckLive, Unref,
          CheckIdle, DisconnectIdle, IdleHangUp, SlowTime, RetryTime, vars,
          stackVars, workVars, loopVars, advVars, ghostVars, Goto

(* Whoever gives the loop work also gives the semaphore. *)
LEMMA WakeupsStep ==
  IInv /\ [Next]_vars => Wakeups'
<1> SUFFICES ASSUME IInv, [Next]_vars PROVE Wakeups'
  OBVIOUS
<1> USE DEF IInv, TypeOK, Commands, Wakeups, stackVars, workVars, loopVars,
                advVars, ghostVars, Goto
<1>1. CASE Connected
  BY <1>1 DEF Connected
<1>2. CASE Disconnected
  BY <1>2 DEF Disconnected
<1>3. CASE Written
  BY <1>3 DEF Written
<1>4. CASE Top
  BY <1>4 DEF Top
<1>5. CASE TakeEvent
  BY <1>5 DEF TakeEvent
<1>6. CASE DeadlineReached
  BY <1>6 DEF DeadlineReached
<1>7. CASE OtherTimeout
  BY <1>7 DEF OtherTimeout
<1>8. CASE TakeCommand
  BY <1>8 DEF TakeCommand
<1>9. CASE ArmRestart
  BY <1>9 DEF ArmRestart
<1>10. CASE /\ UNCHANGED <<queue, events, generation, current>>
        /\ \/ UNCHANGED pc
           \/ pc \notin {"get"} /\ pc' \notin {"blocked"}
  BY <1>10
<1> QED
  BY <1>1, <1>2, <1>3, <1>4, <1>5, <1>6, <1>7, <1>8, <1>9, <1>10
  DEF Next, Callbacks, MainLoop, Clock, LinkLost, WrittenOverflow,
          WrittenHangUp, ReadGeneration, CheckAdvertising, StopAdvertising,
          StopAdvertisingFails, RecheckLink, StartAdvertising,
          StartAdvertisingFails, CheckLive, Dispatch, DispatchFailed, Unref,
          CheckIdle, DisconnectIdle, IdleHangUp, SlowTime, RetryTime, vars,
          stackVars, workVars, loopVars, advVars, ghostVars, Goto

(* Going off the air changes the counter or arms a restart. *)
LEMMA AdvertisingStep ==
  IInv /\ [Next]_vars => Advertising'
<1> SUFFICES ASSUME IInv, [Next]_vars PROVE Advertising'
  OBVIOUS
<1> USE DEF IInv, TypeOK, Owner, Progress, Counting, Linked, Advertising,
                AdvertisingDone, HangUp, stackVars, workVars, loopVars,
                advVars, ghostVars, Goto
<1>1. CASE Connected
  BY <1>1 DEF Connected
<1>2. CASE LinkLost
  BY <1>2 DEF LinkLost
<1>3. CASE Disconnected
  BY <1>3 DEF Disconnected
<1>4. CASE WrittenHangUp
  BY <1>4 DEF WrittenHangUp
<1>5. CASE Top
  BY <1>5 DEF Top
<1>6. CASE TakeEvent
  BY <1>6 DEF TakeEvent
<1>7. CASE DeadlineReached
  BY <1>7 DEF DeadlineReached
<1>8. CASE OtherTimeout
  BY <1>8 DEF OtherTimeout
<1>9. CASE TakeCommand
  BY <1>9 DEF TakeCommand
<1>10. CASE ReadGeneration
  BY <1>10 DEF ReadGeneration
<1>11. CASE ArmRestart
  BY <1>11 DEF ArmRestart, RestartNeeded
<1>12. CASE CheckAdvertising
  BY <1>12 DEF CheckAdvertising, AdvertisingDue
<1>13. CASE StopAdvertising
  BY <1>13 DEF StopAdvertising
<1>14. CASE StopAdvertisingFails
  BY <1>14 DEF StopAdvertisingFails
<1>15. CASE RecheckLink
  BY <1>15 DEF RecheckLink
<1>16. CASE StartAdvertising
  BY <1>16 DEF StartAdvertising
<1>17. CASE StartAdvertisingFails
  BY <1>17 DEF StartAdvertisingFails
<1>18. CASE CheckLive
  BY <1>18 DEF CheckLive
<1>19. CASE Dispatch
  BY <1>19 DEF Dispatch
<1>20. CASE DispatchFailed
  BY <1>20 DEF DispatchFailed
<1>21. CASE Unref
  BY <1>21 DEF Unref
<1>22. CASE CheckIdle
  BY <1>22 DEF CheckIdle
<1>23. CASE DisconnectIdle
  BY <1>23 DEF DisconnectIdle
<1>24. CASE IdleHangUp
  BY <1>24 DEF IdleHangUp
<1>25. CASE UNCHANGED <<air, restartAdvertising, fastAdvertising, pc, next, current,
                     generation>>
  BY <1>25
<1> QED
  BY <1>1, <1>2, <1>3, <1>4, <1>5, <1>6, <1>7, <1>8, <1>9, <1>10, <1>11,
       <1>12, <1>13, <1>14, <1>15, <1>16, <1>17, <1>18, <1>19, <1>20, <1>21,
       <1>22, <1>23, <1>24, <1>25
  DEF Next, Callbacks, MainLoop, Clock, Written, WrittenOverflow, SlowTime,
          RetryTime, vars, stackVars, workVars, loopVars, advVars,
          ghostVars, Goto

(* Each step keeps every variable in its range. *)
LEMMA TypeStep ==
  IInv /\ [Next]_vars => TypeOK'
<1> SUFFICES ASSUME IInv, [Next]_vars PROVE TypeOK'
  OBVIOUS
<1> USE DEF IInv, TypeOK, Air, Callback, Loop, Owner, Nobody, Command,
                NoCommand, stackVars, workVars, loopVars, advVars,
                ghostVars, Goto
<1>0. FlagsOK'
  BY FlagsStep
<1>1. CASE Connected
  BY <1>0, <1>1 DEF FlagsOK, Connected
<1>2. CASE LinkLost
  BY <1>0, <1>2 DEF FlagsOK, LinkLost
<1>3. CASE Disconnected
  BY <1>0, <1>3 DEF FlagsOK, Disconnected
<1>4. CASE Written
  BY <1>0, <1>4 DEF FlagsOK, Written
<1>5. CASE WrittenOverflow
  BY <1>0, <1>5 DEF FlagsOK, WrittenOverflow
<1>6. CASE WrittenHangUp
  BY <1>0, <1>6 DEF FlagsOK, WrittenHangUp, HangUp
<1>7. CASE Top
  BY <1>0, <1>7 DEF FlagsOK, Top, AdvertisingDeadline
<1>8. CASE TakeEvent
  BY <1>0, <1>8 DEF FlagsOK, TakeEvent
<1>9. CASE DeadlineReached
  BY <1>0, <1>9 DEF FlagsOK, DeadlineReached
<1>10. CASE OtherTimeout
  BY <1>0, <1>10 DEF FlagsOK, OtherTimeout
<1>11. CASE TakeCommand
  BY <1>0, <1>11 DEF FlagsOK, TakeCommand
<1>12. CASE ReadGeneration
  BY <1>0, <1>12 DEF FlagsOK, ReadGeneration, Cleanup
<1>13. CASE ArmRestart
  BY <1>0, <1>13 DEF FlagsOK, ArmRestart
<1>14. CASE CheckAdvertising
  BY <1>0, <1>14 DEF FlagsOK, CheckAdvertising
<1>15. CASE StopAdvertising
  BY <1>0, <1>15 DEF FlagsOK, StopAdvertising
<1>16. CASE StopAdvertisingFails
  BY <1>0, <1>16 DEF FlagsOK, StopAdvertisingFails, AdvertisingDone
<1>17. CASE RecheckLink
  BY <1>0, <1>17 DEF FlagsOK, RecheckLink, AdvertisingDone
<1>18. CASE StartAdvertising
  BY <1>0, <1>18 DEF FlagsOK, StartAdvertising, AdvertisingDone
<1>19. CASE StartAdvertisingFails
  BY <1>0, <1>19 DEF FlagsOK, StartAdvertisingFails, AdvertisingDone
<1>20. CASE CheckLive
  BY <1>0, <1>20 DEF FlagsOK, CheckLive
<1>21. CASE Dispatch
  BY <1>0, <1>21 DEF FlagsOK, Dispatch, Commands
<1>22. CASE DispatchFailed
  BY <1>0, <1>22 DEF FlagsOK, DispatchFailed, HangUp
<1>23. CASE Unref
  BY <1>0, <1>23 DEF FlagsOK, Unref, Commands, References, RefsBalanced,
       Held
<1>24. CASE CheckIdle
  BY <1>0, <1>24 DEF FlagsOK, CheckIdle
<1>25. CASE DisconnectIdle
  BY <1>0, <1>25 DEF FlagsOK, DisconnectIdle, References, RefsBalanced, Held
<1>26. CASE IdleHangUp
  BY <1>0, <1>26 DEF FlagsOK, IdleHangUp, HangUp, References, RefsBalanced,
       Held
<1>27. CASE SlowTime
  BY <1>0, <1>27 DEF FlagsOK, SlowTime
<1>28. CASE RetryTime
  BY <1>0, <1>28 DEF FlagsOK, RetryTime
<1>29. CASE UNCHANGED vars
  BY <1>29 DEF vars
<1> QED
  BY <1>1, <1>2, <1>3, <1>4, <1>5, <1>6, <1>7, <1>8, <1>9, <1>10, <1>11,
       <1>12, <1>13, <1>14, <1>15, <1>16, <1>17, <1>18, <1>19, <1>20, <1>21,
       <1>22, <1>23, <1>24, <1>25, <1>26, <1>27, <1>28, <1>29
  DEF Next, Callbacks, MainLoop, Clock

(* When no request to disconnect fails, an overflow always ends the link. *)
LEMMA LossesStep ==
  ASSUME ~DisconnectMayFail
  PROVE  IInv /\ Losses /\ [Next]_vars => Losses'
<1> SUFFICES ASSUME IInv, Losses, [Next]_vars PROVE Losses'
  OBVIOUS
<1> USE ~DisconnectMayFail DEF IInv, TypeOK, Callback, Command, NoCommand,
                                   Commands, References, RefsBalanced, Held,
                                   Losses, NothingRunsAfterALoss, HangUp,
                                   stackVars, workVars, loopVars, advVars,
                                   ghostVars, Goto
<1>1. CASE Connected
  BY <1>1 DEF Connected
<1>2. CASE LinkLost
  BY <1>2 DEF LinkLost
<1>3. CASE Disconnected
  BY <1>3 DEF Disconnected
<1>4. CASE Written
  BY <1>4 DEF Written
<1>5. CASE WrittenOverflow
  BY <1>5 DEF WrittenOverflow
<1>6. CASE WrittenHangUp
  BY <1>6 DEF WrittenHangUp
<1>7. CASE TakeCommand
  BY <1>7 DEF TakeCommand
<1>8. CASE StopAdvertising
  BY <1>8 DEF StopAdvertising
<1>9. CASE StartAdvertising
  BY <1>9 DEF StartAdvertising, ObjectFree
<1>10. CASE CheckLive
  BY <1>10 DEF CheckLive, Live
<1>11. CASE Dispatch
  BY <1>11 DEF Dispatch
<1>12. CASE DispatchFailed
  BY <1>12 DEF DispatchFailed
<1>13. CASE Unref
  BY <1>13 DEF Unref
<1>14. CASE IdleHangUp
  BY <1>14 DEF IdleHangUp
<1>15. CASE /\ UNCHANGED <<air, queue, command, bt, lossy>>
         /\ \/ UNCHANGED pc
            \/ pc' # "dispatch"
  BY <1>15
<1> QED
  BY <1>1, <1>2, <1>3, <1>4, <1>5, <1>6, <1>7, <1>8, <1>9, <1>10, <1>11,
       <1>12, <1>13, <1>14, <1>15
  DEF Next, Callbacks, MainLoop, Clock, Top, TakeEvent, DeadlineReached,
          OtherTimeout, ReadGeneration, ArmRestart, CheckAdvertising,
          StopAdvertisingFails, RecheckLink, StartAdvertisingFails,
          CheckIdle, DisconnectIdle, SlowTime, RetryTime, vars

-----------------------------------------------------------------------------

LEMMA InitIInv ==
  Init => IInv /\ Losses
<1> SUFFICES ASSUME Init PROVE IInv /\ Losses
  OBVIOUS
<1>1. FlagsOK
  BY Zenon DEF Init, FlagsOK
<1>2. TypeOK
  BY <1>1 DEF FlagsOK, Init, TypeOK, Air, Callback, Loop, Owner, Nobody,
       Command, NoCommand
<1>3. Counting /\ References /\ Commands /\ Progress /\ Owners
  BY DEF Init, Counting, References, RefsBalanced, Held, Commands, Progress,
       Owners, Linked, Nobody, NoCommand
<1>4. Wakeups /\ Advertising /\ Losses
  BY DEF Init, Wakeups, Advertising, Losses, NothingRunsAfterALoss,
       NoCommand
<1> QED
  BY <1>2, <1>3, <1>4 DEF IInv

(* The inductive invariant holds in every behaviour of Link. *)
THEOREM Invariance ==
  Spec => []IInv
<1>1. Init => IInv
  BY InitIInv
<1>2. IInv /\ [Next]_vars => IInv'
  BY TypeStep, CountingStep, ReferencesStep, CommandsStep, ProgressStep,
     OwnersStep, WakeupsStep, AdvertisingStep DEF IInv
<1> QED
  BY <1>1, <1>2, PTL DEF Spec

(* Every variable stays in its range; in particular no reference on the    *)
(* connection object is dropped that was not held.                         *)
THEOREM TypeCorrect ==
  Spec => []TypeOK
<1>1. IInv => TypeOK
  BY DEF IInv
<1> QED
  BY <1>1, Invariance, PTL

(* A command is handled against its own connection's transfer, transaction *)
(* and session only, however callbacks interleave with the loop.           *)
THEOREM HandlesOwnState ==
  Spec => []OwnStateAtDispatch
<1>1. IInv => OwnStateAtDispatch
  BY DEF IInv, Owners, Progress, OwnStateAtDispatch, Nobody
<1> QED
  BY <1>1, Invariance, PTL

(* One coalescing semaphore never lets the loop sleep through work.        *)
THEOREM NeverSleepsThroughWork ==
  Spec => []NoLostWakeup
<1>1. IInv => NoLostWakeup
  BY DEF IInv, Wakeups, NoLostWakeup
<1> QED
  BY <1>1, Invariance, PTL

(* The loop sleeps off the air only with an advertising timer armed.       *)
THEOREM KeepsReadvertisingArmed ==
  Spec => []ReadvertisingArmed
<1>1. IInv => ReadvertisingArmed
  BY DEF IInv, Wakeups, Advertising, ReadvertisingArmed
<1> QED
  BY <1>1, Invariance, PTL

(* References are never leaked or dropped twice on any path of the loop.   *)
THEOREM CountsReferences ==
  Spec => []RefsBalanced
<1>1. IInv => RefsBalanced
  BY DEF IInv, References
<1> QED
  BY <1>1, Invariance, PTL

(* No new connection exists while a command of an old one does.            *)
THEOREM ServesOneConnection ==
  Spec => []NoForeignCommand
<1>1. IInv => NoForeignCommand
  BY DEF IInv, TypeOK, Counting, Commands, NoForeignCommand, Linked, Command, NoCommand
<1> QED
  BY <1>1, Invariance, PTL

(* The loop hangs up on the connection it examined and on no later one.    *)
THEOREM HangsUpOnOwnLink ==
  Spec => []HangsUpOnItsOwnLink
<1>1. IInv => HangsUpOnItsOwnLink
  BY DEF IInv, TypeOK, Counting, Commands, Progress, HangsUpOnItsOwnLink, Linked
<1> QED
  BY <1>1, Invariance, PTL

(* If disconnecting works, nothing written after a loss is executed.       *)
THEOREM LossEndsTheLink ==
  ASSUME ~DisconnectMayFail
  PROVE  Spec => []NothingRunsAfterALoss
<1>1. Init => Losses
  BY InitIInv
<1>2. IInv /\ Losses /\ [Next]_vars => Losses'
  BY LossesStep
<1>3. Losses => NothingRunsAfterALoss
  BY DEF Losses
<1> QED
  BY <1>1, <1>2, <1>3, Invariance, PTL DEF Spec

=============================================================================
