-------------------------------- MODULE Link --------------------------------
(***************************************************************************)
(* The concurrent core of the firmware, src/main.c: Bluetooth callbacks    *)
(* hand one GATT write at a time to the main loop through a queue of       *)
(* depth one, and connection changes through a generation counter.         *)
(*                                                                         *)
(* Two kinds of actor run here.  The callbacks run on the Bluetooth host's *)
(* cooperative threads, so the main thread (preemptible, single core)      *)
(* never sees half of one: a callback is one action, except where it       *)
(* blocks (bt_conn_disconnect in written).  The main loop may be preempted *)
(* between any two of its reads of shared state: one action per such read. *)
(*                                                                         *)
(* What a command does to the transfer, the configuration transaction and  *)
(* the session is abstracted to who owns each of them: the generation that *)
(* was live when the command that opened it was dispatched.                *)
(***************************************************************************)
EXTENDS Integers

CONSTANTS
    MaxLinks,           \* bound: number of connections a behaviour has
    MaxHciErrors,       \* bound: number of HCI requests that fail
    DisconnectMayFail   \* whether bt_conn_disconnect is one of those requests

ASSUME LinkAssumption ==
    /\ MaxLinks \in Nat
    /\ MaxHciErrors \in Nat
    /\ DisconnectMayFail \in BOOLEAN

VARIABLES
    air,         \* the one connection object and the advertiser, see Air
    refs,        \* references the application holds on that object
    linkUp,      \* link_up
    generation,  \* generation
    events,      \* the coalescing semaphore events
    queue,       \* the message queue commands, of depth one
    bt           \* what the callback thread is doing, see Callback

stackVars == <<air, refs, linkUp, generation, events, queue, bt>>

VARIABLES
    pc,          \* where the main loop is, see Loop
    current,     \* the generation the loop has cleaned up for
    next,        \* the generation it read in this iteration
    command,     \* the command it took from the queue, or NoCommand
    transfer,    \* owner of protocol.active
    staging,     \* owner of an open configuration transaction
    session      \* owner of the authenticated session

workVars == <<transfer, staging, session>>
loopVars == <<current, next, command>>

VARIABLES
    fastAdvertising,     \* fast_advertising
    restartAdvertising,  \* restart_advertising
    fast,                \* the local fast of the advertising block
    slowDue,             \* the clock has passed slow_adv_at
    retryDue,            \* the clock has passed retry_adv_at
    deadline             \* the advertising timer the semaphore wait obeys

advVars == <<fastAdvertising, restartAdvertising, fast, slowDue, retryDue, deadline>>

VARIABLES
    links,       \* connections established so far
    hciErrors,   \* failed HCI requests so far
    lossy        \* the current connection lost a write to a full queue

ghostVars == <<links, hciErrors, lossy>>

vars == <<stackVars, pc, workVars, loopVars, advVars, ghostVars>>

-----------------------------------------------------------------------------

(* CONFIG_BT_MAX_CONN is 1.  Connectable advertising reserves the object,  *)
(* a connection turns the reservation into a link, and after the           *)
(* disconnected callback it is free again once nobody refers to it.        *)
Air == {"adv", "connected", "disconnecting", "down", "idle"}
Linked == {"connected", "disconnecting", "down"}

Callback == {"none", "overflow"}

Loop == {"top", "blocked", "get", "generation", "restart", "advertise", "stop",
         "recheck", "start", "live", "dispatch", "fail", "unref",
         "idle", "idleCheck", "idleHangUp"}

Nobody == -1
Owner == Nat \cup {Nobody}

(* struct command, reduced to the generation it was captured under and     *)
(* whether an earlier write of the same connection had been dropped.       *)
Command == [generation : Nat, afterLoss : BOOLEAN]
NoCommand == [generation |-> -1, afterLoss |-> FALSE]

TypeOK ==
    /\ air \in Air
    /\ refs \in Nat
    /\ linkUp \in BOOLEAN
    /\ generation \in Nat
    /\ events \in {0, 1}
    /\ queue \in Command \cup {NoCommand}
    /\ bt \in Callback
    /\ pc \in Loop
    /\ current \in Owner
    /\ next \in Nat
    /\ command \in Command \cup {NoCommand}
    /\ transfer \in Owner
    /\ staging \in Owner
    /\ session \in Owner
    /\ fastAdvertising \in BOOLEAN
    /\ restartAdvertising \in BOOLEAN
    /\ fast \in BOOLEAN
    /\ slowDue \in BOOLEAN
    /\ retryDue \in BOOLEAN
    /\ deadline \in {"none", "slow", "retry"}
    /\ links \in Nat
    /\ hciErrors \in Nat
    /\ lossy \in BOOLEAN

(* main has enabled Bluetooth and started fast advertising.                *)
Init ==
    /\ air = "adv"
    /\ refs = 0
    /\ linkUp = FALSE
    /\ generation = 0
    /\ events = 0
    /\ queue = NoCommand
    /\ bt = "none"
    /\ pc = "top"
    /\ current = -1
    /\ next = 0
    /\ command = NoCommand
    /\ transfer = Nobody
    /\ staging = Nobody
    /\ session = Nobody
    /\ fastAdvertising = TRUE
    /\ restartAdvertising = FALSE
    /\ fast = TRUE
    /\ slowDue = FALSE
    /\ retryDue = FALSE
    /\ deadline = "none"
    /\ links = 0
    /\ hciErrors = 0
    /\ lossy = FALSE

-----------------------------------------------------------------------------
(* The Bluetooth host.                                                     *)

(* bt_conn_disconnect.  Success moves a connected object to disconnecting  *)
(* and the disconnected callback follows; on any other state it is an      *)
(* error that changes nothing.                                             *)
HangUp ==
    \/ /\ air' = IF air = "connected" THEN "disconnecting" ELSE air
       /\ UNCHANGED hciErrors
    \/ /\ DisconnectMayFail
       /\ hciErrors < MaxHciErrors
       /\ hciErrors' = hciErrors + 1
       /\ UNCHANGED air

(* A peer connects; the host calls connected with err = 0.                 *)
Connected ==
    /\ air = "adv"
    /\ bt = "none"
    /\ links < MaxLinks
    /\ air' = "connected"
    /\ links' = links + 1
    /\ lossy' = FALSE
    /\ linkUp' = TRUE
    /\ generation' = generation + 1
    /\ events' = 1
    /\ UNCHANGED <<refs, queue, bt, pc, workVars, loopVars, advVars, hciErrors>>

(* The link is lost, or a requested disconnection completes.               *)
LinkLost ==
    /\ air \in {"connected", "disconnecting"}
    /\ air' = "down"
    /\ UNCHANGED <<refs, linkUp, generation, events, queue, bt, pc, workVars,
                   loopVars, advVars, ghostVars>>

(* Mutant: disconnected forgets to wake the loop.                          *)
DisconnectedSilently ==
    /\ air = "down"
    /\ air' = "idle"
    /\ linkUp' = FALSE
    /\ generation' = generation + 1
    /\ UNCHANGED <<refs, events, queue, bt, pc, workVars, loopVars, advVars, ghostVars>>

(* The host calls disconnected and then gives up its own reference.        *)
Disconnected ==
    /\ air = "down"
    /\ air' = "idle"
    /\ linkUp' = FALSE
    /\ generation' = generation + 1
    /\ events' = 1
    /\ UNCHANGED <<refs, queue, bt, pc, workVars, loopVars, advVars, ghostVars>>

(* Mutant: written forgets to wake the loop.                               *)
WrittenSilently ==
    /\ air \in {"connected", "disconnecting"}
    /\ bt = "none"
    /\ queue = NoCommand
    /\ queue' = [generation |-> generation, afterLoss |-> lossy]
    /\ refs' = refs + 1
    /\ UNCHANGED <<air, linkUp, generation, events, bt, pc, workVars, loopVars,
                   advVars, ghostVars>>

(* The peer writes; written queues a reference-holding command.  Writes of *)
(* a bad length or offset are refused before they touch any state.         *)
Written ==
    /\ air \in {"connected", "disconnecting"}
    /\ bt = "none"
    /\ queue = NoCommand
    /\ queue' = [generation |-> generation, afterLoss |-> lossy]
    /\ refs' = refs + 1
    /\ events' = 1
    /\ UNCHANGED <<air, linkUp, generation, bt, pc, workVars, loopVars, advVars,
                   ghostVars>>

(* The queue is full: the write is dropped and written goes on to drop the *)
(* link as well.                                                           *)
WrittenOverflow ==
    /\ air \in {"connected", "disconnecting"}
    /\ bt = "none"
    /\ queue # NoCommand
    /\ bt' = "overflow"
    /\ lossy' = TRUE
    /\ UNCHANGED <<air, refs, linkUp, generation, events, queue, pc, workVars,
                   loopVars, advVars, links, hciErrors>>

WrittenHangUp ==
    /\ bt = "overflow"
    /\ bt' = "none"
    /\ HangUp
    /\ UNCHANGED <<refs, linkUp, generation, events, queue, pc, workVars,
                   loopVars, advVars, links, lossy>>

-----------------------------------------------------------------------------
(* The main loop.                                                          *)

Goto(from, to) ==
    /\ pc = from
    /\ pc' = to

(* Mutant: a pending restart does not shorten the wait.                    *)
DeadlineWithoutRetry ==
    IF ~linkUp /\ fastAdvertising /\ ~restartAdvertising THEN "slow" ELSE "none"

(* The advertising timer that limits the wait.                             *)
AdvertisingDeadline ==
    IF linkUp THEN "none"
    ELSE IF restartAdvertising THEN "retry"
    ELSE IF fastAdvertising THEN "slow" ELSE "none"

(* Compute the deadline; wait only if no connection change is pending.     *)
Top ==
    /\ Goto("top", IF generation = current THEN "blocked" ELSE "get")
    /\ deadline' = AdvertisingDeadline
    /\ UNCHANGED <<stackVars, workVars, loopVars, ghostVars, fastAdvertising,
                   restartAdvertising, fast, slowDue, retryDue>>

TakeEvent ==
    /\ Goto("blocked", "get")
    /\ events = 1
    /\ events' = 0
    /\ UNCHANGED <<air, refs, linkUp, generation, queue, bt, workVars, loopVars,
                   advVars, ghostVars>>

(* The wait ends at the advertising deadline it was given ...              *)
DeadlineReached ==
    /\ Goto("blocked", "get")
    /\ \/ deadline = "retry" /\ retryDue
       \/ deadline = "slow" /\ slowDue
    /\ UNCHANGED <<stackVars, workVars, loopVars, advVars, ghostVars>>

(* ... or at another one: watchdog, telemetry, transfer or idle timeout.   *)
OtherTimeout ==
    /\ Goto("blocked", "get")
    /\ UNCHANGED <<stackVars, workVars, loopVars, advVars, ghostVars>>

TakeCommand ==
    /\ Goto("get", "generation")
    /\ command' = queue
    /\ queue' = NoCommand
    /\ UNCHANGED <<air, refs, linkUp, generation, events, bt, workVars, current,
                   next, advVars, ghostVars>>

(* Mutant: the session outlives its connection.                            *)
CleanupKeepsSession(changed, timedOut) ==
    /\ IF changed \/ timedOut
       THEN transfer' = Nobody /\ staging' = Nobody
       ELSE UNCHANGED <<transfer, staging>>
    /\ UNCHANGED session

(* A new generation or a transfer timeout aborts the transfer and cancels  *)
(* the configuration transaction; a new generation also ends the session.  *)
Cleanup(changed, timedOut) ==
    /\ IF changed \/ timedOut
       THEN transfer' = Nobody /\ staging' = Nobody
       ELSE UNCHANGED <<transfer, staging>>
    /\ session' = IF changed THEN Nobody ELSE session

(* Read the generation, after the command has been taken, and clean up.    *)
ReadGeneration ==
    /\ Goto("generation", "restart")
    /\ next' = generation
    /\ \E timedOut \in BOOLEAN :
          /\ timedOut => transfer # Nobody \/ staging # Nobody
          /\ Cleanup(generation # current, timedOut)
    /\ UNCHANGED <<stackVars, current, command, advVars, ghostVars>>

RestartNeeded == next # current /\ current # -1 /\ ~linkUp

(* The rest of the cleanup: a new generation that finds the link down      *)
(* starts a new fast advertising window, except at boot.                   *)
ArmRestart ==
    /\ Goto("restart", "advertise")
    /\ current' = next
    /\ IF RestartNeeded
       THEN /\ fastAdvertising' = TRUE
            /\ restartAdvertising' = TRUE
            /\ slowDue' = FALSE
            /\ retryDue' = TRUE
       ELSE UNCHANGED <<fastAdvertising, restartAdvertising, slowDue, retryDue>>
    /\ UNCHANGED <<stackVars, workVars, next, command, fast, deadline, ghostVars>>

(* Is an advertising change due?  With no link, at the retry time if a     *)
(* restart is pending and at the end of the fast window otherwise.         *)
AdvertisingDue ==
    /\ ~linkUp
    /\ \/ restartAdvertising /\ retryDue
       \/ ~restartAdvertising /\ fastAdvertising /\ slowDue

CheckAdvertising ==
    /\ Goto("advertise", IF AdvertisingDue THEN "stop" ELSE "live")
    /\ fast' = IF AdvertisingDue THEN ~slowDue ELSE fast
    /\ UNCHANGED <<stackVars, workVars, loopVars, ghostVars, fastAdvertising,
                   restartAdvertising, slowDue, retryDue, deadline>>

(* The block ends by noting the outcome and setting the next retry time.   *)
AdvertisingDone(failed) ==
    /\ restartAdvertising' = failed
    /\ retryDue' = FALSE

StopAdvertising ==
    /\ Goto("stop", "recheck")
    /\ air' = IF air = "adv" THEN "idle" ELSE air
    /\ UNCHANGED <<refs, linkUp, generation, events, queue, bt, workVars,
                   loopVars, advVars, ghostVars>>

StopAdvertisingFails ==
    /\ Goto("stop", "live")
    /\ hciErrors < MaxHciErrors
    /\ hciErrors' = hciErrors + 1
    /\ AdvertisingDone(TRUE)
    /\ UNCHANGED <<stackVars, workVars, loopVars, links, lossy, fastAdvertising,
                   fast, slowDue, deadline>>

(* A connection may race stop and start: look again.                       *)
RecheckLink ==
    /\ pc = "recheck"
    /\ IF linkUp
       THEN pc' = "live" /\ AdvertisingDone(FALSE)
       ELSE pc' = "start" /\ UNCHANGED <<restartAdvertising, retryDue>>
    /\ UNCHANGED <<stackVars, workVars, loopVars, ghostVars, fastAdvertising,
                   fast, slowDue, deadline>>

(* Connectable advertising needs the connection object.                    *)
ObjectFree == air = "idle" /\ refs = 0 /\ bt = "none"

StartAdvertising ==
    /\ Goto("start", "live")
    /\ ObjectFree
    /\ air' = "adv"
    /\ fastAdvertising' = fast
    /\ AdvertisingDone(FALSE)
    /\ UNCHANGED <<refs, linkUp, generation, events, queue, bt, workVars,
                   loopVars, ghostVars, fast, slowDue, deadline>>

StartAdvertisingFails ==
    /\ Goto("start", "live")
    /\ \/ ~ObjectFree /\ UNCHANGED hciErrors
       \/ hciErrors < MaxHciErrors /\ hciErrors' = hciErrors + 1
    /\ AdvertisingDone(TRUE)
    /\ UNCHANGED <<stackVars, workVars, loopVars, links, lossy, fastAdvertising,
                   fast, slowDue, deadline>>

(* live: the command belongs to the connection that is up right now.       *)
Live(c) == c.generation = generation /\ air = "connected"

CheckLive ==
    /\ Goto("live", IF command = NoCommand THEN "idle"
                    ELSE IF Live(command) THEN "dispatch" ELSE "unref")
    /\ UNCHANGED <<stackVars, workVars, loopVars, advVars, ghostVars>>

(* The handler ran.  For each of the transfer, the transaction and the     *)
(* session it opened one for its own connection, closed it or left it; a   *)
(* nonzero result aborts the transfer and hangs up.                        *)
Dispatch ==
    /\ \/ Goto("dispatch", "unref")
       \/ Goto("dispatch", "fail")
    /\ transfer' \in {transfer, Nobody, command.generation}
    /\ staging' \in {staging, Nobody, command.generation}
    /\ session' \in {session, Nobody, command.generation}
    /\ UNCHANGED <<stackVars, loopVars, advVars, ghostVars>>

DispatchFailed ==
    /\ Goto("fail", "unref")
    /\ transfer' = Nobody
    /\ HangUp
    /\ UNCHANGED <<refs, linkUp, generation, events, queue, bt, staging, session,
                   loopVars, advVars, links, lossy>>

(* The command has been handled or refused: drop its reference.            *)
Unref ==
    /\ Goto("unref", "idle")
    /\ refs' = refs - 1
    /\ command' = NoCommand
    /\ UNCHANGED <<air, linkUp, generation, events, queue, bt, workVars, current,
                   next, advVars, ghostVars>>

(* The idle timeout: bt_conn_foreach refers to the object around the       *)
(* callback disconnect_idle, which compares generations first.             *)
CheckIdle ==
    /\ pc = "idle"
    /\ \/ /\ linkUp /\ air \in Linked
          /\ pc' = "idleCheck"
          /\ refs' = refs + 1
       \/ /\ pc' = "top"
          /\ UNCHANGED refs
    /\ UNCHANGED <<air, linkUp, generation, events, queue, bt, workVars, loopVars,
                   advVars, ghostVars>>

(* Mutant: the idle callback does not compare generations.                 *)
DisconnectAnyone ==
    /\ Goto("idleCheck", "idleHangUp")
    /\ UNCHANGED <<stackVars, workVars, loopVars, advVars, ghostVars>>

DisconnectIdle ==
    /\ pc = "idleCheck"
    /\ IF generation = current
       THEN pc' = "idleHangUp" /\ UNCHANGED refs
       ELSE pc' = "top" /\ refs' = refs - 1
    /\ UNCHANGED <<air, linkUp, generation, events, queue, bt, workVars, loopVars,
                   advVars, ghostVars>>

IdleHangUp ==
    /\ Goto("idleHangUp", "top")
    /\ HangUp
    /\ refs' = refs - 1
    /\ UNCHANGED <<linkUp, generation, events, queue, bt, workVars, loopVars,
                   advVars, links, lossy>>

-----------------------------------------------------------------------------
(* The clock reaches a time the loop has set.                              *)

SlowTime ==
    /\ ~slowDue
    /\ slowDue' = TRUE
    /\ UNCHANGED <<stackVars, pc, workVars, loopVars, ghostVars, fastAdvertising,
                   restartAdvertising, fast, retryDue, deadline>>

RetryTime ==
    /\ ~retryDue
    /\ retryDue' = TRUE
    /\ UNCHANGED <<stackVars, pc, workVars, loopVars, ghostVars, fastAdvertising,
                   restartAdvertising, fast, slowDue, deadline>>

-----------------------------------------------------------------------------

Callbacks ==
    \/ Connected \/ LinkLost \/ Disconnected
    \/ Written \/ WrittenOverflow \/ WrittenHangUp

(* Every way the loop makes progress, the timeouts that are not the        *)
(* advertiser's left out.                                                  *)
MainLoop ==
    \/ Top \/ TakeEvent \/ DeadlineReached
    \/ TakeCommand \/ ReadGeneration \/ ArmRestart
    \/ CheckAdvertising \/ StopAdvertising \/ StopAdvertisingFails \/ RecheckLink
    \/ StartAdvertising \/ StartAdvertisingFails
    \/ CheckLive \/ Dispatch \/ DispatchFailed \/ Unref
    \/ CheckIdle \/ DisconnectIdle \/ IdleHangUp

Clock == SlowTime \/ RetryTime

Next == Callbacks \/ MainLoop \/ OtherTimeout \/ Clock

Spec == Init /\ [][Next]_vars

(* The loop's thread runs whenever it can, time passes, and the host       *)
(* finishes what it began.  Peers owe nothing, and no periodic wakeup      *)
(* (OtherTimeout) is relied upon.                                          *)
Fairness ==
    /\ WF_vars(MainLoop)
    /\ WF_vars(SlowTime)
    /\ WF_vars(RetryTime)
    /\ WF_vars(Disconnected)
    /\ WF_vars(WrittenHangUp)

FairSpec == Spec /\ Fairness

-----------------------------------------------------------------------------
(* What the loop and the callbacks promise each other.                     *)

(* A command is only ever handled against a transfer, a configuration      *)
(* transaction and a session of its own connection: whatever an earlier    *)
(* connection left behind was cleaned up first (main takes the command     *)
(* before it reads the generation).                                        *)
OwnStateAtDispatch ==
    pc = "dispatch" =>
        \A owner \in {transfer, staging, session} :
            owner \in {Nobody, command.generation}

(* The loop never sleeps on a semaphore that will not be given while a     *)
(* command or a connection change waits: one coalescing semaphore is       *)
(* enough for both kinds of event.                                         *)
NoLostWakeup ==
    pc = "blocked" /\ events = 0 => queue = NoCommand /\ generation = current

(* When the loop goes to sleep with no link and nothing on the air, one of *)
(* the two advertising timers is armed to bring the tag back.              *)
ReadvertisingArmed ==
    pc = "blocked" /\ events = 0 /\ air = "idle" =>
        restartAdvertising \/ fastAdvertising

(* Commands of a past connection are gone before the next connection can   *)
(* exist: their references keep the only connection object, so a new peer  *)
(* never finds the queue filled by its predecessor.                        *)
NoForeignCommand ==
    \A c \in {queue, command} :
        c # NoCommand => generation \in {c.generation, c.generation + 1}

(* Every reference is accounted for: one per queued command, one for the   *)
(* command in hand, one around the idle callback.  None leaks, none is     *)
(* dropped twice.                                                          *)
Held(condition) == IF condition THEN 1 ELSE 0

RefsBalanced ==
    refs = Held(queue # NoCommand) + Held(command # NoCommand)
         + Held(pc \in {"idleCheck", "idleHangUp"})

(* The loop hangs up only on the connection it meant: the one of the       *)
(* command that failed, or the one its idle time was measured on.          *)
HangsUpOnItsOwnLink ==
    /\ pc = "fail" /\ air = "connected" => generation = command.generation
    /\ pc = "idleHangUp" /\ air = "connected" => generation = current

(* After a write was lost to a full queue, nothing the same connection     *)
(* writes later is executed (written drops the link instead of bytes).     *)
NothingRunsAfterALoss == pc = "dispatch" => ~command.afterLoss

(* What lost connections left behind is cleaned up, without waiting for a  *)
(* periodic timeout or for the next peer: a transfer, a transaction or a   *)
(* session of a command that is not of the present connection.             *)
Leftovers == \E owner \in {transfer, staging, session} : owner # Nobody /\ owner # generation

LeftoversAreCleaned == Leftovers ~> ~Leftovers

(* A tag without a link and without advertising comes back on the air.     *)
TagComesBack == air = "idle" ~> air = "adv"

(* Every queued command is taken by the loop.                              *)
CommandIsTaken == queue # NoCommand ~> queue = NoCommand

=============================================================================
