------------------------------ MODULE Watchdog ------------------------------
(***************************************************************************)
(* The time one round of the main loop of src/main.c takes, against the    *)
(* watchdog it feeds twice a round and the idle times it enforces.  Time   *)
(* passes in the waits only: for an event, for the panel (src/epd.c) and   *)
(* for a notification (send_wire).  Each takes up to its timeout; how they *)
(* add up is what the handlers of src/protocol.c make of them.             *)
(***************************************************************************)
EXTENDS Integers

CONSTANTS
    Interval,   \* of the watchdog: 180 s
    IdleWait,   \* the longest wait for an event: 60 s
    PacketIdle, \* 30 s without a command end a transfer or transaction
    LinkIdle,   \* LINK_IDLE_MS: 120 s without an accepted command end a link
    Telemetry,  \* TELEMETRY_MS: 300 s between samples
    PanelWait,  \* wait_ready, delays included: 30 s and a little
    SendWait,   \* send_wire: 2 s and a little
    ReadWait    \* a configuration read: 49 times SendWait at most

ASSUME WatchdogAssumption ==
    /\ {Interval, IdleWait, PacketIdle, LinkIdle, Telemetry, PanelWait, SendWait, ReadWait}
           \subseteq Nat \ {0}
    /\ IdleWait <= Interval
    /\ PanelWait + ReadWait <= Interval
    /\ 3 * PanelWait + 3 * SendWait <= Interval

VARIABLES
    pc,
    up,         \* link_up
    changed,    \* generation # current
    active,     \* protocol.active
    writing     \* od_config_writing()

VARIABLES       \* ages; those compared with a limit stop growing at it
    fed,        \* of the latest reload of the watchdog
    packet,     \* of last_packet
    activity,   \* of last_activity
    telemetry,  \* of last_telemetry
    quiet       \* history: of the latest accepted command, connection or hang-up

vars == <<pc, up, changed, active, writing, fed, packet, activity, telemetry, quiet>>

-----------------------------------------------------------------------------

Positions == {"boot", "top", "wait", "woken", "telemetry", "command", "failed", "idle"}

TypeOK ==
    /\ pc \in Positions
    /\ up \in BOOLEAN /\ changed \in BOOLEAN /\ active \in BOOLEAN /\ writing \in BOOLEAN
    /\ fed \in Nat
    /\ packet \in 0 .. PacketIdle + 1
    /\ activity \in 0 .. LinkIdle
    /\ telemetry \in 0 .. Telemetry
    /\ quiet \in 0 .. LinkIdle + Interval + 1

Init ==
    /\ pc = "boot"
    /\ up = FALSE /\ changed = TRUE /\ active = FALSE /\ writing = FALSE
    /\ fed = 0 /\ packet = 0 /\ activity = 0 /\ telemetry = 0 /\ quiet = 0

(* The age after d more.                                                   *)
Older(age, d, limit) == IF age + d > limit THEN limit ELSE age + d

(* d passes, without a reload of the watchdog or a sample.                 *)
Busy(d) ==
    /\ fed' = fed + d
    /\ telemetry' = Older(telemetry, d, Telemetry)

(* Nobody accepts a command meanwhile.                                     *)
Quiet(d) == quiet' = Older(quiet, d, LinkIdle + Interval + 1)

Aging(d) ==
    /\ Busy(d)
    /\ Quiet(d)
    /\ packet' = Older(packet, d, PacketIdle + 1)
    /\ activity' = Older(activity, d, LinkIdle)

(* What od_abort takes.                                                    *)
Closing(open) == IF open THEN PanelWait ELSE 0

-----------------------------------------------------------------------------

Connected ==
    /\ pc # "boot" /\ ~up
    /\ up' = TRUE /\ changed' = TRUE
    /\ quiet' = 0
    /\ UNCHANGED <<pc, active, writing, fed, packet, activity, telemetry>>

Disconnected ==
    /\ up
    /\ up' = FALSE /\ changed' = TRUE
    /\ UNCHANGED <<pc, active, writing, fed, packet, activity, telemetry, quiet>>

(* From the start of the watchdog to the loop: epd_init.                   *)
Boot ==
    /\ pc = "boot"
    /\ \E d \in 0 .. PanelWait : fed' = d
    /\ pc' = "top"
    /\ UNCHANGED <<up, changed, active, writing, packet, activity, telemetry, quiet>>

Top ==
    /\ pc = "top"
    /\ fed' = 0
    /\ pc' = "wait"
    /\ UNCHANGED <<up, changed, active, writing, packet, activity, telemetry, quiet>>

(* Mutant: nothing bounds the wait for telemetry.                          *)
DeadlinesOfOthers ==
    (IF up THEN {LinkIdle - activity} ELSE {Telemetry - telemetry})
    \cup (IF active \/ writing THEN {PacketIdle - packet} ELSE {})

(* Mutant: a transaction is left alone.                                    *)
DeadlinesOfTransfer ==
    {IdleWait}
    \cup (IF up THEN {LinkIdle - activity} ELSE {Telemetry - telemetry})
    \cup (IF active THEN {PacketIdle - packet} ELSE {})

(* The wait ends at the least of these, and perhaps at a time of the       *)
(* advertiser.                                                             *)
Deadlines ==
    {IdleWait}
    \cup (IF up THEN {LinkIdle - activity} ELSE {Telemetry - telemetry})
    \cup (IF active \/ writing THEN {PacketIdle - packet} ELSE {})

(* A deadline or an event; a change of generation is not waited with.      *)
Wait(d) ==
    /\ pc = "wait"
    /\ \A deadline \in Deadlines : d <= deadline
    /\ changed => d = 0
    /\ Aging(d)
    /\ pc' = "woken"
    /\ UNCHANGED <<up, changed, active, writing>>

Overdue == (active \/ writing) /\ packet >= PacketIdle

(* The watchdog is reloaded; what a connection or nobody goes on with is   *)
(* aborted.                                                                *)
Cleanup(d) ==
    /\ pc = "woken"
    /\ IF changed \/ Overdue
       THEN /\ d <= Closing(active)
            /\ active' = FALSE /\ writing' = FALSE
       ELSE d = 0 /\ UNCHANGED <<active, writing>>
    /\ fed' = d
    /\ telemetry' = Older(telemetry, d, Telemetry)
    /\ Quiet(d)
    /\ packet' = Older(IF changed THEN 0 ELSE packet, d, PacketIdle + 1)
    /\ activity' = Older(IF changed THEN 0 ELSE activity, d, LinkIdle)
    /\ changed' = FALSE
    /\ pc' = "telemetry"
    /\ UNCHANGED up

(* A sample that is due, or one for the slow advertising that starts.      *)
Sample ==
    /\ pc = "telemetry"
    /\ \/ UNCHANGED telemetry /\ (up \/ telemetry < Telemetry)
       \/ ~up /\ telemetry' = 0
    /\ pc' = "command"
    /\ UNCHANGED <<up, changed, active, writing, fed, packet, activity, quiet>>

-----------------------------------------------------------------------------
(* What a command takes at most, and what it leaves open.                  *)

Takes(time, open, staging) == [time |-> time, active |-> open, writing |-> staging]

(* 0x40, every other command that only answers, and data that is taken.    *)
Answers == {Takes(ReadWait, active, writing), Takes(SendWait, active, writing)}

(* 0x42                                                                    *)
Chunks == {Takes(SendWait, active, FALSE)}

(* 0x41, 0x45, 0x50, a session that has expired, and starts and data that  *)
(* are refused.                                                            *)
Aborts == {Takes(Closing(active) + SendWait, FALSE, staging) : staging \in BOOLEAN}

(* 0x70, 0x76, 0x80: the panel comes on, or not, or for bad data.          *)
Starts ==
    {Takes(Closing(active) + PanelWait + SendWait, TRUE, FALSE),
     Takes(Closing(active) + 2 * PanelWait + SendWait, FALSE, FALSE)}

(* 0x72, 0x82 and the last data of a PIPE: refused, or after up to two     *)
(* acknowledgements the refresh and the end of power, and the result.      *)
Ends ==
    {Takes(Closing(active) + 2 * SendWait, FALSE, writing)}
    \cup {Takes(2 * PanelWait + 3 * SendWait, FALSE, writing) : open \in {active} \cap {TRUE}}

Handlers == Answers \cup Chunks \cup Aborts \cup Starts \cup Ends

(* Mutant: a command of any kind counts.                                   *)
CountsAlways(accepted) == TRUE

(* Refused frames, handshakes and discovery do not.                        *)
Counts(accepted) == accepted

(* dispatch of a live command, and what main does after it.                *)
Command(handler, d, accepted, err) ==
    /\ pc = "command" /\ up /\ ~changed
    /\ d <= handler.time
    /\ active' = handler.active /\ writing' = handler.writing
    /\ Busy(d)
    /\ packet' = 0
    /\ activity' = IF Counts(accepted) THEN 0 ELSE Older(activity, d, LinkIdle)
    /\ IF accepted THEN quiet' = 0 ELSE Quiet(d)
    /\ pc' = IF err THEN "failed" ELSE "idle"
    /\ UNCHANGED <<up, changed>>

(* No command, or one that is not live any more.                           *)
NoCommand ==
    /\ pc = "command"
    /\ pc' = "idle"
    /\ UNCHANGED <<up, changed, active, writing, fed, packet, activity, telemetry, quiet>>

(* The command failed: abort, and a request to disconnect.                 *)
Failed(d) ==
    /\ pc = "failed"
    /\ d <= Closing(active)
    /\ active' = FALSE
    /\ Aging(d)
    /\ pc' = "idle"
    /\ UNCHANGED <<up, changed, writing>>

(* The request to hang up may fail, and is repeated after as long again.   *)
Idle ==
    /\ pc = "idle"
    /\ IF up /\ activity = LinkIdle
       THEN activity' = 0 /\ quiet' = 0
       ELSE UNCHANGED <<activity, quiet>>
    /\ pc' = "top"
    /\ UNCHANGED <<up, changed, active, writing, fed, packet, telemetry>>

Next ==
    \/ Connected \/ Disconnected
    \/ Boot \/ Top
    \/ \E d \in 0 .. Telemetry : Wait(d)
    \/ \E d \in 0 .. PanelWait : Cleanup(d)
    \/ Sample
    \/ \E handler \in Handlers, d \in 0 .. Interval, accepted, err \in BOOLEAN :
          Command(handler, d, accepted, err)
    \/ NoCommand
    \/ \E d \in 0 .. PanelWait : Failed(d)
    \/ Idle

Spec == Init /\ [][Next]_vars

-----------------------------------------------------------------------------

(* The watchdog never fires while the panel, the host and the peer keep    *)
(* each wait within its timeout, however the waits of a round add up.      *)
NeverFires == fed <= Interval

(* A transfer or a configuration transaction nobody goes on with is        *)
(* aborted, and with it the panel switched off, as soon as the limit is    *)
(* reached: no wait goes on past it.                                       *)
AbandonedIsEnded == active \/ writing => packet <= PacketIdle

(* A peer that sends only commands that are refused, or none, loses its    *)
(* link: the loop never waits for one that has been quiet for longer than  *)
(* the limit and the round in which it connected.                          *)
QuietIsHungUp == up /\ pc = "wait" => quiet <= LinkIdle + Interval

=============================================================================
