------------------------------- MODULE Notify -------------------------------
(***************************************************************************)
(* The notification ticket of src/main.c: send_wire hands one notification *)
(* to the Bluetooth host and waits, for at most two seconds, until the     *)
(* host's callback notification_sent reports that it went out.  The        *)
(* callback of a notification that was given up may still come, during a   *)
(* later send and on a later connection.                                   *)
(*                                                                         *)
(* The callback runs on a cooperative thread and is one action; send_wire  *)
(* runs on the preemptible main thread, one action per access to shared    *)
(* state.                                                                  *)
(***************************************************************************)
EXTENDS Integers, FiniteSets

CONSTANTS
    TicketModulus,   \* 2^32 in the code: tickets are 32-bit
    MaxGeneration    \* bound: connection changes in a behaviour

ASSUME NotifyAssumption ==
    /\ TicketModulus \in Nat /\ TicketModulus > 3 /\ TicketModulus % 2 = 0
    /\ MaxGeneration \in Nat

VARIABLES
    generation,        \* generation
    connected,         \* the connection object is in state CONNECTED
    outstanding,       \* notifications the host still owes a callback for
    ticket,            \* notify_ticket: even while a send owns a notification
    notifyGeneration,  \* notify_generation
    done               \* the semaphore notify_done

hostVars == <<generation, connected, outstanding>>

VARIABLES
    pc,         \* where send_wire is, see Send
    command,    \* the generation of the command being answered
    previous,   \* the local previous
    mine,       \* the local ticket
    expired,    \* the clock has passed the local deadline
    delivered,  \* history: the host sent what this call queued
    result      \* what the last call returned

callVars == <<command, previous, mine, expired>>

vars == <<hostVars, ticket, notifyGeneration, done, pc, callVars, delivered, result>>

Send == {"idle", "ticket", "reserve", "attempt", "queue",
         "wait", "waitLive", "waitDeadline", "sleep", "finish"}
Result == {"none", "ok", "ENOTCONN", "EBUSY", "ETIMEDOUT", "error"}
Ticket == 0 .. TicketModulus - 1
Generation == 0 .. MaxGeneration

(* fresh: queued by the call in progress, not by an earlier one.           *)
Notification == [ticket : Ticket, generation : Generation, fresh : BOOLEAN]

TypeOK ==
    /\ generation \in Generation
    /\ connected \in BOOLEAN
    /\ outstanding \in SUBSET Notification
    /\ ticket \in Ticket
    /\ notifyGeneration \in Generation
    /\ done \in {0, 1}
    /\ pc \in Send
    /\ command \in Generation
    /\ previous \in Ticket
    /\ mine \in Ticket
    /\ expired \in BOOLEAN
    /\ delivered \in BOOLEAN
    /\ result \in Result

Init ==
    /\ generation = 0
    /\ connected = FALSE
    /\ outstanding = {}
    /\ ticket = 1
    /\ notifyGeneration = 0
    /\ done = 0
    /\ pc = "idle"
    /\ command = 0
    /\ previous = 1
    /\ mine = 0
    /\ expired = FALSE
    /\ delivered = FALSE
    /\ result = "none"

-----------------------------------------------------------------------------
(* The Bluetooth host.                                                     *)

(* A connection comes up.  The command being answered keeps the only       *)
(* connection object (NoForeignCommand in Link), so none does during a     *)
(* call.                                                                   *)
Connected ==
    /\ ~connected
    /\ generation % 2 = 0
    /\ pc = "idle"
    /\ generation < MaxGeneration
    /\ generation' = generation + 1
    /\ connected' = TRUE
    /\ UNCHANGED <<outstanding, ticket, notifyGeneration, done, pc, callVars,
                   delivered, result>>

LinkLost ==
    /\ connected
    /\ connected' = FALSE
    /\ UNCHANGED <<generation, outstanding, ticket, notifyGeneration, done, pc,
                   callVars, delivered, result>>

Disconnected ==
    /\ ~connected
    /\ generation % 2 = 1
    /\ generation < MaxGeneration
    /\ generation' = generation + 1
    /\ UNCHANGED <<connected, outstanding, ticket, notifyGeneration, done, pc,
                   callVars, delivered, result>>

Odd(t) == t % 2 = 1
Completed(t) == IF Odd(t) THEN t ELSE t + 1

(* Mutant: the callback does not compare tickets.                          *)
CompleteAnyTicket(t) ==
    /\ ticket' = Completed(ticket)
    /\ done' = 1

(* atomic_cas, and the semaphore only if it succeeded.                     *)
CompleteTicket(t) ==
    IF ticket = t
    THEN ticket' = Completed(t) /\ done' = 1
    ELSE UNCHANGED <<ticket, done>>

(* The callback of a notification, on time or late.                        *)
NotificationSent ==
    \E n \in outstanding :
        /\ outstanding' = outstanding \ {n}
        /\ CompleteTicket(n.ticket)
        /\ delivered' = (delivered \/ n.fresh)
        /\ UNCHANGED <<generation, connected, notifyGeneration, pc, callVars, result>>

(* A lost connection takes its notifications with it, or calls back later. *)
Discard ==
    \E n \in outstanding :
        /\ ~connected \/ n.generation # generation
        /\ outstanding' = outstanding \ {n}
        /\ UNCHANGED <<generation, connected, ticket, notifyGeneration, done, pc,
                       callVars, delivered, result>>

-----------------------------------------------------------------------------
(* send_wire.                                                              *)

Live == command = generation /\ connected

Goto(from, to) ==
    /\ pc = from
    /\ pc' = to

Return(value) ==
    /\ pc' = "idle"
    /\ result' = value

(* Mutant: the ticket does not wrap.                                       *)
TicketWithoutWrap(t) == t + 2 - (t % 2)

TicketAfter(t) == (t + 2 - (t % 2)) % TicketModulus

(* A call, for the current connection's command or an older one's: it      *)
(* returns at once unless the command is live.  The host is assumed to     *)
(* settle a notification before its ticket comes round, 2^31 sends later.  *)
Call(g) ==
    /\ pc = "idle"
    /\ \A n \in outstanding : n.ticket # TicketAfter(ticket)
    /\ command' = g
    /\ delivered' = FALSE
    /\ outstanding' = {[n EXCEPT !.fresh = FALSE] : n \in outstanding}
    /\ IF g = generation /\ connected
       THEN pc' = "ticket" /\ UNCHANGED result
       ELSE Return("ENOTCONN")
    /\ UNCHANGED <<generation, connected, ticket, notifyGeneration, done,
                   previous, mine, expired>>

(* Mutant: a notification that timed out does not keep its slot.           *)
NeverBusy(t) == FALSE

(* A notification of this connection that was never completed.             *)
Busy(t) == ~Odd(t) /\ notifyGeneration = command

ReadTicket ==
    /\ pc = "ticket"
    /\ previous' = ticket
    /\ IF Busy(ticket)
       THEN Return("EBUSY")
       ELSE pc' = "reserve" /\ UNCHANGED result
    /\ UNCHANGED <<hostVars, ticket, notifyGeneration, done, command, mine,
                   expired, delivered>>

(* Take the next even ticket.                                              *)
Reserve ==
    /\ Goto("reserve", "attempt")
    /\ mine' = TicketAfter(previous)
    /\ ticket' = TicketAfter(previous)
    /\ notifyGeneration' = command
    /\ done' = 0
    /\ expired' = FALSE
    /\ UNCHANGED <<hostVars, command, previous, delivered, result>>

(* Nothing was queued: the ticket is completed by hand.                    *)
GiveUp(value) ==
    /\ Return(value)
    /\ ticket' = Completed(mine)

Attempt ==
    /\ pc = "attempt"
    /\ IF Live
       THEN pc' = "queue" /\ UNCHANGED <<ticket, result>>
       ELSE GiveUp("ENOTCONN")
    /\ UNCHANGED <<hostVars, notifyGeneration, done, callVars, delivered>>

(* bt_gatt_notify_cb takes the notification ...                            *)
Queued ==
    /\ Goto("queue", "wait")
    /\ connected
    /\ outstanding' = outstanding \cup
           {[ticket |-> mine, generation |-> command, fresh |-> TRUE]}
    /\ UNCHANGED <<generation, connected, ticket, notifyGeneration, done,
                   callVars, delivered, result>>

(* ... or is out of buffers, which is retried until the deadline ...       *)
NoBuffer ==
    /\ pc = "queue"
    /\ IF expired
       THEN GiveUp("ETIMEDOUT")
       ELSE pc' = "attempt" /\ UNCHANGED <<ticket, result>>
    /\ UNCHANGED <<hostVars, notifyGeneration, done, callVars, delivered>>

(* ... or refuses it.                                                      *)
Refused ==
    /\ pc = "queue"
    /\ GiveUp("error")
    /\ UNCHANGED <<hostVars, notifyGeneration, done, callVars, delivered>>

Wait ==
    /\ Goto("wait", IF ticket = mine THEN "waitLive" ELSE "finish")
    /\ UNCHANGED <<hostVars, ticket, notifyGeneration, done, callVars, delivered,
                   result>>

WaitLive ==
    /\ pc = "waitLive"
    /\ IF Live
       THEN pc' = "waitDeadline" /\ UNCHANGED result
       ELSE Return("ENOTCONN")
    /\ UNCHANGED <<hostVars, ticket, notifyGeneration, done, callVars, delivered>>

(* Mutant: the wait has no deadline.                                       *)
WaitForever ==
    /\ Goto("waitDeadline", "sleep")
    /\ UNCHANGED <<hostVars, ticket, notifyGeneration, done, callVars, delivered,
                   result>>

(* A timeout leaves the ticket even: the host still has the notification.  *)
WaitDeadline ==
    /\ pc = "waitDeadline"
    /\ IF expired
       THEN Return("ETIMEDOUT")
       ELSE pc' = "sleep" /\ UNCHANGED result
    /\ UNCHANGED <<hostVars, ticket, notifyGeneration, done, callVars, delivered>>

(* k_sem_take with a 10 ms timeout.                                        *)
Sleep ==
    /\ Goto("sleep", "wait")
    /\ done' = 0
    /\ UNCHANGED <<hostVars, ticket, notifyGeneration, callVars, delivered, result>>

Finish ==
    /\ pc = "finish"
    /\ Return(IF Live THEN "ok" ELSE "ENOTCONN")
    /\ UNCHANGED <<hostVars, ticket, notifyGeneration, done, callVars, delivered>>

(* The deadline passes.                                                    *)
Deadline ==
    /\ pc \notin {"idle", "ticket", "reserve"}
    /\ ~expired
    /\ expired' = TRUE
    /\ UNCHANGED <<hostVars, ticket, notifyGeneration, done, pc, command,
                   previous, mine, delivered, result>>

-----------------------------------------------------------------------------

Host == Connected \/ LinkLost \/ Disconnected \/ NotificationSent \/ Discard

SendWire ==
    \/ ReadTicket \/ Reserve \/ Attempt \/ Queued \/ NoBuffer \/ Refused
    \/ Wait \/ WaitLive \/ WaitDeadline \/ Sleep \/ Finish

Next ==
    \/ Host
    \/ \E g \in Generation : Call(g)
    \/ SendWire
    \/ Deadline

Spec == Init /\ [][Next]_vars

(* The main thread runs and time passes; neither the peer nor the host     *)
(* owes a completion.                                                      *)
FairSpec == Spec /\ WF_vars(SendWire) /\ WF_vars(Deadline)

-----------------------------------------------------------------------------

(* send_wire reports success only for a notification that went out: no     *)
(* late callback, of this connection or an earlier one, stands in for it.  *)
SuccessMeansDelivered == pc = "idle" /\ result = "ok" => delivered

(* A connection never has two notifications with the host, even after a    *)
(* timeout: the one that timed out keeps the only slot.                    *)
OneOutstandingPerConnection ==
    \A n, m \in outstanding :
        n.generation = m.generation /\ n.generation = generation => n = m

(* The slot is not lost either: between calls, a ticket that blocks the    *)
(* live connection stands for a notification the host still holds.         *)
BusyMeansOutstanding ==
    pc = "idle" /\ connected /\ ~Odd(ticket) /\ notifyGeneration = generation =>
        \E n \in outstanding : n.ticket = ticket /\ n.generation = generation

(* The slot is exact: shared by no two notifications, and never lost.      *)
SlotIsExact == OneOutstandingPerConnection /\ BusyMeansOutstanding

(* Every call returns, even if the host never calls back and the peer      *)
(* never hangs up.                                                         *)
EveryCallReturns == pc # "idle" ~> pc = "idle"

=============================================================================
