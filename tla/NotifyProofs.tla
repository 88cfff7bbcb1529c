---------------------------- MODULE NotifyProofs ----------------------------
(***************************************************************************)
(* The safety of Notify for any even number of tickets and any number of   *)
(* connections: success is never borrowed from another notification, and   *)
(* the slot of the outstanding one is neither shared nor lost.             *)
(***************************************************************************)
EXTENDS Notify, TLAPS

(* Where a call has reserved a ticket and queued nothing, and where it     *)
(* waits for what it has queued.                                           *)
Reserved == {"attempt", "queue"}
Waiting == {"wait", "waitLive", "waitDeadline", "sleep"}

(* A generation is odd while a connection lasts, and a call stays on the   *)
(* connection it was made for as long as there is one.                     *)
Generations ==
    /\ connected => Odd(generation)
    /\ notifyGeneration <= generation
    /\ pc # "idle" => Odd(command) /\ generation \in {command, command + 1}
    /\ pc # "idle" /\ connected => generation = command
    /\ pc \in Reserved => notifyGeneration = command
    /\ \A n \in outstanding : Odd(n.generation) /\ n.generation <= generation

(* A ticket names one notification, and the ticket of a call that waits is *)
(* completed by nothing but what that call has queued.                     *)
Tickets ==
    /\ \A n \in outstanding : ~Odd(n.ticket)
    /\ \A n, m \in outstanding : n.ticket = m.ticket => n = m
    /\ pc = "ticket" => \A n \in outstanding : n.ticket # TicketAfter(ticket)
    /\ pc = "reserve" => \A n \in outstanding : n.ticket # TicketAfter(previous)
    /\ pc \in Reserved => /\ ~Odd(mine) /\ ticket = mine
                          /\ \A n \in outstanding : n.ticket # mine
    /\ pc \in Waiting \cup {"finish"} =>
            /\ ~Odd(mine) /\ ticket \in {mine, mine + 1}
            /\ ticket # mine => delivered
            /\ \A n \in outstanding : n.ticket = mine => n.fresh
    /\ pc = "finish" => ticket # mine

(* What the host still holds of this connection has the slot ...           *)
SlotIsTaken ==
    \A n \in outstanding :
        n.generation = generation =>
            /\ pc \notin Reserved \cup {"reserve"}
            /\ ticket = n.ticket /\ notifyGeneration = generation

(* ... and nothing else has it.                                            *)
SlotIsHeld ==
    connected /\ ~Odd(ticket) /\ notifyGeneration = generation
    /\ pc \in Waiting \cup {"idle", "ticket"} =>
        \E n \in outstanding : n.ticket = ticket /\ n.generation = generation

IInv ==
    /\ TypeOK /\ Generations /\ Tickets /\ SlotIsTaken /\ SlotIsHeld
    /\ SuccessMeansDelivered

-----------------------------------------------------------------------------

(* Tickets: the next one is even, completing one makes it odd, and both    *)
(* leave the same successor.                                               *)
LEMMA TicketFacts ==
    ASSUME NEW t \in Ticket
    PROVE  /\ TicketAfter(t) \in Ticket /\ ~Odd(TicketAfter(t))
           /\ Completed(t) \in Ticket /\ Odd(Completed(t))
           /\ ~Odd(t) => Completed(t) = t + 1
           /\ TicketAfter(Completed(t)) = TicketAfter(t)
<1>1. PICK h \in Nat : TicketModulus = 2 * h
  BY NotifyAssumption
<1>2. t \in Nat /\ t <= 2 * h - 1 /\ t % 2 \in {0, 1} /\ h \in Nat /\ h > 1
  BY <1>1, NotifyAssumption DEF Ticket
<1>3. PICK k \in Nat : t = 2 * k + (t % 2)
  <2>1. t \div 2 \in Nat /\ t = 2 * (t \div 2) + (t % 2)
    BY <1>2
  <2> QED
    BY <2>1
<1>4. k <= h - 1
  BY <1>2, <1>3
<1>5. \A u \in Ticket : u = 2 * k \/ u = 2 * k + 1 =>
          TicketAfter(u) = IF k = h - 1 THEN 0 ELSE 2 * k + 2
  <2> SUFFICES ASSUME NEW u \in Ticket, u = 2 * k \/ u = 2 * k + 1
               PROVE  TicketAfter(u) = IF k = h - 1 THEN 0 ELSE 2 * k + 2
    OBVIOUS
  <2>1. u + 2 - (u % 2) = 2 * k + 2
    OBVIOUS
  <2>2. CASE k = h - 1
    <3>1. (2 * h) % (2 * h) = 0
      BY <1>2
    <3> QED
      BY <1>1, <2>1, <2>2, <3>1 DEF TicketAfter
  <2>3. CASE k # h - 1
    <3>1. 2 * k + 2 \in 0 .. 2 * h - 1
      BY <1>2, <1>4, <2>3
    <3>2. (2 * k + 2) % (2 * h) = 2 * k + 2
      BY <1>2, <3>1
    <3> QED
      BY <1>1, <2>1, <2>3, <3>2 DEF TicketAfter
  <2> QED
    BY <2>2, <2>3
<1>6. t = 2 * k \/ t = 2 * k + 1
  BY <1>2, <1>3
<1>7. /\ Completed(t) = 2 * k + 1 /\ Odd(Completed(t)) /\ Completed(t) \in Ticket
      /\ ~Odd(t) => Completed(t) = t + 1
  BY <1>1, <1>2, <1>4, <1>6 DEF Completed, Odd, Ticket
<1>8. TicketAfter(t) \in Ticket /\ ~Odd(TicketAfter(t))
  BY <1>1, <1>2, <1>4, <1>5, <1>6 DEF Odd, Ticket
<1> QED
  BY <1>5, <1>6, <1>7, <1>8

LEMMA InitIInv == Init => IInv
<1> SUFFICES ASSUME Init PROVE IInv
  OBVIOUS
<1>1. TypeOK
  <2>1. 0 \in Generation /\ 0 \in Ticket /\ 1 \in Ticket
    BY NotifyAssumption DEF Generation, Ticket
  <2> QED
    BY <2>1 DEF Init, TypeOK, Send, Result
<1>2. Odd(1)
  BY DEF Odd
<1>3. Generations /\ Tickets /\ SlotIsTaken /\ SlotIsHeld /\ SuccessMeansDelivered
  BY <1>2 DEF Init, Generations, Tickets, SlotIsTaken, SlotIsHeld, SuccessMeansDelivered, Reserved, Waiting
<1> QED
  BY <1>1, <1>3 DEF IInv

LEMMA TypeStep == ASSUME TypeOK, Next PROVE TypeOK'
<1> USE DEF TypeOK
<1>1. CASE Connected
  BY <1>1, NotifyAssumption DEF Connected, Generation, callVars
<1>2. CASE LinkLost
  BY <1>2 DEF LinkLost, callVars
<1>3. CASE Disconnected
  BY <1>3, NotifyAssumption DEF Disconnected, Generation, callVars
<1>4. CASE NotificationSent
  <2>1. PICK n \in outstanding : /\ outstanding' = outstanding \ {n}
                                 /\ CompleteTicket(n.ticket) /\ delivered' = (delivered \/ n.fresh)
    BY <1>4 DEF NotificationSent
  <2>2. n.fresh \in BOOLEAN /\ n.ticket \in Ticket
    BY DEF Notification
  <2>3. ticket' \in Ticket /\ done' \in {0, 1}
    BY <2>1, <2>2, TicketFacts DEF CompleteTicket
  <2>4. delivered' \in BOOLEAN
    BY <2>1, <2>2, Zenon
  <2> QED
    BY <1>4, <2>1, <2>3, <2>4 DEF NotificationSent, callVars
<1>5. CASE Discard
  BY <1>5 DEF Discard, callVars
<1>6. ASSUME NEW g \in Generation, Call(g) PROVE TypeOK'
  <2>1. \A n \in outstanding : [n EXCEPT !.fresh = FALSE] \in Notification
    BY DEF Notification
  <2> QED
    BY <1>6, <2>1 DEF Call, Return, Send, Result
<1>7. CASE ReadTicket
  BY <1>7 DEF ReadTicket, Return, hostVars, Send, Result
<1>8. CASE Reserve
  BY <1>8, TicketFacts DEF Reserve, Goto, hostVars, Send
<1>9. CASE Attempt \/ NoBuffer \/ Refused
  BY <1>9, TicketFacts DEF Attempt, NoBuffer, Refused, GiveUp, Return, hostVars, callVars, Send, Result
<1>10. CASE Queued
  <2>1. [ticket |-> mine, generation |-> command, fresh |-> TRUE] \in Notification
    BY DEF Notification
  <2> QED
    BY <1>10, <2>1 DEF Queued, Goto, callVars, Send
<1>11. CASE Wait \/ WaitLive \/ WaitDeadline \/ Sleep \/ Finish
  BY <1>11 DEF Wait, WaitLive, WaitDeadline, Sleep, Finish, Goto, Return, hostVars, callVars, Send, Result
<1>12. CASE Deadline
  BY <1>12 DEF Deadline, hostVars
<1> QED
  BY <1>1, <1>2, <1>3, <1>4, <1>5, <1>6, <1>7, <1>8, <1>9, <1>10, <1>11, <1>12 DEF Next, Host, SendWire

-----------------------------------------------------------------------------
(* What each action makes of the rest of the invariant.                    *)

Rest == Generations /\ Tickets /\ SlotIsTaken /\ SlotIsHeld /\ SuccessMeansDelivered

(* The ranges the arithmetic below needs.                                  *)
LEMMA Ranges ==
    ASSUME TypeOK
    PROVE  /\ generation \in Int /\ command \in Int /\ notifyGeneration \in Int
           /\ ticket \in Int /\ mine \in Int /\ previous \in Int
           /\ \A n \in outstanding : n.generation \in Int /\ n.ticket \in Int
BY NotifyAssumption DEF TypeOK, Generation, Ticket, Notification

LEMMA Parity == \A g \in Int : Odd(g + 1) <=> ~Odd(g)
BY DEF Odd

(* The connection comes, goes and is cleared away: generations move on.    *)
LEMMA LinkStep == ASSUME IInv, Connected \/ LinkLost \/ Disconnected PROVE Rest'
<1> USE Ranges, Parity DEF IInv
<1>1. CASE Connected
  <2>1. ~Odd(generation) /\ ~connected /\ pc = "idle" /\ generation' = generation + 1
    BY <1>1 DEF Connected, Odd
  <2>2. UNCHANGED <<outstanding, ticket, notifyGeneration, done, pc, callVars, delivered, result>>
    BY <1>1 DEF Connected
  <2>3. Generations'
    BY <2>1, <2>2 DEF Generations, callVars, Reserved
  <2>4. Tickets'
    BY <2>1, <2>2 DEF Tickets, callVars, Reserved, Waiting, TicketAfter
  <2>5. SlotIsTaken' /\ SlotIsHeld'
    BY <2>1, <2>2 DEF SlotIsTaken, SlotIsHeld, Generations
  <2> QED
    BY <2>2, <2>3, <2>4, <2>5 DEF Rest, SuccessMeansDelivered
<1>2. CASE LinkLost
  <2>1. connected' = FALSE
    BY <1>2 DEF LinkLost
  <2>2. UNCHANGED <<generation, outstanding, ticket, notifyGeneration, done, pc, callVars, delivered, result>>
    BY <1>2 DEF LinkLost
  <2>3. Generations' /\ SlotIsTaken' /\ SlotIsHeld'
    BY <2>1, <2>2 DEF Generations, SlotIsTaken, SlotIsHeld, callVars, Reserved
  <2>4. Tickets'
    BY <2>1, <2>2 DEF Tickets, callVars, Reserved, Waiting, TicketAfter
  <2> QED
    BY <2>2, <2>3, <2>4 DEF Rest, SuccessMeansDelivered
<1>3. CASE Disconnected
  <2>1. Odd(generation) /\ ~connected /\ generation' = generation + 1
    BY <1>3 DEF Disconnected, Odd
  <2>2. UNCHANGED <<connected, outstanding, ticket, notifyGeneration, done, pc, callVars, delivered, result>>
    BY <1>3 DEF Disconnected
  <2>3. Generations'
    BY <2>1, <2>2 DEF Generations, callVars, Reserved
  <2>4. Tickets'
    BY <2>1, <2>2 DEF Tickets, callVars, Reserved, Waiting, TicketAfter
  <2>5. SlotIsTaken' /\ SlotIsHeld'
    BY <2>1, <2>2 DEF SlotIsTaken, SlotIsHeld, Generations
  <2> QED
    BY <2>2, <2>3, <2>4, <2>5 DEF Rest, SuccessMeansDelivered
<1> QED
  BY <1>1, <1>2, <1>3

(* A callback completes its own ticket and no other; a notification that   *)
(* is discarded was not of this connection, or the connection is lost.     *)
LEMMA HostStep == ASSUME IInv, NotificationSent \/ Discard PROVE Rest'
<1> USE Ranges DEF IInv
<1>1. CASE NotificationSent
  <2>1. PICK n \in outstanding : /\ outstanding' = outstanding \ {n}
                                 /\ CompleteTicket(n.ticket) /\ delivered' = (delivered \/ n.fresh)
    BY <1>1 DEF NotificationSent
  <2>2. UNCHANGED <<generation, connected, notifyGeneration, pc, callVars, result>>
    BY <1>1 DEF NotificationSent
  <2>3. n \in outstanding /\ n.ticket \in Ticket /\ ~Odd(n.ticket)
    BY DEF Tickets, TypeOK, Notification
  <2>4. \/ ticket = n.ticket /\ ticket' = n.ticket + 1 /\ Odd(ticket') /\ TicketAfter(ticket') = TicketAfter(ticket)
        \/ ticket # n.ticket /\ ticket' = ticket
    BY <2>1, <2>3, TicketFacts DEF CompleteTicket
  <2>5. delivered => delivered'
    BY <2>1, Zenon
  <2>6. n.fresh => delivered'
    BY <2>1, Zenon
  <2>7. Generations'
    BY <2>1, <2>2 DEF Generations, callVars, Reserved
  <2>8. Tickets'
    <3>1. /\ \A k \in outstanding' : ~Odd(k.ticket)
          /\ \A k, m \in outstanding' : k.ticket = m.ticket => k = m
      BY <2>1 DEF Tickets
    <3>2. pc' = "ticket" => \A k \in outstanding' : k.ticket # TicketAfter(ticket')
      BY <2>1, <2>2, <2>4 DEF Tickets
    <3>3. pc' = "reserve" => \A k \in outstanding' : k.ticket # TicketAfter(previous')
      BY <2>1, <2>2 DEF Tickets, callVars, TicketAfter
    <3>4. pc' \in Reserved => /\ ~Odd(mine') /\ ticket' = mine'
                              /\ \A k \in outstanding' : k.ticket # mine'
      BY <2>1, <2>2, <2>4 DEF Tickets, callVars
    <3>5. pc' \in Waiting \cup {"finish"} =>
            /\ ~Odd(mine') /\ ticket' \in {mine', mine' + 1}
            /\ ticket' # mine' => delivered'
            /\ \A k \in outstanding' : k.ticket = mine' => k.fresh
      <4> SUFFICES ASSUME pc' \in Waiting \cup {"finish"}
                   PROVE  /\ ~Odd(mine') /\ ticket' \in {mine', mine' + 1}
                          /\ ticket' # mine' => delivered'
                          /\ \A k \in outstanding' : k.ticket = mine' => k.fresh
        OBVIOUS
      <4>1. /\ mine' = mine /\ ~Odd(mine) /\ ticket \in {mine, mine + 1}
            /\ ticket # mine => delivered
            /\ \A k \in outstanding : k.ticket = mine => k.fresh
        BY <2>2 DEF Tickets, callVars
      <4>2. Odd(mine + 1)
        BY <4>1, Parity
      <4>3. ticket = n.ticket => ticket = mine /\ n.fresh
        BY <2>3, <4>1, <4>2
      <4> QED
        BY <2>1, <2>4, <2>5, <2>6, <4>1, <4>3
    <3>6. pc' = "finish" => ticket' # mine'
      BY <2>2, <2>3, <2>4, Parity DEF Tickets, callVars
    <3> QED
      BY <3>1, <3>2, <3>3, <3>4, <3>5, <3>6 DEF Tickets
  <2>9. SlotIsTaken'
    BY <2>1, <2>2, <2>4 DEF SlotIsTaken, Tickets, Reserved
  <2>10. SlotIsHeld'
    BY <2>1, <2>2, <2>4 DEF SlotIsHeld, Waiting
  <2>11. SuccessMeansDelivered'
    BY <2>2, <2>5 DEF SuccessMeansDelivered
  <2> QED
    BY <2>7, <2>8, <2>9, <2>10, <2>11 DEF Rest
<1>2. CASE Discard
  <2>1. PICK n \in outstanding : /\ outstanding' = outstanding \ {n}
                                 /\ ~connected \/ n.generation # generation
    BY <1>2 DEF Discard
  <2>2. UNCHANGED <<generation, connected, ticket, notifyGeneration, done, pc, callVars, delivered, result>>
    BY <1>2 DEF Discard
  <2>3. Generations' /\ SlotIsTaken'
    BY <2>1, <2>2 DEF Generations, SlotIsTaken, callVars, Reserved
  <2>4. SlotIsHeld'
    BY <2>1, <2>2 DEF SlotIsHeld, Waiting
  <2>5. Tickets'
    BY <2>1, <2>2 DEF Tickets, callVars, Reserved, Waiting, TicketAfter
  <2> QED
    BY <2>2, <2>3, <2>4, <2>5 DEF Rest, SuccessMeansDelivered
<1> QED
  BY <1>1, <1>2

(* A call begins: what the host holds is no longer of this call.           *)
LEMMA CallStep == ASSUME IInv, NEW g \in Generation, Call(g) PROVE Rest'
<1> USE Ranges DEF IInv
<1>1. /\ pc = "idle" /\ \A n \in outstanding : n.ticket # TicketAfter(ticket)
      /\ command' = g
      /\ outstanding' = {[n EXCEPT !.fresh = FALSE] : n \in outstanding}
      /\ UNCHANGED <<generation, connected, ticket, notifyGeneration, done, previous, mine, expired>>
  BY DEF Call
<1>2. \/ pc' = "ticket" /\ g = generation /\ connected
      \/ pc' = "idle" /\ result' = "ENOTCONN"
  BY DEF Call, Return
<1> DEFINE Old(n) == [n EXCEPT !.fresh = FALSE]
<1>3. /\ \A k \in outstanding' : \E n \in outstanding : k = Old(n)
      /\ \A n \in outstanding : Old(n) \in outstanding'
  BY <1>1
<1>4. \A n \in outstanding : Old(n).ticket = n.ticket /\ Old(n).generation = n.generation
  BY DEF TypeOK, Notification
<1> HIDE DEF Old
<1>5. Generations'
  BY <1>1, <1>2, <1>3, <1>4 DEF Generations, Reserved
<1>6. Tickets'
  <2>1. \A k \in outstanding' : ~Odd(k.ticket)
    BY <1>3, <1>4 DEF Tickets
  <2>2. \A k, m \in outstanding' : k.ticket = m.ticket => k = m
    BY <1>3, <1>4 DEF Tickets
  <2>3. \A k \in outstanding' : k.ticket # TicketAfter(ticket')
    <3>1. TicketAfter(ticket') = TicketAfter(ticket)
      BY <1>1 DEF TicketAfter
    <3> QED
      BY <1>1, <1>3, <1>4, <3>1
  <2> QED
    BY <1>2, <2>1, <2>2, <2>3 DEF Tickets, Reserved, Waiting
<1>7. SlotIsTaken'
  <2> SUFFICES ASSUME NEW k \in outstanding', k.generation = generation
               PROVE  k.ticket = ticket /\ notifyGeneration = generation
    BY <1>1, <1>2 DEF SlotIsTaken, Reserved
  <2>1. PICK n \in outstanding : k = Old(n)
    BY <1>3
  <2> QED
    BY <1>4, <2>1 DEF SlotIsTaken
<1>8. SlotIsHeld'
  BY <1>1, <1>3, <1>4 DEF SlotIsHeld, Waiting
<1> QED
  BY <1>2, <1>5, <1>6, <1>7, <1>8 DEF Rest, SuccessMeansDelivered

(* A call takes the slot only if the host holds nothing of the connection. *)
LEMMA TakeStep == ASSUME IInv, ReadTicket \/ Reserve PROVE Rest'
<1> USE Ranges DEF IInv
<1>1. CASE ReadTicket
  <2>1. /\ pc = "ticket" /\ previous' = ticket
        /\ UNCHANGED <<generation, connected, outstanding, ticket, notifyGeneration, done, command, mine, expired, delivered>>
    BY <1>1 DEF ReadTicket, hostVars
  <2>2. \/ pc' = "idle" /\ result' = "EBUSY"
        \/ pc' = "reserve" /\ ~Busy(ticket)
    BY <1>1 DEF ReadTicket, Return
  <2>3. \A n \in outstanding : n.generation = generation => Busy(ticket)
    BY <2>1, Parity DEF SlotIsTaken, Generations, Tickets, Busy
  <2>4. Generations'
    BY <2>1, <2>2 DEF Generations, Reserved
  <2>5. Tickets'
    BY <2>1, <2>2 DEF Tickets, TicketAfter, Reserved, Waiting
  <2>6. SlotIsTaken' /\ SlotIsHeld'
    BY <2>1, <2>2, <2>3 DEF SlotIsTaken, SlotIsHeld, Reserved, Waiting
  <2> QED
    BY <2>2, <2>4, <2>5, <2>6 DEF Rest, SuccessMeansDelivered
<1>2. CASE Reserve
  <2>1. /\ pc = "reserve" /\ pc' = "attempt"
        /\ mine' = TicketAfter(previous) /\ ticket' = TicketAfter(previous)
        /\ notifyGeneration' = command
        /\ UNCHANGED <<generation, connected, outstanding, command, previous, delivered, result>>
    BY <1>2 DEF Reserve, Goto, hostVars
  <2>2. ~Odd(TicketAfter(previous))
    BY TicketFacts DEF TypeOK
  <2>3. Generations'
    BY <2>1 DEF Generations, Reserved
  <2>4. Tickets'
    BY <2>1, <2>2 DEF Tickets, Reserved, Waiting
  <2>5. SlotIsTaken' /\ SlotIsHeld'
    BY <2>1 DEF SlotIsTaken, SlotIsHeld, Reserved, Waiting
  <2> QED
    BY <2>1, <2>3, <2>4, <2>5 DEF Rest, SuccessMeansDelivered
<1> QED
  BY <1>1, <1>2

(* A call gives its ticket back, or queues its notification under it.      *)
LEMMA QueueStep == ASSUME IInv, Attempt \/ NoBuffer \/ Refused \/ Queued PROVE Rest'
<1> USE Ranges DEF IInv
<1>1. CASE Attempt \/ NoBuffer \/ Refused
  <2>1. /\ pc \in Reserved
        /\ UNCHANGED <<generation, connected, outstanding, notifyGeneration, done, callVars, delivered>>
    BY <1>1 DEF Attempt, NoBuffer, Refused, hostVars, Reserved
  <2>2. \/ pc' \in Reserved /\ ticket' = ticket
        \/ pc' = "idle" /\ result' # "ok" /\ ticket' = Completed(mine)
    BY <1>1 DEF Attempt, NoBuffer, Refused, GiveUp, Return, Reserved
  <2>3. Odd(Completed(mine))
    BY TicketFacts DEF TypeOK
  <2>4. Generations'
    BY <2>1, <2>2 DEF Generations, callVars, Reserved
  <2>5. Tickets'
    BY <2>1, <2>2 DEF Tickets, callVars, Reserved, Waiting
  <2>6. SlotIsTaken' /\ SlotIsHeld'
    BY <2>1, <2>2, <2>3 DEF SlotIsTaken, SlotIsHeld, Reserved, Waiting
  <2> QED
    BY <2>2, <2>4, <2>5, <2>6 DEF Rest, SuccessMeansDelivered, Reserved
<1>2. CASE Queued
  <2> DEFINE new == [ticket |-> mine, generation |-> command, fresh |-> TRUE]
  <2>1. /\ pc = "queue" /\ pc' = "wait" /\ connected
        /\ outstanding' = outstanding \cup {new}
        /\ UNCHANGED <<generation, connected, ticket, notifyGeneration, done, callVars, delivered, result>>
    BY <1>2 DEF Queued, Goto
  <2>2. new.ticket = mine /\ new.generation = command /\ new.fresh
    OBVIOUS
  <2> HIDE DEF new
  <2>3. /\ generation = command /\ Odd(command) /\ notifyGeneration = command
        /\ ~Odd(mine) /\ ticket = mine /\ \A n \in outstanding : n.ticket # mine
    BY <2>1 DEF Generations, Tickets, Reserved
  <2>4. Generations'
    BY <2>1, <2>2, <2>3 DEF Generations, callVars, Reserved
  <2>5. Tickets'
    BY <2>1, <2>2, <2>3 DEF Tickets, callVars, Reserved, Waiting
  <2>6. SlotIsTaken'
    BY <2>1, <2>2, <2>3 DEF SlotIsTaken, callVars, Reserved
  <2>7. SlotIsHeld'
    BY <2>1, <2>2, <2>3 DEF SlotIsHeld
  <2> QED
    BY <2>1, <2>4, <2>5, <2>6, <2>7 DEF Rest, SuccessMeansDelivered
<1> QED
  BY <1>1, <1>2

(* A call waits; it succeeds only once its ticket is completed.            *)
LEMMA WaitStep ==
    ASSUME IInv, Wait \/ WaitLive \/ WaitDeadline \/ Sleep \/ Finish \/ Deadline
    PROVE  Rest'
<1> USE Ranges DEF IInv
<1>1. /\ UNCHANGED <<generation, connected, outstanding, ticket, notifyGeneration,
                     command, previous, mine, delivered>>
  BY DEF Wait, WaitLive, WaitDeadline, Sleep, Finish, Deadline, hostVars, callVars
<1>2. \/ pc \in Waiting /\ pc' \in Waiting /\ result' = result
      \/ pc = "wait" /\ pc' = "finish" /\ ticket # mine /\ result' = result
      \/ pc \in Waiting /\ pc' = "idle" /\ result' # "ok"
      \/ pc = "finish" /\ pc' = "idle"
      \/ pc' = pc /\ result' = result
  BY DEF Wait, WaitLive, WaitDeadline, Sleep, Finish, Deadline, Goto, Return, Waiting
<1>3. pc = "finish" => Odd(ticket) /\ delivered
  BY Parity DEF Tickets
<1>4. Generations'
  BY <1>1, <1>2 DEF Generations, Reserved, Waiting
<1>5. Tickets'
  BY <1>1, <1>2 DEF Tickets, TicketAfter, Reserved, Waiting
<1>6. SlotIsTaken' /\ SlotIsHeld'
  BY <1>1, <1>2, <1>3 DEF SlotIsTaken, SlotIsHeld, Reserved, Waiting
<1>7. SuccessMeansDelivered'
  BY <1>1, <1>2, <1>3 DEF SuccessMeansDelivered, Waiting
<1> QED
  BY <1>4, <1>5, <1>6, <1>7 DEF Rest

-----------------------------------------------------------------------------

LEMMA Invariance == Spec => []IInv
<1>1. IInv /\ [Next]_vars => IInv'
  <2> SUFFICES ASSUME IInv, [Next]_vars PROVE IInv'
    OBVIOUS
  <2>1. CASE Next
    <3>1. TypeOK'
      BY <2>1, TypeStep DEF IInv
    <3>2. Rest'
      BY <2>1, LinkStep, HostStep, CallStep, TakeStep, QueueStep, WaitStep DEF Next, Host, SendWire
    <3> QED
      BY <3>1, <3>2 DEF IInv, Rest
  <2>2. CASE UNCHANGED vars
    BY <2>2 DEF vars, hostVars, callVars, IInv, TypeOK, Generations, Tickets, SlotIsTaken, SlotIsHeld,
                SuccessMeansDelivered, TicketAfter, Reserved, Waiting
  <2> QED
    BY <2>1, <2>2
<1> QED
  BY InitIInv, <1>1, PTL DEF Spec

(* Tickets stay within their width, whatever the order of the callbacks.   *)
THEOREM NotifyTypeCorrect == Spec => []TypeOK
BY Invariance, PTL DEF IInv

(* A reported success is the delivery of this call's own notification: no  *)
(* late callback, of this connection or an earlier one, stands in for it.  *)
THEOREM SuccessIsDelivered == Spec => []SuccessMeansDelivered
BY Invariance, PTL DEF IInv

(* A connection has at most one notification with the host, even after a   *)
(* timeout, and between calls a busy ticket stands for one it still holds. *)
THEOREM SlotStaysExact == Spec => []SlotIsExact
<1>1. IInv => SlotIsExact
  <2> SUFFICES ASSUME IInv PROVE SlotIsExact
    OBVIOUS
  <2>1. OneOutstandingPerConnection
    BY DEF IInv, Tickets, SlotIsTaken, OneOutstandingPerConnection
  <2>2. BusyMeansOutstanding
    BY DEF IInv, SlotIsHeld, Waiting, BusyMeansOutstanding
  <2> QED
    BY <2>1, <2>2 DEF SlotIsExact
<1> QED
  BY Invariance, <1>1, PTL

=============================================================================
