----------------------------- MODULE MeloEventRace -----------------------------
(***************************************************************************)
(* The event stack of melo.c load by load and store by store, in a slave   *)
(* that receives in an interrupt: MeloReceiveByte may come between any two *)
(* instructions of MeloBackground, whose _get_event and _notify_event      *)
(* share _m_event_stack with it and mask nothing.                          *)
(*                                                                         *)
(* Transmission is that of slave.ino: MeloTransmitBytes sends all bytes    *)
(* and calls MeloTransmitComplete before it returns.  Only the events are  *)
(* modelled, not the packets behind them.                                  *)
(*                                                                         *)
(* An optimising build keeps the length in a register while one function   *)
(* works on it; nothing but optimisation makes it do so, as the stack is   *)
(* not volatile.                                                           *)
(***************************************************************************)
EXTENDS MeloEventStack

CONSTANT Rereads     \* whether the build may load again a length it has at hand

ASSUME RereadsAssumption == Rereads \in BOOLEAN

VARIABLES
  length, slots,  \* _m_event_stack.length, and the array _m_event_stack_data
  pc,             \* where MeloBackground is
  reg,            \* the length as the function at work has loaded it last
  event,          \* the event that has been taken from the stack
  current_state   \* _current_state

vars == <<length, slots, pc, reg, event, current_state>>

IDLE      == 0
RESP_PEND == 2
TX_PEND   == 3

\* Inside _get_event, handling its event, and inside _notify_event.
Labels == {"return", "get", "read", "drop", "handle", "notify", "compare", "grow", "put"}

TypeOK ==
  /\ length \in 0 .. StackSize - 1
  /\ slots \in [0 .. StackSize - 1 -> Events \cup {EVENT_IDLE}]
  /\ slots[0] = EVENT_IDLE
  /\ pc \in Labels
  /\ reg \in 0 .. StackSize - 1
  /\ event \in Events \cup {EVENT_IDLE}
  /\ current_state \in {IDLE, RESP_PEND, TX_PEND}

Init ==
  /\ length = 0
  /\ slots = [i \in 0 .. StackSize - 1 |-> EVENT_IDLE]
  /\ pc = "return"
  /\ reg = 0
  /\ event = EVENT_IDLE
  /\ current_state = IDLE

------------------------------------------------------------------------------
(* The interrupt *)

\* Mutant of RxInterrupt: data[length++] = event.
RxInterrupt_postincrement ==
  /\ length # StackSize - 1
  /\ slots[length] # REQUEST_RECEIVED
  /\ length' = length + 1
  /\ slots' = [slots EXCEPT ![length] = REQUEST_RECEIVED]
  /\ UNCHANGED <<pc, reg, event, current_state>>

\* The TAIL byte of a packet: _notify_event runs without interruption.
RxInterrupt ==
  /\ length # StackSize - 1
  /\ slots[length] # REQUEST_RECEIVED
  /\ length' = length + 1
  /\ slots' = [slots EXCEPT ![length + 1] = REQUEST_RECEIVED]
  /\ UNCHANGED <<pc, reg, event, current_state>>

------------------------------------------------------------------------------
(* _get_event *)

\* The length an expression uses: the one loaded before, or a fresh one.
lengths == IF Rereads THEN {reg, length} ELSE {reg}

\* The application calls MeloBackground again and again.
Call ==
  /\ pc = "return"
  /\ pc' = "get"
  /\ UNCHANGED <<length, slots, reg, event, current_state>>

\* Mutant of Get: one event is always left.
Get_all_but_one ==
  /\ pc = "get"
  /\ reg' = length
  /\ pc' = IF length <= 1 THEN "return" ELSE "read"
  /\ UNCHANGED <<length, slots, event, current_state>>

\* if (length == 0): MeloBackground returns.
Get ==
  /\ pc = "get"
  /\ reg' = length
  /\ pc' = IF length = 0 THEN "return" ELSE "read"
  /\ UNCHANGED <<length, slots, event, current_state>>

\* element = data[length]
Read ==
  /\ pc = "read"
  /\ \E n \in lengths : event' = slots[n] /\ reg' = n
  /\ pc' = "drop"
  /\ UNCHANGED <<length, slots, current_state>>

\* Mutants of Drop: the length is counted down where it is by now, or not at all.
Drop_fresh ==
  /\ pc = "drop"
  /\ length' = length - 1
  /\ pc' = IF event = EVENT_IDLE THEN "return" ELSE "handle"
  /\ UNCHANGED <<slots, reg, event, current_state>>

Drop_nothing ==
  /\ pc = "drop"
  /\ pc' = IF event = EVENT_IDLE THEN "return" ELSE "handle"
  /\ UNCHANGED <<length, slots, reg, event, current_state>>

\* length--
Drop ==
  /\ pc = "drop"
  /\ \E n \in lengths : length' = n - 1
  /\ pc' = IF event = EVENT_IDLE THEN "return" ELSE "handle"
  /\ UNCHANGED <<slots, reg, event, current_state>>

------------------------------------------------------------------------------
(* The handling of an event *)

\* The states' during actions: MeloSlave has them in full.  A new state that
\* transmits goes on to MeloTransmitComplete.
after ==
  CASE current_state = IDLE      /\ event = REQUEST_RECEIVED -> RESP_PEND
    [] current_state = RESP_PEND /\ event = TX_CONFIRMATION  -> TX_PEND
    [] current_state = TX_PEND   /\ event = TX_CONFIRMATION  -> IDLE
    [] OTHER                                                 -> current_state

Handle ==
  /\ pc = "handle"
  /\ current_state' = after
  /\ pc' = IF after \in {RESP_PEND, TX_PEND} \ {current_state} THEN "notify" ELSE "get"
  /\ UNCHANGED <<length, slots, reg, event>>

------------------------------------------------------------------------------
(* _notify_event(TX_CONFIRMATION) *)

\* if (length == size - 1)
Notify ==
  /\ pc = "notify"
  /\ reg' = length
  /\ pc' = IF length = StackSize - 1 THEN "get" ELSE "compare"
  /\ UNCHANGED <<length, slots, event, current_state>>

\* if (data[length] == event)
Compare ==
  /\ pc = "compare"
  /\ \E n \in lengths : /\ reg' = n
                        /\ pc' = IF slots[n] = TX_CONFIRMATION THEN "get" ELSE "grow"
  /\ UNCHANGED <<length, slots, event, current_state>>

\* length++
Grow ==
  /\ pc = "grow"
  /\ \E n \in lengths : length' = n + 1 /\ reg' = n + 1
  /\ pc' = "put"
  /\ UNCHANGED <<slots, event, current_state>>

\* data[length] = event
Put ==
  /\ pc = "put"
  /\ \E n \in lengths : slots' = [slots EXCEPT ![n] = TX_CONFIRMATION]
  /\ pc' = "get"
  /\ UNCHANGED <<length, reg, event, current_state>>

Background == Call \/ Get \/ Read \/ Drop \/ Handle \/ Notify \/ Compare \/ Grow \/ Put

Next == RxInterrupt \/ Background

Spec == Init /\ [][Next]_vars

\* The application calls MeloBackground continuously (README.md), and interrupts
\* leave it time.
FairSpec == Spec /\ WF_vars(Background)

------------------------------------------------------------------------------
(* Properties, of a build that keeps the length in a register *)

\* Where the function at work has the stack end.
depth == IF pc \in {"read", "drop"} THEN reg ELSE length

confirmations == {i \in 1 .. depth : slots[i] = TX_CONFIRMATION}

\* A confirmation has been taken from the stack, or is on its way there.
in_hand == \/ pc = "handle" /\ event = TX_CONFIRMATION
           \/ pc \in {"notify", "compare", "grow", "put"}

\* Whatever interrupts whichever instruction, a busy slave has one confirmation, in
\* hand or on the stack, and an idle one has none: no request that is stored or
\* overwritten meanwhile takes a confirmation with it, or brings one back.
ConfirmationKept ==
  IF current_state = IDLE
  THEN confirmations = {} /\ ~ in_hand
  ELSE IF in_hand THEN pc # "put" => confirmations = {}
                  ELSE \E i \in 1 .. depth : confirmations = {i}

\* Every place up to the length holds an event, except that _notify_event has still
\* to fill the last: a place left empty would end MeloBackground with events below
\* it, as EVENT_IDLE is how _get_event says that there is none.
NoEmptyPlaces ==
  \A i \in 1 .. depth : slots[i] = EVENT_IDLE => pc = "put" /\ i = reg

\* A request that comes while MeloBackground is not running is taken up, although
\* one that comes while _get_event or _notify_event runs can be overwritten.
RequestTakenUp ==
  pc = "return" /\ length > 0 ~> current_state = RESP_PEND

\* Once no more packets come, the slave comes to rest with every event handled.
CalmAfterSilence ==
  <>[][Background]_vars => <>[](current_state = IDLE /\ length = 0)
================================================================================
