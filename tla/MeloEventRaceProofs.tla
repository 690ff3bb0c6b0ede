-------------------------- MODULE MeloEventRaceProofs --------------------------
(***************************************************************************)
(* The state invariants of MeloEventRace, for every size of the stack, in  *)
(* a build that keeps the length in a register (~ Rereads).                *)
(*                                                                         *)
(* The argument: up to the depth that the function at work relies on, the  *)
(* stack is as MeloSlaveProofs knows it, without equal neighbours and with *)
(* one confirmation at most.  So there is room when a confirmation is to   *)
(* be added, and none is there yet.                                        *)
(***************************************************************************)
EXTENDS MeloEventRace, TLAPS

\* No confirmation, or exactly one, up to the depth.
NoConf  == \A i \in 1 .. depth : slots[i] # TX_CONFIRMATION
OneConf == \E i \in 1 .. depth :
             /\ slots[i] = TX_CONFIRMATION
             /\ \A j \in 1 .. depth : slots[j] = TX_CONFIRMATION => j = i

\* ConfirmationKept without sets.
Kept ==
  /\ current_state = IDLE => NoConf /\ ~ in_hand
  /\ current_state # IDLE /\ in_hand /\ pc # "put" => NoConf
  /\ current_state # IDLE /\ ~ in_hand => OneConf

\* Neighbours differ, next to a place that is still to be filled excepted.
Differ ==
  \A i \in 1 .. depth : i < depth /\ slots[i] = slots[i + 1] =>
                          pc = "put" /\ (i = reg \/ i + 1 = reg)

\* What the registers of the function at work hold.
Registers ==
  /\ pc \in {"read", "drop"} => 1 <= reg /\ reg <= length
  /\ pc = "drop" => event = slots[reg]
  /\ pc = "handle" => event \in Events
  /\ pc \in {"compare", "grow"} => reg <= length /\ reg < StackSize - 1
  /\ pc = "put" => /\ 1 <= reg /\ reg <= length
                   /\ \A i \in 1 .. length : slots[i] = TX_CONFIRMATION => i = reg

IInv == TypeOK /\ Kept /\ NoEmptyPlaces /\ Differ /\ Registers

------------------------------------------------------------------------------
\* The invariant holds after MeloInit.
LEMMA InitIInv == Init => IInv
  BY StackSizeAssumption
  DEF Init, IInv, TypeOK, Kept, NoEmptyPlaces, Differ, Registers, NoConf, depth, in_hand,
      Labels, Events, IDLE, RESP_PEND, TX_PEND, EVENT_IDLE, REQUEST_RECEIVED, TX_CONFIRMATION

USE DEF IDLE, RESP_PEND, TX_PEND, EVENT_IDLE, REQUEST_RECEIVED, TX_CONFIRMATION, Events, Labels

\* The interrupt stores above every place that anything relies on, and never next to
\* another request.
LEMMA RxInterruptIInv ==
  ASSUME IInv, RxInterrupt
  PROVE  IInv'
<1>0. /\ length \in Nat /\ length < StackSize - 1 /\ length' = length + 1
      /\ slots' = [slots EXCEPT ![length + 1] = REQUEST_RECEIVED]
      /\ slots[length] # REQUEST_RECEIVED
      /\ pc' = pc /\ reg' = reg /\ event' = event /\ current_state' = current_state
      /\ in_hand' = in_hand
  BY StackSizeAssumption DEF IInv, TypeOK, RxInterrupt, in_hand
<1>1. TypeOK'
  BY <1>0, StackSizeAssumption DEF IInv, TypeOK
<1>2. CASE pc \in {"read", "drop"}
  <2>1. depth = reg /\ depth' = reg /\ reg <= length /\ reg \in Nat
    BY <1>0, <1>2 DEF depth, IInv, Registers, TypeOK
  <2>2. \A i \in 1 .. reg : slots'[i] = slots[i]
    BY <1>0, <2>1, StackSizeAssumption DEF IInv, TypeOK
  <2>3. Kept'
    BY <1>0, <2>1, <2>2 DEF IInv, Kept, NoConf, OneConf
  <2>4. NoEmptyPlaces' /\ Differ'
    BY <1>0, <2>1, <2>2 DEF IInv, NoEmptyPlaces, Differ
  <2>5. Registers'
    BY <1>0, <1>2, <2>1, <2>2 DEF IInv, Registers, TypeOK
  <2>6. QED BY <1>1, <2>3, <2>4, <2>5 DEF IInv
<1>3. CASE pc \notin {"read", "drop"}
  <2>1. depth = length /\ depth' = length + 1
    BY <1>0, <1>3 DEF depth
  <2>2. /\ \A i \in 1 .. length : slots'[i] = slots[i]
        /\ slots'[length + 1] = REQUEST_RECEIVED
    BY <1>0, StackSizeAssumption DEF IInv, TypeOK
  <2>3. Kept'
    <3>1. NoConf => NoConf'
      BY <1>0, <2>1, <2>2 DEF NoConf
    <3>2. OneConf => OneConf'
      BY <1>0, <2>1, <2>2 DEF OneConf
    <3>3. QED BY <1>0, <3>1, <3>2 DEF IInv, Kept
  <2>4. NoEmptyPlaces'
    BY <1>0, <2>1, <2>2 DEF IInv, NoEmptyPlaces
  <2>5. Differ'
    BY <1>0, <2>1, <2>2 DEF IInv, Differ
  <2>6. Registers'
    BY <1>0, <1>3, <2>1, <2>2, StackSizeAssumption DEF IInv, Registers, TypeOK
  <2>7. QED BY <1>1, <2>3, <2>4, <2>5, <2>6 DEF IInv
<1>4. QED BY <1>2, <1>3

------------------------------------------------------------------------------
(* _get_event *)

\* The call, and the test of _get_event for an empty stack, keep the invariant.
LEMMA GetIInv ==
  ASSUME IInv, Call \/ Get
  PROVE  IInv'
<1>1. /\ length' = length /\ slots' = slots /\ event' = event
      /\ current_state' = current_state
      /\ pc \in {"return", "get"} /\ pc' \in {"return", "get", "read"}
      /\ pc' = "read" => length # 0 /\ reg' = length
      /\ reg' \in {reg, length}
  BY DEF Call, Get
<1>2. depth = length /\ depth' = length /\ ~ in_hand /\ ~ in_hand'
  BY <1>1 DEF depth, in_hand
<1>3. TypeOK'
  BY <1>1 DEF IInv, TypeOK
<1>4. Kept'
  BY <1>1, <1>2 DEF IInv, Kept, NoConf, OneConf
<1>5. NoEmptyPlaces' /\ Differ'
  BY <1>1, <1>2 DEF IInv, NoEmptyPlaces, Differ
<1>6. Registers'
  BY <1>1 DEF IInv, Registers, TypeOK
<1>7. QED BY <1>3, <1>4, <1>5, <1>6 DEF IInv

\* Reading the top keeps the invariant: the place that is read stays occupied.
LEMMA ReadIInv ==
  ASSUME IInv, ~ Rereads, Read
  PROVE  IInv'
<1>1. /\ length' = length /\ slots' = slots /\ reg' = reg /\ event' = slots[reg]
      /\ current_state' = current_state /\ pc = "read" /\ pc' = "drop"
  BY DEF Read, lengths
<1>2. depth = reg /\ depth' = reg /\ ~ in_hand /\ ~ in_hand'
  BY <1>1 DEF depth, in_hand
<1>3. TypeOK'
  BY <1>1 DEF IInv, TypeOK
<1>4. Kept' /\ NoEmptyPlaces' /\ Differ'
  BY <1>1, <1>2 DEF IInv, Kept, NoConf, OneConf, NoEmptyPlaces, Differ
<1>5. Registers'
  BY <1>1 DEF IInv, Registers, TypeOK
<1>6. QED BY <1>3, <1>4, <1>5 DEF IInv

\* The event that is dropped is the one that was read, and with it go only events
\* that came since.
LEMMA DropIInv ==
  ASSUME IInv, ~ Rereads, Drop
  PROVE  IInv'
<1>1. /\ pc = "drop" /\ length' = reg - 1 /\ slots' = slots /\ reg' = reg
      /\ event' = event /\ current_state' = current_state
      /\ reg \in 1 .. StackSize - 1 /\ event = slots[reg] /\ depth = reg /\ ~ in_hand
  BY StackSizeAssumption DEF Drop, lengths, IInv, TypeOK, Registers, depth, in_hand
<1>2. event \in Events
  BY <1>1 DEF IInv, TypeOK, NoEmptyPlaces
<1>3. pc' = "handle" /\ depth' = reg - 1 /\ (in_hand' <=> event = TX_CONFIRMATION)
  <2>1. pc' = "handle"
    BY <1>2 DEF Drop
  <2>2. depth' = reg - 1
    BY <1>1, <2>1 DEF depth
  <2>3. in_hand' <=> event = TX_CONFIRMATION
    BY <1>1, <2>1 DEF in_hand
  <2>4. QED BY <2>1, <2>2, <2>3
<1>4. TypeOK'
  BY <1>1, <1>3, StackSizeAssumption DEF IInv, TypeOK
<1>5. Kept'
  <2>1. ASSUME current_state = IDLE PROVE NoConf' /\ ~ in_hand'
    <3>1. NoConf
      BY <2>1 DEF IInv, Kept
    <3>2. event # TX_CONFIRMATION /\ NoConf'
      BY <1>1, <1>3, <3>1 DEF NoConf
    <3>3. QED BY <1>3, <3>2
  <2>2. ASSUME current_state # IDLE, in_hand' PROVE NoConf'
    <3>1. OneConf /\ event = TX_CONFIRMATION
      BY <1>1, <1>3, <2>2 DEF IInv, Kept
    <3>2. PICK i \in 1 .. depth :
              \A j \in 1 .. depth : slots[j] = TX_CONFIRMATION => j = i
      BY <3>1 DEF OneConf
    <3>3. reg \in 1 .. depth /\ slots[reg] = TX_CONFIRMATION
      BY <1>1, <3>1
    <3>4. \A j \in 1 .. reg : slots[j] = TX_CONFIRMATION => j = reg
      BY <1>1, <3>2, <3>3
    <3>5. QED BY <1>1, <1>3, <3>4 DEF NoConf
  <2>3. ASSUME current_state # IDLE, ~ in_hand' PROVE OneConf'
    <3>1. OneConf /\ event # TX_CONFIRMATION
      BY <1>1, <1>3, <2>3 DEF IInv, Kept
    <3>2. QED BY <1>1, <1>3, <3>1 DEF OneConf
  <2>4. QED BY <1>1, <2>1, <2>2, <2>3 DEF Kept
<1>6. NoEmptyPlaces' /\ Differ'
  BY <1>1, <1>3 DEF IInv, NoEmptyPlaces, Differ
<1>7. Registers'
  BY <1>1, <1>2, <1>3 DEF Registers
<1>8. QED BY <1>4, <1>5, <1>6, <1>7 DEF IInv

------------------------------------------------------------------------------
\* Handling an event keeps the invariant: a confirmation is spent, or ends the reply.
LEMMA HandleIInv ==
  ASSUME IInv, Handle
  PROVE  IInv'
<1>1. /\ pc = "handle" /\ length' = length /\ slots' = slots /\ reg' = reg
      /\ event' = event /\ event \in Events /\ current_state' = after
      /\ pc' \in {"notify", "get"} /\ depth = length /\ depth' = length
  BY DEF Handle, IInv, Registers, depth
<1>2. TypeOK'
  BY <1>1 DEF IInv, TypeOK, after
<1>3. Kept'
  <2>1. CASE event = TX_CONFIRMATION
    <3>1. current_state # IDLE /\ NoConf /\ NoConf'
      BY <1>1, <2>1 DEF IInv, Kept, in_hand, NoConf
    <3>2. \/ after = TX_PEND /\ pc' = "notify"
          \/ after = IDLE /\ pc' = "get"
      BY <1>1, <2>1, <3>1 DEF after, Handle, IInv, TypeOK
    <3>3. QED BY <1>1, <3>1, <3>2 DEF Kept, in_hand
  <2>2. CASE event = REQUEST_RECEIVED
    <3>1. CASE current_state = IDLE
      BY <1>1, <2>2, <3>1 DEF after, Handle, IInv, Kept, NoConf, in_hand
    <3>2. CASE current_state # IDLE
      <4>1. after = current_state /\ pc' = "get" /\ OneConf
        BY <1>1, <2>2, <3>2 DEF after, Handle, IInv, Kept, in_hand, TypeOK
      <4>2. OneConf'
        BY <1>1, <4>1 DEF OneConf
      <4>3. QED BY <1>1, <3>2, <4>1, <4>2 DEF Kept, in_hand
    <3>3. QED BY <3>1, <3>2
  <2>3. QED BY <1>1, <2>1, <2>2
<1>4. NoEmptyPlaces' /\ Differ'
  BY <1>1 DEF IInv, NoEmptyPlaces, Differ
<1>5. Registers'
  BY <1>1 DEF Registers
<1>6. QED BY <1>2, <1>3, <1>4, <1>5 DEF IInv

------------------------------------------------------------------------------
(* _notify_event(TX_CONFIRMATION) *)

\* Inside it the slave is busy and no confirmation is on the stack.
LEMMA Notifying ==
  ASSUME IInv, pc \in {"notify", "compare", "grow"}
  PROVE  /\ current_state # IDLE /\ NoConf /\ in_hand /\ depth = length
         /\ length \in 0 .. 1
<1>1. current_state # IDLE /\ NoConf /\ in_hand /\ depth = length
  BY DEF IInv, Kept, in_hand, depth
<1>2. length \in 0 .. 1
  <2>1. SUFFICES ASSUME length \notin 0 .. 1 PROVE FALSE
    OBVIOUS
  <2>2. length \in Nat /\ 1 \in 1 .. depth /\ 2 \in 1 .. depth
    BY <1>1, <2>1, StackSizeAssumption DEF IInv, TypeOK
  <2>3. slots[1] = REQUEST_RECEIVED /\ slots[2] = REQUEST_RECEIVED
    BY <1>1, <2>2, StackSizeAssumption DEF IInv, TypeOK, NoConf, NoEmptyPlaces
  <2>4. 1 < depth /\ slots[1] = slots[1 + 1] => pc = "put"
    BY <2>2 DEF IInv, Differ
  <2>5. 1 < depth
    BY <1>1, <2>2
  <2>6. slots[1] = slots[1 + 1]
    BY <2>3
  <2>7. QED BY <2>4, <2>5, <2>6
<1>3. QED BY <1>1, <1>2

\* The test for room, in _notify_event, keeps the invariant.
LEMMA NotifyIInv ==
  ASSUME IInv, Notify
  PROVE  IInv'
<1>1. /\ pc = "notify" /\ length' = length /\ slots' = slots /\ reg' = length
      /\ event' = event /\ current_state' = current_state
  BY DEF Notify
<1>2. current_state # IDLE /\ NoConf /\ depth = length /\ length \in 0 .. 1
  BY <1>1, Notifying
<1>3. pc' = "compare" /\ length < StackSize - 1
  BY <1>2, StackSizeAssumption DEF Notify
<1>4. TypeOK'
  BY <1>1, <1>3 DEF IInv, TypeOK
<1>5. depth' = length /\ in_hand'
  BY <1>1, <1>3 DEF depth, in_hand
<1>6. Kept'
  BY <1>1, <1>2, <1>5 DEF Kept, NoConf
<1>7. NoEmptyPlaces' /\ Differ'
  BY <1>1, <1>2, <1>5 DEF IInv, NoEmptyPlaces, Differ
<1>8. Registers'
  BY <1>1, <1>2, <1>3 DEF Registers
<1>9. QED BY <1>4, <1>6, <1>7, <1>8 DEF IInv

\* The comparison with the top keeps the invariant.
LEMMA CompareIInv ==
  ASSUME IInv, ~ Rereads, Compare
  PROVE  IInv'
<1>1. /\ pc = "compare" /\ length' = length /\ slots' = slots /\ reg' = reg
      /\ event' = event /\ current_state' = current_state
      /\ pc' = IF slots[reg] = TX_CONFIRMATION THEN "get" ELSE "grow"
  BY DEF Compare, lengths
<1>2. current_state # IDLE /\ NoConf /\ depth = length
  BY <1>1, Notifying
<1>3. pc' = "grow"
  <2>1. reg = 0 \/ reg \in 1 .. depth
    BY <1>1, <1>2, StackSizeAssumption DEF IInv, TypeOK, Registers
  <2>2. slots[reg] # TX_CONFIRMATION
    BY <1>2, <2>1 DEF IInv, TypeOK, NoConf
  <2>3. QED BY <1>1, <2>2
<1>4. TypeOK'
  BY <1>1, <1>3 DEF IInv, TypeOK
<1>5. depth' = length /\ in_hand'
  BY <1>1, <1>3 DEF depth, in_hand
<1>6. Kept'
  BY <1>1, <1>2, <1>5 DEF Kept, NoConf
<1>7. NoEmptyPlaces' /\ Differ'
  BY <1>1, <1>2, <1>5 DEF IInv, NoEmptyPlaces, Differ
<1>8. Registers'
  BY <1>1, <1>3 DEF IInv, Registers
<1>9. QED BY <1>4, <1>6, <1>7, <1>8 DEF IInv

\* Counting the length up before the event is stored keeps the invariant.
LEMMA GrowIInv ==
  ASSUME IInv, ~ Rereads, Grow
  PROVE  IInv'
<1>1. /\ pc = "grow" /\ pc' = "put" /\ length' = reg + 1 /\ reg' = reg + 1
      /\ slots' = slots /\ event' = event /\ current_state' = current_state
  BY DEF Grow, lengths
<1>2. current_state # IDLE /\ NoConf /\ depth = length
  BY <1>1, Notifying
<1>3. reg \in Nat /\ reg <= length /\ reg < StackSize - 1 /\ length \in Nat
  BY <1>1, StackSizeAssumption DEF IInv, TypeOK, Registers
<1>4. depth' = reg + 1 /\ in_hand'
  BY <1>1 DEF depth, in_hand
<1>5. TypeOK'
  BY <1>1, <1>3, StackSizeAssumption DEF IInv, TypeOK
<1>6. Kept'
  BY <1>1, <1>2, <1>4 DEF Kept
<1>7. NoEmptyPlaces'
  BY <1>1, <1>2, <1>3, <1>4 DEF IInv, NoEmptyPlaces
<1>8. Differ'
  BY <1>1, <1>2, <1>3, <1>4 DEF IInv, Differ
<1>9. Registers'
  BY <1>1, <1>2, <1>3 DEF Registers, NoConf
<1>10. QED BY <1>5, <1>6, <1>7, <1>8, <1>9 DEF IInv

\* Storing the event keeps the invariant.
LEMMA PutIInv ==
  ASSUME IInv, ~ Rereads, Put
  PROVE  IInv'
<1>1. /\ pc = "put" /\ pc' = "get" /\ length' = length /\ reg' = reg
      /\ slots' = [slots EXCEPT ![reg] = TX_CONFIRMATION]
      /\ event' = event /\ current_state' = current_state
  BY DEF Put, lengths
<1>2. depth = length /\ depth' = length /\ in_hand /\ ~ in_hand'
  BY <1>1 DEF depth, in_hand
<1>3. /\ reg \in 1 .. length /\ length \in 0 .. StackSize - 1 /\ current_state # IDLE
      /\ \A i \in 1 .. length : slots[i] = TX_CONFIRMATION => i = reg
  BY <1>1, <1>2, StackSizeAssumption DEF IInv, TypeOK, Registers, Kept
<1>4. /\ slots'[reg] = TX_CONFIRMATION
      /\ \A i \in 0 .. length : i # reg => slots'[i] = slots[i]
  BY <1>1, <1>3, StackSizeAssumption DEF IInv, TypeOK
<1>5. TypeOK'
  BY <1>1, <1>3, <1>4, StackSizeAssumption DEF IInv, TypeOK
<1>6. Kept'
  <2>1. OneConf'
    BY <1>1, <1>2, <1>3, <1>4 DEF OneConf
  <2>2. QED BY <1>1, <1>2, <1>3, <2>1 DEF Kept
<1>7. NoEmptyPlaces'
  BY <1>1, <1>2, <1>3, <1>4 DEF IInv, NoEmptyPlaces
<1>8. Differ'
  <2>1. SUFFICES ASSUME NEW i \in 1 .. length, i < length, slots'[i] = slots'[i + 1]
                 PROVE  FALSE
    BY <1>2 DEF Differ
  <2>2. i + 1 \in 1 .. length
    BY <1>3, <2>1
  <2>3. CASE i = reg \/ i + 1 = reg
    BY <1>3, <1>4, <2>1, <2>2, <2>3
  <2>4. CASE i # reg /\ i + 1 # reg
    BY <1>2, <1>3, <1>4, <2>1, <2>2, <2>4 DEF IInv, Differ
  <2>5. QED BY <2>3, <2>4
<1>9. Registers'
  BY <1>1 DEF Registers
<1>10. QED BY <1>5, <1>6, <1>7, <1>8, <1>9 DEF IInv

------------------------------------------------------------------------------
\* Every instruction and every interrupt between two of them keep the invariant.
LEMMA NextIInv ==
  ASSUME ~ Rereads, IInv, [Next]_vars
  PROVE  IInv'
<1>1. CASE RxInterrupt BY <1>1, RxInterruptIInv
<1>2. CASE Call \/ Get BY <1>2, GetIInv
<1>3. CASE Read BY <1>3, ReadIInv
<1>4. CASE Drop BY <1>4, DropIInv
<1>5. CASE Handle BY <1>5, HandleIInv
<1>6. CASE Notify BY <1>6, NotifyIInv
<1>7. CASE Compare BY <1>7, CompareIInv
<1>8. CASE Grow BY <1>8, GrowIInv
<1>9. CASE Put BY <1>9, PutIInv
<1>10. CASE UNCHANGED vars
  BY <1>10 DEF vars, IInv, TypeOK, Kept, NoEmptyPlaces, Differ, Registers, NoConf, OneConf,
               depth, in_hand
<1>11. QED
  BY <1>1, <1>2, <1>3, <1>4, <1>5, <1>6, <1>7, <1>8, <1>9, <1>10 DEF Next, Background

\* The invariant contains that the confirmation is kept.
LEMMA KeptConfirmation == ASSUME IInv PROVE ConfirmationKept
<1>1. NoConf => confirmations = {}
  BY DEF NoConf, confirmations
<1>2. OneConf => \E i \in 1 .. depth : confirmations = {i}
  BY DEF OneConf, confirmations
<1>3. QED BY <1>1, <1>2 DEF IInv, Kept, ConfirmationKept

\* The inductive invariant holds in every reachable state.
THEOREM Invariant == ASSUME ~ Rereads PROVE Spec => []IInv
<1>1. Init => IInv BY InitIInv
<1>2. IInv /\ [Next]_vars => IInv' BY NextIInv
<1>3. QED BY <1>1, <1>2, PTL DEF Spec

\* The stack stays within its array and slot 0 empty (melo.c:275): no interrupt makes
\* an index leave it.
THEOREM TypeCorrect == ASSUME ~ Rereads PROVE Spec => []TypeOK
<1>1. IInv => TypeOK BY DEF IInv
<1>2. Spec => []IInv BY Invariant
<1>3. QED BY <1>1, <1>2, PTL

\* No interrupt makes _get_event or _notify_event lose or double a confirmation.
THEOREM ConfirmationKeptAlways == ASSUME ~ Rereads PROVE Spec => []ConfirmationKept
<1>1. IInv => ConfirmationKept BY KeptConfirmation
<1>2. Spec => []IInv BY Invariant
<1>3. QED BY <1>1, <1>2, PTL

\* No empty place comes to lie below the length and ends MeloBackground early.
THEOREM NoEmptyPlacesAlways == ASSUME ~ Rereads PROVE Spec => []NoEmptyPlaces
<1>1. IInv => NoEmptyPlaces BY DEF IInv
<1>2. Spec => []IInv BY Invariant
<1>3. QED BY <1>1, <1>2, PTL
================================================================================
