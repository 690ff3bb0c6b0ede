---------------------------- MODULE MeloSlaveProofs ----------------------------
(***************************************************************************)
(* The safety of MeloSlave for every set of packets, every port, every     *)
(* stack of at least the shipped size, every time limit and timer width;   *)
(* and, in the second part, of the machines that airy generates, of which  *)
(* melo's is one, for every chart and every table of numbers that suits it.*)
(***************************************************************************)
EXTENDS MeloSlave, AiryMachine, WellFoundedInduction, TLAPS

(***************************************************************************)
(* What the operations of the event stack do to its contents.              *)
(***************************************************************************)

\* _notify_event never puts an event on top of an equal one, so no two
\* neighbours of a stack are equal.
Alternating(s) == \A i \in 1 .. Len(s) - 1 : s[i] # s[i + 1]

AtMostOne(s, event) ==
  \A i, j \in 1 .. Len(s) : s[i] = event /\ s[j] = event => i = j

\* A stack that neither repeats neighbours nor holds two of one event is short:
\* this is what bounds the stack whatever the number of calls.
LEMMA AlternatingIsShort ==
  ASSUME NEW s \in Seq(Events), Alternating(s), AtMostOne(s, TX_CONFIRMATION)
  PROVE  Len(s) <= 3
<1>1. SUFFICES ASSUME Len(s) >= 4 PROVE FALSE
  OBVIOUS
<1>2. /\ s[1] \in Events /\ s[2] \in Events /\ s[3] \in Events /\ s[4] \in Events
      /\ s[1] # s[2] /\ s[2] # s[3] /\ s[3] # s[4]
  BY <1>1 DEF Alternating
<1>3. \/ s[1] = TX_CONFIRMATION /\ s[3] = TX_CONFIRMATION
      \/ s[2] = TX_CONFIRMATION /\ s[4] = TX_CONFIRMATION
  BY <1>2 DEF Events
<1>4. QED
  BY <1>1, <1>3 DEF AtMostOne

\* A stack without confirmations holds at most one event.
LEMMA NoConfirmationIsShort ==
  ASSUME NEW s \in Seq(Events), Alternating(s), ~ Pending(s, TX_CONFIRMATION)
  PROVE  Len(s) <= 1
<1>1. SUFFICES ASSUME Len(s) >= 2 PROVE FALSE
  OBVIOUS
<1>2. /\ s[1] \in Events /\ s[2] \in Events /\ s[1] # s[2]
  BY <1>1 DEF Alternating
<1>3. QED
  BY <1>1, <1>2 DEF Events, Pending

\* What _notify_event does to a stack that has room: the event is pending
\* afterwards, the others are as before, and neighbours still differ.
LEMMA NotifyEvent ==
  ASSUME NEW s \in Seq(Events), NEW event \in Events,
         Alternating(s), Len(s) < StackSize - 1
  PROVE  LET t == notify_event(s, event) IN
         /\ t \in Seq(Events)
         /\ Len(t) <= Len(s) + 1
         /\ Alternating(t)
         /\ \A e \in Events : Pending(t, e) <=> (Pending(s, e) \/ e = event)
<1> DEFINE t == notify_event(s, event)
<1>1. CASE top(s) = event
  <2>1. t = s
    BY <1>1 DEF notify_event
  <2>2. s # <<>> /\ s[Len(s)] = event
    BY <1>1 DEF top, Events, EVENT_IDLE, REQUEST_RECEIVED, TX_CONFIRMATION
  <2>3. Pending(s, event)
    BY <2>2 DEF Pending
  <2>4. QED
    BY <2>1, <2>3
<1>2. CASE top(s) # event
  <2>1. t = Append(s, event)
    BY <1>2, StackSizeAssumption DEF notify_event, is_full
  <2>2. /\ t \in Seq(Events)
        /\ Len(t) = Len(s) + 1
        /\ t[Len(s) + 1] = event
        /\ \A i \in 1 .. Len(s) : t[i] = s[i]
    BY <2>1
  <2>3. Alternating(t)
    <3> SUFFICES ASSUME NEW i \in 1 .. Len(t) - 1 PROVE t[i] # t[i + 1]
      BY DEF Alternating
    <3>1. CASE i < Len(s)
      BY <2>2, <3>1 DEF Alternating
    <3>2. CASE i = Len(s)
      BY <1>2, <2>2, <3>2 DEF top
    <3>3. QED
      BY <2>2, <3>1, <3>2
  <2>4. ASSUME NEW e \in Events
        PROVE  Pending(t, e) <=> (Pending(s, e) \/ e = event)
    BY <2>2 DEF Pending
  <2>5. QED
    BY <2>2, <2>3, <2>4
<1>3. QED
  BY <1>1, <1>2

\* A notified event is not pending twice if it was not pending before, and the
\* other event is as often pending as it was.
LEMMA NotifyOnce ==
  ASSUME NEW s \in Seq(Events), NEW event \in Events, NEW e \in Events,
         AtMostOne(s, e), e # event \/ ~ Pending(s, e)
  PROVE  AtMostOne(notify_event(s, event), e)
<1> DEFINE t == notify_event(s, event)
<1>1. CASE t = s
  BY <1>1
<1>2. CASE t = Append(s, event)
  <2>1. /\ Len(t) = Len(s) + 1
        /\ t[Len(s) + 1] = event
        /\ \A i \in 1 .. Len(s) : t[i] = s[i]
    BY <1>2
  <2>2. QED
    BY <2>1 DEF AtMostOne, Pending
<1>3. QED
  BY <1>1, <1>2 DEF notify_event

\* The sequence that is left when the last element goes.
LEMMA WithoutTop ==
  ASSUME NEW S, NEW s \in Seq(S), NEW n \in Nat, Len(s) = n + 1
  PROVE  /\ SubSeq(s, 1, n) \in Seq(S)
         /\ Len(SubSeq(s, 1, n)) = n
         /\ \A i \in 1 .. n : SubSeq(s, 1, n)[i] = s[i]
OBVIOUS

\* What _get_event does to a stack that is not empty.
LEMMA GetEvent ==
  ASSUME NEW s \in Seq(Events), s # <<>>, Alternating(s)
  PROVE  /\ top(s) \in Events /\ Pending(s, top(s))
         /\ popped(s) \in Seq(Events)
         /\ Len(popped(s)) = Len(s) - 1
         /\ Alternating(popped(s))
         /\ \A e \in Events : Pending(s, e) <=> (Pending(popped(s), e) \/ e = top(s))
         /\ \A e \in Events : AtMostOne(s, e) =>
              /\ AtMostOne(popped(s), e)
              /\ e = top(s) => ~ Pending(popped(s), e)
<1> DEFINE t == popped(s)
<1>1. Len(s) \in Nat /\ Len(s) > 0
  OBVIOUS
<1>2. top(s) = s[Len(s)] /\ t = SubSeq(s, 1, Len(s) - 1)
  BY DEF top, popped
<1>3. /\ t \in Seq(Events)
      /\ Len(t) = Len(s) - 1
      /\ \A i \in 1 .. Len(s) - 1 : t[i] = s[i]
  <2>1. PICK n \in Nat : Len(s) = n + 1
    BY <1>1
  <2>2. Len(s) - 1 = n
    BY <2>1
  <2>3. t = SubSeq(s, 1, n)
    BY <1>2, <2>2, Zenon
  <2>4. QED
    BY <2>1, <2>2, <2>3, WithoutTop
<1>4. top(s) \in Events /\ Pending(s, top(s))
  BY <1>1, <1>2 DEF Pending
<1>5. Alternating(t)
  BY <1>1, <1>3 DEF Alternating
<1>6. ASSUME NEW e \in Events
      PROVE  Pending(s, e) <=> (Pending(t, e) \/ e = top(s))
  <2>1. ASSUME Pending(s, e) PROVE Pending(t, e) \/ e = top(s)
    BY <1>1, <1>2, <1>3, <2>1 DEF Pending
  <2>2. ASSUME Pending(t, e) PROVE Pending(s, e)
    BY <1>1, <1>3, <2>2 DEF Pending
  <2>3. QED
    BY <1>4, <2>1, <2>2
<1>7. ASSUME NEW e \in Events, AtMostOne(s, e)
      PROVE  AtMostOne(t, e) /\ (e = top(s) => ~ Pending(t, e))
  BY <1>1, <1>2, <1>3, <1>7 DEF AtMostOne, Pending
<1>8. QED
  BY <1>3, <1>4, <1>5, <1>6, <1>7

(***************************************************************************)
(* The slave.                                                              *)
(***************************************************************************)

\* Both frames are built together, from one request.
FramesAgree == wait_frame = send_frame

\* A request event stands for a packet that has been received.
PacketPresent == Pending(stack, REQUEST_RECEIVED) => packet \in Packets

\* ExactlyOneConfirmation bounds the confirmations on the stack; that neighbours
\* differ then bounds the requests between them, so that no event is refused for
\* want of room and none of the others is lost.
IInv ==
  /\ TypeOK
  /\ ExactlyOneConfirmation
  /\ Alternating(stack)
  /\ FramesAgree
  /\ PacketPresent

USE DEF IDLE, RESP_PROC, RESP_PEND, TX_PEND

\* The events of the slave are two, and different.
LEMMA EventTypes ==
  /\ REQUEST_RECEIVED \in Events /\ TX_CONFIRMATION \in Events
  /\ REQUEST_RECEIVED # TX_CONFIRMATION
  /\ \A e \in Events : e = REQUEST_RECEIVED \/ e = TX_CONFIRMATION
BY DEF Events, REQUEST_RECEIVED, TX_CONFIRMATION

------------------------------------------------------------------------------
(* The chart: only the transition out of IDLE enters RESP_PROC. *)

\* Which transitions enter RESP_PROC, computed from the table.
LEMMA Entries ==
  /\ RESP_PROC \in entered(table, IDLE, RESP_PEND)
  /\ RESP_PROC \notin entered(table, RESP_PEND, TX_PEND)
  /\ RESP_PROC \notin entered(table, TX_PEND, IDLE)
BY DEF entered, crossed, is_parent, table

\* A transition out of IDLE enters RESP_PROC and its substate.
LEMMA BeginTransition ==
  ASSUME NEW rest, NEW ticks, state_transition(IDLE, RESP_PEND, rest, ticks)
  PROVE  /\ current_state' = RESP_PEND
         /\ timer' = 0
         /\ frame_handler
         /\ MeloTransmitBytes("wait", rest)
BY Entries DEF state_transition

\* One between the substates does not enter RESP_PROC again.
LEMMA FinishTransition ==
  ASSUME NEW rest, NEW ticks, state_transition(RESP_PEND, TX_PEND, rest, ticks)
  PROVE  /\ current_state' = TX_PEND
         /\ timer' = ticks
         /\ UNCHANGED frames
         /\ MeloTransmitBytes("send", rest)
BY Entries DEF state_transition

\* One back to IDLE enters nothing that transmits.
LEMMA DoneTransition ==
  ASSUME NEW rest, NEW ticks, state_transition(TX_PEND, IDLE, rest, ticks)
  PROVE  /\ current_state' = IDLE
         /\ timer' = ticks
         /\ UNCHANGED frames
         /\ stack' = rest /\ UNCHANGED tx
BY Entries DEF state_transition

------------------------------------------------------------------------------
(* The inductive invariant *)

\* A stack with a confirmation at most once, and no equal neighbours, has room.
LEMMA ShortStack ==
  ASSUME IInv
  PROVE  Len(stack) < StackSize - 1
<1>1. Len(stack) <= 3
  BY AlternatingIsShort DEF IInv, TypeOK, ExactlyOneConfirmation, AtMostOne
<1>2. QED
  BY <1>1, StackSizeAssumption DEF IInv, TypeOK

\* MeloTransmitBytes turns "no confirmation is due" into "exactly one is", whether
\* the application confirms at once or later.
LEMMA Transmit ==
  ASSUME NEW frame \in {"wait", "send"}, NEW rest \in Seq(Events),
         Alternating(rest), Len(rest) < StackSize - 1,
         AtMostOne(rest, TX_CONFIRMATION),
         ~ Pending(rest, TX_CONFIRMATION), tx = "none",
         MeloTransmitBytes(frame, rest)
  PROVE  /\ stack' \in Seq(Events) /\ Len(stack') <= StackSize - 1
         /\ Alternating(stack')
         /\ AtMostOne(stack', TX_CONFIRMATION)
         /\ tx' \in {"none", "wait", "send"}
         /\ tx' # "none" <=> ~ Pending(stack', TX_CONFIRMATION)
         /\ Pending(stack', REQUEST_RECEIVED) <=> Pending(rest, REQUEST_RECEIVED)
<1>1. CASE Port = "sketch"
  <2>1. stack' = notify_event(rest, TX_CONFIRMATION) /\ tx' = "none"
    BY <1>1 DEF MeloTransmitBytes
  <2>2. AtMostOne(stack', TX_CONFIRMATION)
    BY <2>1, EventTypes, NotifyOnce
  <2>3. /\ stack' \in Seq(Events) /\ Len(stack') <= Len(rest) + 1
        /\ Alternating(stack')
        /\ \A e \in Events : Pending(stack', e) <=>
                             (Pending(rest, e) \/ e = TX_CONFIRMATION)
    BY <2>1, EventTypes, NotifyEvent
  <2>4. Len(stack') <= StackSize - 1
    BY <2>3, StackSizeAssumption
  <2>5. QED
    BY <2>1, <2>2, <2>3, <2>4, EventTypes
<1>2. CASE Port # "sketch"
  BY <1>2, StackSizeAssumption DEF MeloTransmitBytes
<1>3. QED
  BY <1>1, <1>2

\* The invariant holds after MeloInit.
LEMMA InitIInv == Init => IInv
<1> SUFFICES ASSUME Init PROVE IInv
  OBVIOUS
<1>1. TypeOK
  <2>1. stack \in Seq(Events) /\ Len(stack) <= StackSize - 1
    BY StackSizeAssumption DEF Init
  <2>2. timer \in 0 .. TimerMod - 1
    BY TimerAssumption DEF Init
  <2>3. QED
    BY <2>1, <2>2 DEF Init, TypeOK
<1>2. QED
  BY <1>1 DEF Init, IInv, ExactlyOneConfirmation, Alternating, FramesAgree,
              PacketPresent, Pending

\* A packet that arrives at any time keeps the invariant.
LEMMA ReceiveIInv ==
  ASSUME IInv, NEW p \in Packets, Receive(p)
  PROVE  IInv'
<1>1. /\ stack' \in Seq(Events) /\ Len(stack') <= Len(stack) + 1
      /\ Alternating(stack')
      /\ \A e \in Events : Pending(stack', e) <=>
                           (Pending(stack, e) \/ e = REQUEST_RECEIVED)
  BY ShortStack, EventTypes, NotifyEvent DEF IInv, TypeOK, Receive
<1>2. AtMostOne(stack', TX_CONFIRMATION)
  BY EventTypes, NotifyOnce
     DEF IInv, TypeOK, Receive, ExactlyOneConfirmation, AtMostOne
<1>3. TypeOK'
  BY <1>1, ShortStack, StackSizeAssumption, PortAssumption DEF IInv, TypeOK, Receive, frames
<1>4. ExactlyOneConfirmation'
  BY <1>1, <1>2, EventTypes DEF IInv, ExactlyOneConfirmation, AtMostOne, Receive
<1>5. FramesAgree' /\ PacketPresent'
  BY DEF IInv, FramesAgree, PacketPresent, Receive, frames
<1>6. QED
  BY <1>1, <1>3, <1>4, <1>5 DEF IInv

\* The end of a transmission keeps the invariant: its confirmation is not dropped.
LEMMA TransmitCompleteIInv ==
  ASSUME IInv, TransmitComplete
  PROVE  IInv'
<1>1. current_state # IDLE /\ ~ Pending(stack, TX_CONFIRMATION)
  BY DEF IInv, ExactlyOneConfirmation, TransmitComplete
<1>2. /\ stack' \in Seq(Events) /\ Len(stack') <= Len(stack) + 1
      /\ Alternating(stack')
      /\ \A e \in Events : Pending(stack', e) <=>
                           (Pending(stack, e) \/ e = TX_CONFIRMATION)
  BY ShortStack, EventTypes, NotifyEvent DEF IInv, TypeOK, TransmitComplete
<1>3. AtMostOne(stack', TX_CONFIRMATION)
  BY <1>1, EventTypes, NotifyOnce
     DEF IInv, TypeOK, TransmitComplete, ExactlyOneConfirmation, AtMostOne
<1>4. TypeOK'
  BY <1>2, ShortStack, StackSizeAssumption DEF IInv, TypeOK, TransmitComplete, frames
<1>5. ExactlyOneConfirmation'
  BY <1>1, <1>2, <1>3, EventTypes
     DEF IInv, ExactlyOneConfirmation, AtMostOne, TransmitComplete
<1>6. FramesAgree' /\ PacketPresent'
  BY <1>2, EventTypes DEF IInv, FramesAgree, PacketPresent, TransmitComplete, frames
<1>7. QED
  BY <1>2, <1>4, <1>5, <1>6 DEF IInv

\* The cases of Dispatch share what _get_event does to the stack.
LEMMA PopFacts ==
  ASSUME IInv, stack # <<>>
  PROVE  /\ popped(stack) \in Seq(Events)
         /\ Len(popped(stack)) < StackSize - 1
         /\ Alternating(popped(stack))
         /\ AtMostOne(popped(stack), TX_CONFIRMATION)
         /\ top(stack) = REQUEST_RECEIVED \/ top(stack) = TX_CONFIRMATION
         /\ top(stack) = TX_CONFIRMATION =>
              /\ Pending(stack, TX_CONFIRMATION)
              /\ ~ Pending(popped(stack), TX_CONFIRMATION)
         /\ top(stack) = REQUEST_RECEIVED =>
              /\ Pending(stack, REQUEST_RECEIVED)
              /\ Pending(stack, TX_CONFIRMATION) <=>
                   Pending(popped(stack), TX_CONFIRMATION)
         /\ Pending(popped(stack), REQUEST_RECEIVED) =>
              Pending(stack, REQUEST_RECEIVED)
<1>1. /\ stack \in Seq(Events)
      /\ Alternating(stack)
      /\ AtMostOne(stack, TX_CONFIRMATION)
  BY DEF IInv, TypeOK, ExactlyOneConfirmation, AtMostOne
<1>2. /\ top(stack) \in Events /\ Pending(stack, top(stack))
      /\ popped(stack) \in Seq(Events)
      /\ Len(popped(stack)) = Len(stack) - 1
      /\ Alternating(popped(stack))
      /\ \A e \in Events : Pending(stack, e) <=>
                           (Pending(popped(stack), e) \/ e = top(stack))
      /\ \A e \in Events : AtMostOne(stack, e) =>
           /\ AtMostOne(popped(stack), e)
           /\ e = top(stack) => ~ Pending(popped(stack), e)
  BY <1>1, GetEvent
<1>3. Len(popped(stack)) < StackSize - 1
  BY <1>1, <1>2, ShortStack, StackSizeAssumption
<1>4. QED
  BY <1>1, <1>2, <1>3, EventTypes

\* A request that meets a busy slave is taken off the stack and nothing else.
LEMMA DropIInv ==
  ASSUME IInv, stack # <<>>, top(stack) = REQUEST_RECEIVED,
         NEW ticks \in 0 .. TimerMod - 1,
         no_transition(popped(stack), ticks), UNCHANGED <<packet, running>>
  PROVE  IInv'
<1>1. TypeOK'
  BY PopFacts, StackSizeAssumption DEF IInv, TypeOK, no_transition, frames
<1>2. ExactlyOneConfirmation'
  BY PopFacts DEF IInv, ExactlyOneConfirmation, AtMostOne, no_transition
<1>3. Alternating(stack') /\ FramesAgree' /\ PacketPresent'
  BY PopFacts DEF IInv, FramesAgree, PacketPresent, no_transition, frames
<1>4. QED
  BY <1>1, <1>2, <1>3 DEF IInv

\* Handling one event keeps the invariant.
LEMMA DispatchIInv ==
  ASSUME IInv, Dispatch
  PROVE  IInv'
<1> DEFINE rest == popped(stack)
<1>1. stack # <<>> /\ UNCHANGED <<packet, running>>
  BY DEF Dispatch
<1>2. RESP_PROC_during \in 0 .. TimerMod - 1 /\ timer \in 0 .. TimerMod - 1
  BY TimerAssumption DEF IInv, TypeOK, RESP_PROC_during
<1>3. CASE top(stack) = REQUEST_RECEIVED
  <2>1. CASE current_state = IDLE
    <3>1. state_transition(IDLE, RESP_PEND, rest, timer)
      BY <1>3, <2>1 DEF Dispatch, IDLE_during
    <3>2. /\ current_state' = RESP_PEND /\ timer' = 0 /\ frame_handler
          /\ MeloTransmitBytes("wait", rest)
      BY <3>1, BeginTransition
    <3>3. tx = "none" /\ ~ Pending(rest, TX_CONFIRMATION)
      BY <1>1, <1>3, <2>1, PopFacts DEF IInv, ExactlyOneConfirmation
    <3>4. /\ stack' \in Seq(Events) /\ Len(stack') <= StackSize - 1
          /\ Alternating(stack')
          /\ AtMostOne(stack', TX_CONFIRMATION)
          /\ tx' \in {"none", "wait", "send"}
          /\ tx' # "none" <=> ~ Pending(stack', TX_CONFIRMATION)
          /\ Pending(stack', REQUEST_RECEIVED) <=> Pending(rest, REQUEST_RECEIVED)
      BY <1>1, <3>2, <3>3, PopFacts, Transmit
    <3>5. TypeOK'
      BY <1>1, <3>2, <3>4, TimerAssumption DEF IInv, TypeOK, frame_handler, frames
    <3>6. ExactlyOneConfirmation'
      BY <3>2, <3>4 DEF ExactlyOneConfirmation, AtMostOne
    <3>7. FramesAgree' /\ PacketPresent'
      BY <1>1, <3>2, <3>4, PopFacts
         DEF IInv, FramesAgree, PacketPresent, frame_handler, frames
    <3>8. QED
      BY <3>4, <3>5, <3>6, <3>7 DEF IInv
  <2>2. CASE current_state # IDLE
    <3>1. no_transition(rest, RESP_PROC_during)
      BY <1>3, <2>2, EventTypes DEF Dispatch, RESP_PEND_during, TX_PEND_during
    <3>2. QED
      BY <1>1, <1>2, <1>3, <3>1, DropIInv
  <2>3. QED
    BY <2>1, <2>2
<1>4. CASE top(stack) = TX_CONFIRMATION
  <2>1. /\ tx = "none" /\ ~ Pending(rest, TX_CONFIRMATION)
        /\ current_state \in {RESP_PEND, TX_PEND}
    BY <1>1, <1>4, PopFacts DEF IInv, TypeOK, ExactlyOneConfirmation
  <2>2. CASE current_state = RESP_PEND
    <3>1. state_transition(RESP_PEND, TX_PEND, rest, RESP_PROC_during)
      BY <1>4, <2>2 DEF Dispatch, RESP_PEND_during
    <3>2. /\ current_state' = TX_PEND /\ timer' = RESP_PROC_during
          /\ UNCHANGED frames
          /\ MeloTransmitBytes("send", rest)
      BY <3>1, FinishTransition
    <3>3. /\ stack' \in Seq(Events) /\ Len(stack') <= StackSize - 1
          /\ Alternating(stack')
          /\ AtMostOne(stack', TX_CONFIRMATION)
          /\ tx' \in {"none", "wait", "send"}
          /\ tx' # "none" <=> ~ Pending(stack', TX_CONFIRMATION)
          /\ Pending(stack', REQUEST_RECEIVED) <=> Pending(rest, REQUEST_RECEIVED)
      BY <1>1, <2>1, <3>2, PopFacts, Transmit
    <3>4. TypeOK'
      BY <1>1, <1>2, <3>2, <3>3 DEF IInv, TypeOK, frames
    <3>5. ExactlyOneConfirmation'
      BY <3>2, <3>3 DEF ExactlyOneConfirmation, AtMostOne
    <3>6. FramesAgree' /\ PacketPresent'
      BY <1>1, <3>2, <3>3, PopFacts DEF IInv, FramesAgree, PacketPresent, frames
    <3>7. QED
      BY <3>3, <3>4, <3>5, <3>6 DEF IInv
  <2>3. CASE current_state = TX_PEND
    <3>1. state_transition(TX_PEND, IDLE, rest, RESP_PROC_during)
      BY <1>4, <2>3 DEF Dispatch, TX_PEND_during
    <3>2. /\ current_state' = IDLE /\ timer' = RESP_PROC_during
          /\ UNCHANGED frames
          /\ stack' = rest /\ UNCHANGED tx
      BY <3>1, DoneTransition
    <3>3. TypeOK'
      BY <1>1, <1>2, <2>1, <3>2, PopFacts, StackSizeAssumption
         DEF IInv, TypeOK, frames
    <3>4. ExactlyOneConfirmation'
      BY <1>1, <2>1, <3>2, PopFacts DEF ExactlyOneConfirmation, AtMostOne
    <3>5. Alternating(stack') /\ FramesAgree' /\ PacketPresent'
      BY <1>1, <3>2, PopFacts DEF IInv, FramesAgree, PacketPresent, frames
    <3>6. QED
      BY <3>3, <3>4, <3>5 DEF IInv
  <2>4. QED
    BY <2>1, <2>2, <2>3
<1>5. QED
  BY <1>1, <1>3, <1>4, PopFacts

\* Every action keeps the invariant.
LEMMA NextIInv == IInv /\ [Next]_vars => IInv'
<1> SUFFICES ASSUME IInv, [Next]_vars PROVE IInv'
  OBVIOUS
<1>1. ASSUME NEW p \in Packets, Receive(p) PROVE IInv'
  BY <1>1, ReceiveIInv
<1>2. CASE TransmitComplete
  BY <1>2, TransmitCompleteIInv
<1>3. CASE BackgroundCall \/ BackgroundReturn \/ UNCHANGED vars
  <2>1. /\ UNCHANGED <<stack, current_state, timer, packet, frames, tx>>
        /\ running' \in BOOLEAN
    BY <1>3 DEF BackgroundCall, BackgroundReturn, vars, IInv, TypeOK
  <2>2. TypeOK' /\ ExactlyOneConfirmation' /\ Alternating(stack')
        /\ FramesAgree' /\ PacketPresent'
    BY <2>1 DEF IInv, TypeOK, ExactlyOneConfirmation, FramesAgree,
                PacketPresent, frames
  <2>3. QED
    BY <2>2 DEF IInv
<1>4. CASE Dispatch
  BY <1>4, DispatchIInv
<1>5. QED
  BY <1>1, <1>2, <1>3, <1>4 DEF Next

\* The inductive invariant holds in every reachable state.
THEOREM Invariant == Spec => []IInv
BY InitIInv, NextIInv, PTL DEF Spec

\* Every variable of the slave keeps its type and the stack its bound.
THEOREM TypeCorrect == Spec => []TypeOK
<1>1. IInv => TypeOK
  BY DEF IInv
<1>2. QED
  BY <1>1, Invariant, PTL

\* A busy slave has exactly one confirmation coming, an idle one none.
THEOREM ExactlyOneConfirmationAlways == Spec => []ExactlyOneConfirmation
<1>1. IInv => ExactlyOneConfirmation
  BY DEF IInv
<1>2. QED
  BY <1>1, Invariant, PTL

\* _notify_event never finds the event stack full.
THEOREM StackHasRoomAlways == Spec => []StackHasRoom
<1>1. IInv => StackHasRoom
  BY ShortStack DEF StackHasRoom
<1>2. QED
  BY <1>1, Invariant, PTL

------------------------------------------------------------------------------
(* While a frame is being sent *)

\* With a transmission under way the only event there can be is a request, and
\* the slave is not idle, so that the request is dropped.
LEMMA DispatchWhileSending ==
  ASSUME IInv, Dispatch, tx # "none"
  PROVE  UNCHANGED frames /\ UNCHANGED tx
<1>1. /\ current_state # IDLE /\ ~ Pending(stack, TX_CONFIRMATION)
      /\ stack # <<>>
  BY DEF IInv, ExactlyOneConfirmation, Dispatch
<1>2. top(stack) = REQUEST_RECEIVED
  BY <1>1, PopFacts
<1>3. no_transition(popped(stack), RESP_PROC_during)
  BY <1>1, <1>2, EventTypes DEF Dispatch, RESP_PEND_during, TX_PEND_during
<1>4. QED
  BY <1>3 DEF no_transition

\* The buffers a transmission reads stay as they are until it has completed, and
\* no second transmission starts beside it.
THEOREM BuffersStableAlways == Spec => BuffersStable
<1> DEFINE Stable == tx # "none" => UNCHANGED frames /\ tx' \in {tx, "none"}
<1>1. ASSUME IInv, [Next]_vars PROVE [Stable]_vars
  <2>1. ASSUME NEW p \in Packets, Receive(p) PROVE Stable
    BY <2>1 DEF Receive
  <2>2. CASE TransmitComplete
    BY <2>2 DEF TransmitComplete
  <2>3. CASE BackgroundCall \/ BackgroundReturn
    BY <2>3 DEF BackgroundCall, BackgroundReturn
  <2>4. CASE Dispatch
    BY <1>1, <2>4, DispatchWhileSending
  <2>5. CASE UNCHANGED vars
    BY <2>5
  <2>6. QED
    BY <1>1, <2>1, <2>2, <2>3, <2>4, <2>5 DEF Next
<1>2. QED
  BY <1>1, Invariant, PTL DEF Spec, BuffersStable

------------------------------------------------------------------------------
(* The slave implements MeloReplies *)

inbox == IF Pending(stack, REQUEST_RECEIVED) THEN packet ELSE NoRequest
phase == CASE current_state = IDLE      -> "idle"
           [] current_state = RESP_PEND -> "pending"
           [] current_state = TX_PEND   -> "final"
answered == IF current_state = RESP_PEND THEN wait_frame ELSE send_frame

\* The parts of the refinement mapping, step by step: what each of the abstract
\* variables does when the concrete ones do what is assumed.
LEMMA Phases ==
  /\ current_state = IDLE => phase = "idle"
  /\ current_state = RESP_PEND => phase = "pending"
  /\ current_state = TX_PEND => phase = "final"
BY DEF phase

\* The phase that the refinement sees after a step.
LEMMA PhasesPrimed ==
  /\ current_state' = IDLE => phase' = "idle"
  /\ current_state' = RESP_PEND => phase' = "pending"
  /\ current_state' = TX_PEND => phase' = "final"
BY DEF phase

Refined == Replies!Next \/ UNCHANGED <<inbox, phase, answered>>

\* A packet that arrives is an arrival of MeloReplies, or a stutter.
LEMMA RefinedReceive ==
  ASSUME IInv, NEW p \in Packets, Receive(p)
  PROVE  Refined
<1>1. Pending(stack', REQUEST_RECEIVED)
  BY ShortStack, EventTypes, NotifyEvent DEF IInv, TypeOK, Receive
<1>2. inbox' = p
  BY <1>1 DEF inbox, Receive
<1>3. UNCHANGED <<phase, answered>>
  BY DEF Receive, phase, answered, frames
<1>4. Replies!Arrive(p)
  BY <1>2, <1>3 DEF Replies!Arrive, inbox, phase, answered
<1>5. QED
  BY <1>4 DEF Refined, Replies!Next, Packets

\* The end of a transmission is a stutter of MeloReplies.
LEMMA RefinedTransmitComplete ==
  ASSUME IInv, TransmitComplete
  PROVE  Refined
<1>1. Pending(stack', REQUEST_RECEIVED) <=> Pending(stack, REQUEST_RECEIVED)
  BY ShortStack, EventTypes, NotifyEvent DEF IInv, TypeOK, TransmitComplete
<1>2. UNCHANGED <<inbox, phase, answered>>
  BY <1>1 DEF TransmitComplete, inbox, phase, answered, frames
<1>3. QED
  BY <1>2 DEF Refined

\* Handling an event is a step of MeloReplies, or a stutter.
LEMMA RefinedDispatch ==
  ASSUME IInv, Dispatch
  PROVE  Refined
<1> DEFINE rest == popped(stack)
<1>1. stack # <<>> /\ UNCHANGED packet
  BY DEF Dispatch
<1>2. CASE current_state = IDLE
  <2>1. /\ top(stack) = REQUEST_RECEIVED /\ tx = "none"
        /\ Pending(stack, REQUEST_RECEIVED)
        /\ ~ Pending(rest, TX_CONFIRMATION)
    BY <1>1, <1>2, PopFacts DEF IInv, ExactlyOneConfirmation
  <2>2. ~ Pending(rest, REQUEST_RECEIVED)
    <3>1. Len(stack) <= 1
      BY <1>2, NoConfirmationIsShort DEF IInv, TypeOK, ExactlyOneConfirmation
    <3>2. Len(rest) < 1 /\ Len(rest) \in Nat
      BY <1>1, <3>1, GetEvent DEF IInv, TypeOK
    <3>3. QED
      BY <3>2 DEF Pending
  <2>3. state_transition(IDLE, RESP_PEND, rest, timer)
    BY <1>2, <2>1 DEF Dispatch, IDLE_during
  <2>4. /\ current_state' = RESP_PEND /\ frame_handler
        /\ MeloTransmitBytes("wait", rest)
    BY <2>3, BeginTransition
  <2>5. ~ Pending(stack', REQUEST_RECEIVED)
    BY <1>1, <2>1, <2>2, <2>4, PopFacts, Transmit
  <2>6. /\ inbox = packet /\ packet \in Packets /\ inbox' = NoRequest
        /\ phase = "idle" /\ phase' = "pending"
        /\ answered = send_frame /\ answered' = wait_frame'
    BY <1>2, <2>1, <2>4, <2>5, Phases, PhasesPrimed
       DEF inbox, answered, IInv, PacketPresent
  <2>7. CASE packet \in Requests
    <3>1. answered' = packet
      BY <2>4, <2>6, <2>7 DEF frame_handler
    <3>2. Replies!Begin
      BY <2>6, <2>7, <3>1 DEF Replies!Begin, inbox, phase, answered
    <3>3. QED
      BY <3>2 DEF Refined, Replies!Next
  <2>8. CASE packet \notin Requests
    <3>1. answered' = answered /\ packet \in NonRequests
      BY <2>4, <2>6, <2>8 DEF frame_handler, frames, IInv, FramesAgree, Packets
    <3>2. Replies!Resend
      BY <2>6, <3>1 DEF Replies!Resend, inbox, phase, answered
    <3>3. QED
      BY <3>2 DEF Refined, Replies!Next
  <2>9. QED
    BY <2>7, <2>8
<1>3. CASE current_state # IDLE /\ top(stack) = REQUEST_RECEIVED
  <2>1. no_transition(rest, RESP_PROC_during)
    BY <1>3, EventTypes DEF Dispatch, RESP_PEND_during, TX_PEND_during
  <2>2. /\ stack' = rest
        /\ UNCHANGED <<phase, answered>> /\ phase # "idle"
    BY <1>3, <2>1, Phases
       DEF no_transition, phase, answered, frames, IInv, TypeOK
  <2>3. CASE Pending(rest, REQUEST_RECEIVED)
    <3>1. UNCHANGED inbox
      BY <1>1, <2>2, <2>3, PopFacts DEF inbox
    <3>2. QED
      BY <2>2, <3>1 DEF Refined
  <2>4. CASE ~ Pending(rest, REQUEST_RECEIVED)
    <3>1. Replies!Ignore
      BY <2>2, <2>4 DEF Replies!Ignore, inbox, phase, answered
    <3>2. QED
      BY <3>1 DEF Refined, Replies!Next
  <2>5. QED
    BY <2>3, <2>4
<1>4. CASE current_state # IDLE /\ top(stack) = TX_CONFIRMATION
  <2>1. /\ tx = "none" /\ ~ Pending(rest, TX_CONFIRMATION)
        /\ current_state \in {RESP_PEND, TX_PEND}
    BY <1>1, <1>4, PopFacts DEF IInv, TypeOK, ExactlyOneConfirmation
  <2>2. Pending(stack, REQUEST_RECEIVED) <=> Pending(rest, REQUEST_RECEIVED)
    BY <1>1, <1>4, EventTypes, GetEvent DEF IInv, TypeOK
  <2>3. CASE current_state = RESP_PEND
    <3>1. state_transition(RESP_PEND, TX_PEND, rest, RESP_PROC_during)
      BY <1>4, <2>3 DEF Dispatch, RESP_PEND_during
    <3>2. /\ current_state' = TX_PEND /\ UNCHANGED frames
          /\ MeloTransmitBytes("send", rest)
      BY <3>1, FinishTransition
    <3>3. Pending(stack', REQUEST_RECEIVED) <=> Pending(rest, REQUEST_RECEIVED)
      BY <1>1, <2>1, <3>2, PopFacts, Transmit
    <3>4. UNCHANGED <<inbox, answered>> /\ phase = "pending" /\ phase' = "final"
      BY <1>1, <2>2, <2>3, <3>2, <3>3, Phases, PhasesPrimed
         DEF inbox, answered, frames, IInv, FramesAgree
    <3>5. Replies!Finish
      BY <3>4 DEF Replies!Finish, inbox, phase, answered
    <3>6. QED
      BY <3>5 DEF Refined, Replies!Next
  <2>4. CASE current_state = TX_PEND
    <3>1. state_transition(TX_PEND, IDLE, rest, RESP_PROC_during)
      BY <1>4, <2>4 DEF Dispatch, TX_PEND_during
    <3>2. /\ current_state' = IDLE /\ UNCHANGED frames
          /\ stack' = rest /\ UNCHANGED tx
      BY <3>1, DoneTransition
    <3>3. UNCHANGED <<inbox, answered>> /\ phase = "final" /\ phase' = "idle"
      BY <1>1, <2>2, <2>4, <3>2, Phases, PhasesPrimed DEF inbox, answered, frames
    <3>4. Replies!Done
      BY <3>3 DEF Replies!Done, inbox, phase, answered
    <3>5. QED
      BY <3>4 DEF Refined, Replies!Next
  <2>5. QED
    BY <2>1, <2>3, <2>4
<1>5. QED
  BY <1>1, <1>2, <1>3, <1>4, PopFacts

\* Every behaviour of the slave is one that MeloReplies allows: no packet is
\* taken up twice or in the middle of a reply, and both halves of a reply are
\* about one request.
THEOREM SlaveImplementsReplies == Spec => RepliesSpec
<1>1. Init => Replies!Init
  BY Phases DEF Init, Replies!Init, inbox, phase, answered, Pending
<1>2. ASSUME IInv, [Next]_vars PROVE Refined
  <2>1. ASSUME NEW p \in Packets, Receive(p) PROVE Refined
    BY <1>2, <2>1, RefinedReceive
  <2>2. CASE TransmitComplete
    BY <1>2, <2>2, RefinedTransmitComplete
  <2>3. CASE Dispatch
    BY <1>2, <2>3, RefinedDispatch
  <2>4. CASE BackgroundCall \/ BackgroundReturn \/ UNCHANGED vars
    <3>1. UNCHANGED <<inbox, phase, answered>>
      BY <2>4 DEF BackgroundCall, BackgroundReturn, vars, inbox, phase, answered,
                  frames
    <3>2. QED
      BY <3>1 DEF Refined
  <2>5. QED
    BY <1>2, <2>1, <2>2, <2>3, <2>4 DEF Next
<1>3. Refined => [Replies!Next]_Replies!vars
  BY DEF Refined, Replies!vars, inbox, phase, answered
<1>4. QED
  BY <1>1, <1>2, <1>3, Invariant, PTL DEF Spec, RepliesSpec, Replies!Spec

(***************************************************************************)
(* The machines that airy generates.  That the calls of a transition come  *)
(* in the right order is a fact about two loops over numbers; what is open *)
(* between any two of them follows from it (Balance).                      *)
(***************************************************************************)

\* Induction on a set of numbers: the library's theorem has the property as an
\* operator parameter, a set has none.
LEMMA NatInd ==
  ASSUME NEW S, 0 \in S, \A n \in Nat : n \in S => n + 1 \in S
  PROVE  Nat \subseteq S
<1> DEFINE T == Nat \ S
           R == OpToRel(<, Nat)
<1> SUFFICES ASSUME T # {} PROVE FALSE
  OBVIOUS
<1>1. PICK x \in T : \A y \in T : ~ (<<y, x>> \in R)
  <2>1. IsWellFoundedOn(R, Nat) /\ T \subseteq Nat
    BY NatLessThanWellFounded
  <2> HIDE DEF T, R
  <2>2. QED BY <2>1, WFMin
<1>2. x \in Nat /\ x # 0
  OBVIOUS
<1>3. x - 1 \in Nat /\ (x - 1) + 1 = x /\ x - 1 < x
  BY <1>2
<1>4. x - 1 \in T
  BY <1>3
<1>5. <<x - 1, x>> \in R
  BY <1>2, <1>3 DEF OpToRel
<1>6. QED BY <1>1, <1>4, <1>5

------------------------------------------------------------------------------
(* The loops of _state_transition *)

Falling(q) == \A i, j \in 1 .. Len(q) : i < j => q[j] < q[i]
Rising(q)  == \A i, j \in 1 .. Len(q) : i < j => q[i] < q[j]

\* The members of q are those of S.
Lists(q, S) == \A s : s \in S <=> \E i \in 1 .. Len(q) : q[i] = s

\* One turn of each loop.
Fall(S, index, q) == (IF index \in S THEN <<index>> ELSE <<>>) \o q
Rise(S, index, q) == q \o (IF index \in S THEN <<index>> ELSE <<>>)

\* g is the function that downwards looks for, as far as n.
IsFall(g, S, n) ==
  g = [index \in 0 .. n |-> IF index = 0 THEN <<>> ELSE Fall(S, index, g[index - 1])]

\* The same for upwards.
IsRise(g, S, n) ==
  g = [index \in 0 .. n |-> IF index = 0 THEN <<>> ELSE Rise(S, index, g[index - 1])]

\* There is one, however many states there are.
LEMMA FallExists ==
  ASSUME NEW S
  PROVE  \A n \in Nat : \E g : IsFall(g, S, n)
<1> DEFINE T == {n \in Nat : \E g : IsFall(g, S, n)}
<1>1. 0 \in T
  <2> DEFINE g == [index \in 0 .. 0 |-> <<>>]
  <2>1. IsFall(g, S, 0)
    BY DEF IsFall
  <2>2. QED BY <2>1
<1>2. ASSUME NEW n \in Nat, n \in T PROVE n + 1 \in T
  <2>1. PICK g : IsFall(g, S, n)
    BY <1>2
  <2>2. PICK x : x = Fall(S, n + 1, g[n])
    OBVIOUS
  <2> DEFINE g2 == [index \in 0 .. n + 1 |-> IF index = n + 1 THEN x ELSE g[index]]
  <2>3. ASSUME NEW index \in 0 .. n + 1
        PROVE  g2[index] = IF index = 0 THEN <<>> ELSE Fall(S, index, g2[index - 1])
    <3>1. CASE index = n + 1
      <4>1. index # 0 /\ index - 1 = n /\ g2[n] = g[n] /\ g2[index] = x
        BY <3>1
      <4>2. QED BY <2>2, <3>1, <4>1
    <3>2. CASE index \in 1 .. n
      <4>1. g2[index] = g[index] /\ g2[index - 1] = g[index - 1]
        BY <3>2
      <4>2. g[index] = Fall(S, index, g[index - 1])
        BY <2>1, <3>2 DEF IsFall
      <4>3. QED BY <3>2, <4>1, <4>2
    <3>3. CASE index = 0
      BY <2>1, <3>3 DEF IsFall
    <3>4. QED BY <3>1, <3>2, <3>3
  <2>4. IsFall(g2, S, n + 1)
    <3> HIDE DEF g2
    <3>1. g2 = [index \in 0 .. n + 1 |-> g2[index]]
      BY DEF g2
    <3>2. QED BY <2>3, <3>1 DEF IsFall
  <2>5. QED BY <2>4
<1> HIDE DEF T
<1>3. Nat \subseteq T
  BY <1>1, <1>2, NatInd
<1>4. QED BY <1>3 DEF T

\* And one for the loop upwards.
LEMMA RiseExists ==
  ASSUME NEW S
  PROVE  \A n \in Nat : \E g : IsRise(g, S, n)
<1> DEFINE T == {n \in Nat : \E g : IsRise(g, S, n)}
<1>1. 0 \in T
  <2> DEFINE g == [index \in 0 .. 0 |-> <<>>]
  <2>1. IsRise(g, S, 0)
    BY DEF IsRise
  <2>2. QED BY <2>1
<1>2. ASSUME NEW n \in Nat, n \in T PROVE n + 1 \in T
  <2>1. PICK g : IsRise(g, S, n)
    BY <1>2
  <2>2. PICK x : x = Rise(S, n + 1, g[n])
    OBVIOUS
  <2> DEFINE g2 == [index \in 0 .. n + 1 |-> IF index = n + 1 THEN x ELSE g[index]]
  <2>3. ASSUME NEW index \in 0 .. n + 1
        PROVE  g2[index] = IF index = 0 THEN <<>> ELSE Rise(S, index, g2[index - 1])
    <3>1. CASE index = n + 1
      <4>1. index # 0 /\ index - 1 = n /\ g2[n] = g[n] /\ g2[index] = x
        BY <3>1
      <4>2. QED BY <2>2, <3>1, <4>1
    <3>2. CASE index \in 1 .. n
      <4>1. g2[index] = g[index] /\ g2[index - 1] = g[index - 1]
        BY <3>2
      <4>2. g[index] = Rise(S, index, g[index - 1])
        BY <2>1, <3>2 DEF IsRise
      <4>3. QED BY <3>2, <4>1, <4>2
    <3>3. CASE index = 0
      BY <2>1, <3>3 DEF IsRise
    <3>4. QED BY <3>1, <3>2, <3>3
  <2>4. IsRise(g2, S, n + 1)
    <3> HIDE DEF g2
    <3>1. g2 = [index \in 0 .. n + 1 |-> g2[index]]
      BY DEF g2
    <3>2. QED BY <2>3, <3>1 DEF IsRise
  <2>5. QED BY <2>4
<1> HIDE DEF T
<1>3. Nat \subseteq T
  BY <1>1, <1>2, NatInd
<1>4. QED BY <1>3 DEF T

\* The parts of two sequences that are put together.
LEMMA Joined ==
  ASSUME NEW T, NEW q \in Seq(T), NEW r \in Seq(T)
  PROVE  /\ q \o r \in Seq(T)
         /\ Len(q \o r) = Len(q) + Len(r)
         /\ \A i \in 1 .. Len(q) : (q \o r)[i] = q[i]
         /\ \A i \in 1 .. Len(r) : (q \o r)[Len(q) + i] = r[i]
OBVIOUS

\* A larger member in front of a falling sequence.
LEMMA InFront ==
  ASSUME NEW x \in Nat, NEW q \in Seq(Nat), NEW S, Lists(q, S), Falling(q),
         \A s \in S : s < x
  PROVE  /\ <<x>> \o q \in Seq(Nat)
         /\ Falling(<<x>> \o q)
         /\ Lists(<<x>> \o q, S \cup {x})
<1>1. PICK k \in Nat : k = Len(q)
  OBVIOUS
<1>2. PICK r : r = <<x>> \o q
  OBVIOUS
<1>3. <<x>> \in Seq(Nat) /\ Len(<<x>>) = 1
      /\ <<x>>[1] = x
  OBVIOUS
<1>4. /\ r \in Seq(Nat) /\ Len(r) = k + 1
      /\ r[1] = x /\ \A i \in 1 .. k : r[1 + i] = q[i]
  BY <1>1, <1>2, <1>3, Joined
<1>5. \A i \in 1 .. k : q[i] \in Nat /\ q[i] < x
  BY <1>1 DEF Lists
<1>6. Falling(r)
  <2> SUFFICES ASSUME NEW i \in 1 .. k + 1, NEW j \in 1 .. k + 1, i < j PROVE r[j] < r[i]
    BY <1>4 DEF Falling
  <2>1. j - 1 \in 1 .. k /\ r[j] = q[j - 1]
    BY <1>4
  <2>2. CASE i = 1
    BY <1>4, <1>5, <2>1, <2>2
  <2>3. CASE i # 1
    <3>1. i - 1 \in 1 .. k /\ r[i] = q[i - 1] /\ i - 1 < j - 1
      BY <1>4, <2>3
    <3>2. QED BY <1>1, <2>1, <3>1 DEF Falling
  <2>4. QED BY <2>2, <2>3
<1>7. Lists(r, S \cup {x})
  <2> SUFFICES ASSUME NEW s
               PROVE  s \in S \cup {x} <=> \E i \in 1 .. k + 1 : r[i] = s
    BY <1>4 DEF Lists
  <2>1. s \in S <=> \E i \in 1 .. k : q[i] = s
    BY <1>1 DEF Lists
  <2>2. ASSUME NEW i \in 1 .. k + 1, r[i] = s PROVE s \in S \cup {x}
    <3>1. CASE i = 1
      BY <1>4, <2>2, <3>1
    <3>2. CASE i # 1
      <4>1. i - 1 \in 1 .. k /\ q[i - 1] = s
        BY <1>4, <2>2, <3>2
      <4>2. QED BY <2>1, <4>1
    <3>3. QED BY <3>1, <3>2
  <2>3. ASSUME s \in S PROVE \E i \in 1 .. k + 1 : r[i] = s
    <3>1. PICK i \in 1 .. k : q[i] = s
      BY <2>1, <2>3
    <3>2. 1 + i \in 1 .. k + 1 /\ r[1 + i] = s
      BY <1>4, <3>1
    <3>3. QED BY <3>2
  <2>4. 1 \in 1 .. k + 1
    OBVIOUS
  <2>5. QED BY <1>4, <2>2, <2>3, <2>4
<1>8. QED BY <1>2, <1>4, <1>6, <1>7

\* A larger member behind a rising one.
LEMMA Behind ==
  ASSUME NEW x \in Nat, NEW q \in Seq(Nat), NEW S, Lists(q, S), Rising(q),
         \A s \in S : s < x
  PROVE  /\ q \o <<x>> \in Seq(Nat)
         /\ Rising(q \o <<x>>)
         /\ Lists(q \o <<x>>, S \cup {x})
<1>1. PICK k \in Nat : k = Len(q)
  OBVIOUS
<1>2. PICK r : r = q \o <<x>>
  OBVIOUS
<1>3. <<x>> \in Seq(Nat) /\ Len(<<x>>) = 1
      /\ <<x>>[1] = x
  OBVIOUS
<1>4. /\ r \in Seq(Nat) /\ Len(r) = k + 1
      /\ r[k + 1] = x /\ \A i \in 1 .. k : r[i] = q[i]
  BY <1>1, <1>2, <1>3, Joined
<1>5. \A i \in 1 .. k : q[i] \in Nat /\ q[i] < x
  BY <1>1 DEF Lists
<1>6. Rising(r)
  <2> SUFFICES ASSUME NEW i \in 1 .. k + 1, NEW j \in 1 .. k + 1, i < j PROVE r[i] < r[j]
    BY <1>4 DEF Rising
  <2>1. i \in 1 .. k /\ r[i] = q[i]
    BY <1>4
  <2>2. CASE j = k + 1
    BY <1>4, <1>5, <2>1, <2>2
  <2>3. CASE j # k + 1
    <3>1. j \in 1 .. k /\ r[j] = q[j]
      BY <1>4, <2>3
    <3>2. QED BY <1>1, <2>1, <3>1 DEF Rising
  <2>4. QED BY <2>2, <2>3
<1>7. Lists(r, S \cup {x})
  <2> SUFFICES ASSUME NEW s
               PROVE  s \in S \cup {x} <=> \E i \in 1 .. k + 1 : r[i] = s
    BY <1>4 DEF Lists
  <2>1. s \in S <=> \E i \in 1 .. k : q[i] = s
    BY <1>1 DEF Lists
  <2>2. ASSUME NEW i \in 1 .. k + 1, r[i] = s PROVE s \in S \cup {x}
    <3>1. CASE i = k + 1
      BY <1>4, <2>2, <3>1
    <3>2. CASE i # k + 1
      <4>1. i \in 1 .. k /\ q[i] = s
        BY <1>4, <2>2, <3>2
      <4>2. QED BY <2>1, <4>1
    <3>3. QED BY <3>1, <3>2
  <2>3. ASSUME s \in S PROVE \E i \in 1 .. k + 1 : r[i] = s
    <3>1. PICK i \in 1 .. k : q[i] = s
      BY <2>1, <2>3
    <3>2. i \in 1 .. k + 1 /\ r[i] = s
      BY <1>4, <3>1
    <3>3. QED BY <3>2
  <2>4. k + 1 \in 1 .. k + 1
    OBVIOUS
  <2>5. QED BY <1>4, <2>2, <2>3, <2>4
<1>8. QED BY <1>2, <1>4, <1>6, <1>7

------------------------------------------------------------------------------
\* What the loop downwards returns.
LEMMA Downwards ==
  ASSUME NEW S, NEW n \in Nat
  PROVE  /\ downwards(S, n) \in Seq(Nat)
         /\ Falling(downwards(S, n))
         /\ Lists(downwards(S, n), S \cap 1 .. n)
<1> DEFINE g == CHOOSE h : IsFall(h, S, n)
           Good(m) == /\ g[m] \in Seq(Nat) /\ Falling(g[m])
                      /\ Lists(g[m], S \cap 1 .. m)
           T == {m \in Nat : m <= n => Good(m)}
<1>1. IsFall(g, S, n)
  BY FallExists
<1>2. downwards(S, n) = g[n]
  BY DEF downwards, IsFall, Fall
<1> HIDE DEF g
<1>3. g[0] = <<>> /\ \A m \in 1 .. n : g[m] = Fall(S, m, g[m - 1])
  BY <1>1 DEF IsFall
<1>4. 0 \in T
  <2>1. g[0] = <<>> /\ S \cap 1 .. 0 = {}
    BY <1>3
  <2>2. <<>> \in Seq(Nat) /\ Len(<<>>) = 0 /\ 1 .. 0 = {}
    OBVIOUS
  <2>3. Falling(<<>>) /\ Lists(<<>>, {})
    BY <2>2 DEF Falling, Lists
  <2>4. Good(0)
    BY <2>1, <2>2, <2>3
  <2>5. QED BY <2>4
<1>5. ASSUME NEW m \in Nat, m \in T PROVE m + 1 \in T
  <2> SUFFICES ASSUME m + 1 <= n PROVE Good(m + 1)
    OBVIOUS
  <2>1. Good(m)
    BY <1>5
  <2>2. m + 1 \in 1 .. n /\ (m + 1) - 1 = m
    OBVIOUS
  <2>3. g[m + 1] = Fall(S, m + 1, g[m])
    BY <1>3, <2>2
  <2> HIDE DEF T
  <2>4. CASE m + 1 \in S
    <3>1. g[m + 1] = <<m + 1>> \o g[m]
      BY <2>3, <2>4 DEF Fall
    <3>2. (S \cap 1 .. m) \cup {m + 1} = S \cap 1 .. m + 1
      BY <2>4
    <3>3. m + 1 \in Nat /\ \A s \in S \cap 1 .. m : s < m + 1
      OBVIOUS
    <3>4. QED BY <2>1, <3>1, <3>2, <3>3, InFront
  <2>5. CASE m + 1 \notin S
    <3>1. g[m + 1] = <<>> \o g[m]
      BY <2>3, <2>5 DEF Fall
    <3>2. g[m + 1] = g[m]
      BY <2>1, <3>1
    <3>3. S \cap 1 .. m = S \cap 1 .. m + 1
      BY <2>5
    <3>4. QED BY <2>1, <3>2, <3>3
  <2>6. QED BY <2>4, <2>5
<1> HIDE DEF T
<1>6. Nat \subseteq T
  BY <1>4, <1>5, NatInd
<1>7. Good(n)
  <2>1. n \in T /\ n <= n
    BY <1>6
  <2> HIDE DEF Good
  <2>2. QED BY <2>1 DEF T
<1>8. QED BY <1>2, <1>7

\* And the loop upwards.
LEMMA Upwards ==
  ASSUME NEW S, NEW n \in Nat
  PROVE  /\ upwards(S, n) \in Seq(Nat)
         /\ Rising(upwards(S, n))
         /\ Lists(upwards(S, n), S \cap 1 .. n)
<1> DEFINE g == CHOOSE h : IsRise(h, S, n)
           Good(m) == /\ g[m] \in Seq(Nat) /\ Rising(g[m])
                      /\ Lists(g[m], S \cap 1 .. m)
           T == {m \in Nat : m <= n => Good(m)}
<1>1. IsRise(g, S, n)
  BY RiseExists
<1>2. upwards(S, n) = g[n]
  BY DEF upwards, IsRise, Rise
<1> HIDE DEF g
<1>3. g[0] = <<>> /\ \A m \in 1 .. n : g[m] = Rise(S, m, g[m - 1])
  BY <1>1 DEF IsRise
<1>4. 0 \in T
  <2>1. g[0] = <<>> /\ S \cap 1 .. 0 = {}
    BY <1>3
  <2>2. <<>> \in Seq(Nat) /\ Len(<<>>) = 0 /\ 1 .. 0 = {}
    OBVIOUS
  <2>3. Rising(<<>>) /\ Lists(<<>>, {})
    BY <2>2 DEF Rising, Lists
  <2>4. Good(0)
    BY <2>1, <2>2, <2>3
  <2>5. QED BY <2>4
<1>5. ASSUME NEW m \in Nat, m \in T PROVE m + 1 \in T
  <2> SUFFICES ASSUME m + 1 <= n PROVE Good(m + 1)
    OBVIOUS
  <2>1. Good(m)
    BY <1>5
  <2>2. m + 1 \in 1 .. n /\ (m + 1) - 1 = m
    OBVIOUS
  <2>3. g[m + 1] = Rise(S, m + 1, g[m])
    BY <1>3, <2>2
  <2> HIDE DEF T
  <2>4. CASE m + 1 \in S
    <3>1. g[m + 1] = g[m] \o <<m + 1>>
      BY <2>3, <2>4 DEF Rise
    <3>2. (S \cap 1 .. m) \cup {m + 1} = S \cap 1 .. m + 1
      BY <2>4
    <3>3. m + 1 \in Nat /\ \A s \in S \cap 1 .. m : s < m + 1
      OBVIOUS
    <3>4. QED BY <2>1, <3>1, <3>2, <3>3, Behind
  <2>5. CASE m + 1 \notin S
    <3>1. g[m + 1] = g[m] \o <<>>
      BY <2>3, <2>5 DEF Rise
    <3>2. g[m + 1] = g[m]
      BY <2>1, <3>1
    <3>3. S \cap 1 .. m = S \cap 1 .. m + 1
      BY <2>5
    <3>4. QED BY <2>1, <3>2, <3>3
  <2>6. QED BY <2>4, <2>5
<1> HIDE DEF T
<1>6. Nat \subseteq T
  BY <1>4, <1>5, NatInd
<1>7. Good(n)
  <2>1. n \in T /\ n <= n
    BY <1>6
  <2> HIDE DEF Good
  <2>2. QED BY <2>1 DEF T
<1>8. QED BY <1>2, <1>7

------------------------------------------------------------------------------
(* Charts *)

\* g is the function that Ancestors looks for, as far as state n.
IsAbove(g, p, n) ==
  g = [t \in 0 .. n |-> IF p[t] = t THEN {} ELSE {p[t]} \cup g[p[t]]]

\* There is one, as parents have smaller numbers.
LEMMA AboveExists ==
  ASSUME NEW p \in Charts
  PROVE  \A n \in Nat : n <= Top => \E g : IsAbove(g, p, n)
<1> DEFINE T == {n \in Nat : n <= Top => \E g : IsAbove(g, p, n)}
<1>0. p \in [States -> States] /\ (\A s \in States : p[s] <= s) /\ Top \in Nat
  BY TopAssumption DEF Charts
<1>1. 0 \in T
  <2>1. p[0] = 0
    BY <1>0 DEF States
  <2> DEFINE g == [t \in 0 .. 0 |-> {}]
  <2>2. IsAbove(g, p, 0)
    BY <2>1 DEF IsAbove
  <2>3. QED BY <2>2
<1>2. ASSUME NEW n \in Nat, n \in T PROVE n + 1 \in T
  <2> SUFFICES ASSUME n + 1 <= Top PROVE \E g : IsAbove(g, p, n + 1)
    OBVIOUS
  <2>1. PICK g : IsAbove(g, p, n)
    BY <1>0, <1>2
  <2>2. PICK x : x = IF p[n + 1] = n + 1 THEN {} ELSE {p[n + 1]} \cup g[p[n + 1]]
    OBVIOUS
  <2>3. \A t \in 0 .. n + 1 : p[t] \in 0 .. t
    BY <1>0 DEF States
  <2> DEFINE g2 == [t \in 0 .. n + 1 |-> IF t = n + 1 THEN x ELSE g[t]]
  <2>4. ASSUME NEW t \in 0 .. n + 1
        PROVE  g2[t] = IF p[t] = t THEN {} ELSE {p[t]} \cup g2[p[t]]
    <3>1. CASE t = n + 1
      <4>1. g2[t] = x
        BY <3>1
      <4>2. p[t] # t => g2[p[t]] = g[p[t]]
        BY <2>3, <3>1
      <4>3. QED BY <2>2, <3>1, <4>1, <4>2
    <3>2. CASE t \in 0 .. n
      <4>1. g2[t] = g[t] /\ g2[p[t]] = g[p[t]]
        BY <2>3, <3>2
      <4>2. g[t] = IF p[t] = t THEN {} ELSE {p[t]} \cup g[p[t]]
        BY <2>1, <3>2 DEF IsAbove
      <4>3. QED BY <4>1, <4>2
    <3>3. QED BY <3>1, <3>2
  <2>5. IsAbove(g2, p, n + 1)
    <3> HIDE DEF g2
    <3>1. g2 = [t \in 0 .. n + 1 |-> g2[t]]
      BY DEF g2
    <3>2. QED BY <2>4, <3>1 DEF IsAbove
  <2>6. QED BY <2>5
<1> HIDE DEF T
<1>3. Nat \subseteq T
  BY <1>1, <1>2, NatInd
<1>4. QED BY <1>3 DEF T

\* Who encloses a state: its parent and who encloses the parent.
LEMMA Above ==
  ASSUME NEW p \in Charts, NEW s \in States
  PROVE  /\ p[s] = s => Ancestors(p, s) = {}
         /\ p[s] # s => Ancestors(p, s) = {p[s]} \cup Ancestors(p, p[s])
<1> DEFINE g == CHOOSE h : IsAbove(h, p, Top)
<1>1. Top \in Nat /\ p[s] \in States
  BY TopAssumption DEF Charts
<1>2. IsAbove(g, p, Top)
  BY <1>1, AboveExists
<1>3. \A t \in States : Ancestors(p, t) = g[t]
  BY DEF Ancestors, IsAbove, States
<1> HIDE DEF g
<1>4. g[s] = IF p[s] = s THEN {} ELSE {p[s]} \cup g[p[s]]
  BY <1>2 DEF IsAbove, States
<1>5. QED BY <1>1, <1>3, <1>4

\* The states around s have smaller numbers than s, state 0 is not among them,
\* and with a state its parent is.
LEMMA Around ==
  ASSUME NEW p \in Charts, NEW s \in States
  PROVE  /\ Ancestors(p, s) \subseteq 1 .. s - 1
         /\ p[s] \in States /\ (p[s] = s \/ p[s] \in Ancestors(p, s))
         /\ \A t \in Ancestors(p, s) : p[t] = t \/ p[t] \in Ancestors(p, s)
<1> DEFINE Good(t) == /\ Ancestors(p, t) \subseteq 1 .. t - 1
                      /\ \A u \in Ancestors(p, t) : p[u] = u \/ p[u] \in Ancestors(p, t)
           T == {n \in Nat : \A t \in States : t <= n => Good(t)}
<1>0. /\ p \in [States -> States] /\ Top \in Nat
      /\ \A t \in States : p[t] <= t /\ (p[t] = 0 => t = 0)
  BY TopAssumption DEF Charts
<1>1. 0 \in T
  <2>1. 0 \in States /\ p[0] = 0
    BY <1>0 DEF States
  <2>2. Ancestors(p, 0) = {}
    BY <2>1, Above
  <2>3. \A t \in States : t <= 0 => t = 0
    BY <1>0 DEF States
  <2>4. QED BY <2>2, <2>3
<1>2. ASSUME NEW n \in Nat, n \in T PROVE n + 1 \in T
  <2>0. SUFFICES ASSUME NEW t \in States, t = n + 1 PROVE Good(t)
    <3> HIDE DEF Good
    <3>1. \A t \in States : t <= n + 1 => t <= n \/ t = n + 1
      BY <1>0 DEF States
    <3>2. QED BY <1>2, <2>0, <3>1
  <2>1. CASE p[t] = t
    BY <2>1, Above
  <2>2. CASE p[t] # t
    <3>1. Ancestors(p, t) = {p[t]} \cup Ancestors(p, p[t])
      BY <2>2, Above
    <3>2. p[t] \in States /\ p[t] \in 1 .. n /\ t = n + 1
      BY <1>0, <2>0, <2>2 DEF States
    <3>3. Good(p[t])
      BY <1>2, <3>2
    <3>4. p[p[t]] = p[t] \/ p[p[t]] \in Ancestors(p, p[t])
      BY <3>2, Above
    <3>5. Ancestors(p, p[t]) \subseteq 1 .. n
      BY <3>2, <3>3
    <3>6. QED BY <3>1, <3>2, <3>3, <3>4, <3>5
  <2>3. QED BY <2>1, <2>2
<1> HIDE DEF T
<1>3. Nat \subseteq T
  BY <1>1, <1>2, NatInd
<1>4. Good(s)
  <2> HIDE DEF Good
  <2>1. s \in Nat /\ s \in T /\ s <= s
    BY <1>0, <1>3 DEF States
  <2>2. QED BY <2>1 DEF T
<1>5. p[s] \in States /\ (p[s] = s \/ p[s] \in Ancestors(p, s))
  BY <1>0, Above
<1>6. QED BY <1>4, <1>5

\* The numbers tell which parents a transition leaves.
LEMMA Crossed ==
  ASSUME NEW p \in Charts, NEW s \in States, NEW t \in States
  PROVE  crossed(Numbers[p], s, t) = Ancestors(p, s) \ Ancestors(p, t)
<1>1. \A u, v \in States : is_parent(Numbers[p], u, v) <=> v \in Ancestors(p, u)
  <2> SUFFICES ASSUME NEW u \in States, NEW v \in States
               PROVE  is_parent(Numbers[p], u, v) <=> v \in Ancestors(p, u)
    OBVIOUS
  <2>1. PICK a : a = Numbers[p][u]
    OBVIOUS
  <2>2. PICK b : b = Numbers[p][v]
    OBVIOUS
  <2>3. Numbers[p] \in [States -> [left : Nat, right : Nat]]
    BY NumbersAssumption
  <2>4. a.right \in Nat /\ b.right \in Nat
    BY <2>1, <2>2, <2>3
  <2>5. v \in Ancestors(p, u) <=> b.left < a.left /\ a.right < b.right
    BY <2>1, <2>2, NumbersAssumption DEF Nests
  <2>6. QED BY <2>1, <2>2, <2>4, <2>5 DEF is_parent
<1>2. Ancestors(p, s) \subseteq 1 .. s - 1
  BY Around
<1>3. s \in 0 .. Top /\ 1 .. s \subseteq States /\ 1 .. s - 1 \subseteq 1 .. s
  BY TopAssumption DEF States
<1>4. \A u \in 1 .. s : u \in crossed(Numbers[p], s, t) <=>
                          u \in Ancestors(p, s) \ Ancestors(p, t)
  BY <1>1, <1>3 DEF crossed
<1>5. crossed(Numbers[p], s, t) \subseteq 1 .. s
  BY DEF crossed
<1>6. QED BY <1>2, <1>3, <1>4, <1>5

------------------------------------------------------------------------------
(* The calls of a transition *)

Calls == [kind : {"exit", "entry"}, state : States]

\* Exits before entries, exits from within, entries from without.
Ordered(q) ==
  \A i, j \in 1 .. Len(q) : i < j =>
    \/ q[i].kind = "exit" /\ q[j].kind = "entry"
    \/ q[i].kind = "exit" /\ q[j].kind = "exit" /\ q[j].state < q[i].state
    \/ q[i].kind = "entry" /\ q[j].kind = "entry" /\ q[i].state < q[j].state

\* s is still to be exited, or entered.
Due(q, kind, s) == \E i \in 1 .. Len(q) : q[i] = [kind |-> kind, state |-> s]

\* What a transition from s to t closes and opens, and what it leaves open.
Closed(p, s, t) == (Ancestors(p, s) \ Ancestors(p, t)) \cup {s}
Opened(p, s, t) == (Ancestors(p, t) \ Ancestors(p, s)) \cup {t}
Shared(p, s, t) == Ancestors(p, s) \cap Ancestors(p, t)

\* A sequence that lists states is one of states.
LEMMA OfStates ==
  ASSUME NEW q \in Seq(Nat), NEW S, Lists(q, S), S \subseteq States
  PROVE  q \in Seq(States)
<1>1. PICK k \in Nat : k = Len(q)
  OBVIOUS
<1>2. \A i \in 1 .. k : q[i] \in States
  BY <1>1 DEF Lists
<1>3. QED BY <1>1, <1>2

\* The exits of a transition are those of what it closes, from within.
LEMMA ExitCalls ==
  ASSUME NEW p \in Charts, NEW s \in States, NEW t \in States
  PROVE  LET q == exit_calls(Numbers[p], s, t) IN
         q \in Seq(States) /\ Falling(q) /\ Lists(q, Closed(p, s, t))
<1>1. PICK S : S = Ancestors(p, s) \ Ancestors(p, t)
  OBVIOUS
<1>2. PICK q : q = downwards(S, s)
  OBVIOUS
<1>3. s \in Nat /\ Top \in Nat /\ s <= Top
  BY TopAssumption DEF States
<1>4. crossed(Numbers[p], s, t) = S /\ S \subseteq 1 .. s - 1
  BY <1>1, Crossed, Around
<1>5. (\A u \in S : u < s) /\ S \cap (1 .. s) = S
  <2>1. \A u \in S : u \in 1 .. s /\ u < s
    BY <1>3, <1>4
  <2>2. QED BY <2>1
<1>6. q \in Seq(Nat) /\ Falling(q) /\ Lists(q, S)
  BY <1>2, <1>3, <1>5, Downwards
<1>7. PICK r : r = <<s>> \o q
  OBVIOUS
<1>8. r \in Seq(Nat) /\ Falling(r) /\ Lists(r, S \cup {s})
  BY <1>3, <1>5, <1>6, <1>7, InFront
<1>9. S \cup {s} = Closed(p, s, t) /\ S \cup {s} \subseteq States
  BY <1>1, <1>3, <1>4 DEF Closed, States
<1>10. r \in Seq(States)
  BY <1>8, <1>9, OfStates
<1>11. exit_calls(Numbers[p], s, t) = r
  BY <1>2, <1>4, <1>7 DEF exit_calls
<1>12. QED BY <1>8, <1>9, <1>10, <1>11

\* The entries are those of what it opens, from without.
LEMMA EntryCalls ==
  ASSUME NEW p \in Charts, NEW s \in States, NEW t \in States
  PROVE  LET q == entry_calls(Numbers[p], s, t) IN
         q \in Seq(States) /\ Rising(q) /\ Lists(q, Opened(p, s, t))
<1>1. PICK S : S = Ancestors(p, t) \ Ancestors(p, s)
  OBVIOUS
<1>2. PICK q : q = upwards(S, t)
  OBVIOUS
<1>3. t \in Nat /\ Top \in Nat /\ t <= Top
  BY TopAssumption DEF States
<1>4. crossed(Numbers[p], t, s) = S /\ S \subseteq 1 .. t - 1
  BY <1>1, Crossed, Around
<1>5. (\A u \in S : u < t) /\ S \cap (1 .. t) = S
  <2>1. \A u \in S : u \in 1 .. t /\ u < t
    BY <1>3, <1>4
  <2>2. QED BY <2>1
<1>6. q \in Seq(Nat) /\ Rising(q) /\ Lists(q, S)
  BY <1>2, <1>3, <1>5, Upwards
<1>7. PICK r : r = q \o <<t>>
  OBVIOUS
<1>8. r \in Seq(Nat) /\ Rising(r) /\ Lists(r, S \cup {t})
  BY <1>3, <1>5, <1>6, <1>7, Behind
<1>9. S \cup {t} = Opened(p, s, t) /\ S \cup {t} \subseteq States
  BY <1>1, <1>3, <1>4 DEF Opened, States
<1>10. r \in Seq(States)
  BY <1>8, <1>9, OfStates
<1>11. entry_calls(Numbers[p], s, t) = r
  BY <1>2, <1>4, <1>7 DEF entry_calls
<1>12. QED BY <1>8, <1>9, <1>10, <1>11

\* The calls of a transition: each once, and in order.
LEMMA TransitionCalls ==
  ASSUME NEW p \in Charts, NEW s \in States, NEW t \in States
  PROVE  LET q == calls("exit", exit_calls(Numbers[p], s, t))
                    \o calls("entry", entry_calls(Numbers[p], s, t))
         IN /\ q \in Seq(Calls) /\ q # <<>> /\ Ordered(q)
            /\ \A u : Due(q, "exit", u) <=> u \in Closed(p, s, t)
            /\ \A u : Due(q, "entry", u) <=> u \in Opened(p, s, t)
<1>1. PICK a : a = exit_calls(Numbers[p], s, t)
  OBVIOUS
<1>2. PICK b : b = entry_calls(Numbers[p], s, t)
  OBVIOUS
<1>3. /\ a \in Seq(States) /\ Falling(a) /\ Lists(a, Closed(p, s, t))
      /\ b \in Seq(States) /\ Rising(b) /\ Lists(b, Opened(p, s, t))
  BY <1>1, <1>2, ExitCalls, EntryCalls
<1>4. PICK m \in Nat : m = Len(a)
  BY <1>3
<1>5. PICK n \in Nat : n = Len(b)
  BY <1>3
<1>6. PICK c : c = calls("exit", a)
  OBVIOUS
<1>7. PICK d : d = calls("entry", b)
  OBVIOUS
<1>8. /\ c \in Seq(Calls) /\ Len(c) = m
      /\ \A i \in 1 .. m : c[i] = [kind |-> "exit", state |-> a[i]]
  BY <1>3, <1>4, <1>6 DEF calls, Calls
<1>9. /\ d \in Seq(Calls) /\ Len(d) = n
      /\ \A i \in 1 .. n : d[i] = [kind |-> "entry", state |-> b[i]]
  BY <1>3, <1>5, <1>7 DEF calls, Calls
<1>10. PICK q : q = c \o d
  OBVIOUS
<1>11. /\ q \in Seq(Calls) /\ Len(q) = m + n
       /\ \A i \in 1 .. m : q[i] = c[i]
       /\ \A i \in 1 .. n : q[m + i] = d[i]
  <2>1. /\ c \o d \in Seq(Calls) /\ Len(c \o d) = Len(c) + Len(d)
        /\ \A i \in 1 .. Len(c) : (c \o d)[i] = c[i]
        /\ \A i \in 1 .. Len(d) : (c \o d)[Len(c) + i] = d[i]
    <3>1. c \in Seq(Calls) /\ d \in Seq(Calls)
      BY <1>8, <1>9
    <3>2. QED BY <3>1
  <2>2. QED BY <1>8, <1>9, <1>10, <2>1
<1>12. /\ \A i \in 1 .. m : q[i].kind = "exit" /\ q[i].state = a[i]
       /\ \A i \in m + 1 .. m + n : /\ i - m \in 1 .. n
                                     /\ q[i].kind = "entry" /\ q[i].state = b[i - m]
  <2>1. ASSUME NEW i \in 1 .. m PROVE q[i].kind = "exit" /\ q[i].state = a[i]
    <3>1. q[i] = [kind |-> "exit", state |-> a[i]]
      BY <1>8, <1>11
    <3>2. QED BY <3>1
  <2>2. ASSUME NEW i \in m + 1 .. m + n
        PROVE  i - m \in 1 .. n /\ q[i].kind = "entry" /\ q[i].state = b[i - m]
    <3>1. i - m \in 1 .. n /\ m + (i - m) = i
      OBVIOUS
    <3>2. q[i] = [kind |-> "entry", state |-> b[i - m]]
      BY <1>9, <1>11, <3>1
    <3>3. QED BY <3>1, <3>2
  <2>3. QED BY <2>1, <2>2
<1>13. Ordered(q)
  <2> SUFFICES ASSUME NEW i \in 1 .. m + n, NEW j \in 1 .. m + n, i < j
               PROVE  \/ q[i].kind = "exit" /\ q[j].kind = "entry"
                      \/ /\ q[i].kind = "exit" /\ q[j].kind = "exit"
                         /\ q[j].state < q[i].state
                      \/ /\ q[i].kind = "entry" /\ q[j].kind = "entry"
                         /\ q[i].state < q[j].state
    BY <1>11 DEF Ordered
  <2>1. CASE j <= m
    <3>1. i \in 1 .. m /\ j \in 1 .. m
      BY <2>1
    <3>2. a[j] < a[i]
      BY <1>3, <1>4, <3>1 DEF Falling
    <3>3. QED BY <1>12, <3>1, <3>2
  <2>2. CASE i <= m /\ m < j
    <3>1. i \in 1 .. m /\ j \in m + 1 .. m + n
      BY <2>2
    <3>2. QED BY <1>12, <3>1
  <2>3. CASE m < i
    <3>1. i \in m + 1 .. m + n /\ j \in m + 1 .. m + n
      BY <2>3
    <3>2. i - m \in 1 .. n /\ j - m \in 1 .. n /\ i - m < j - m
      BY <3>1
    <3>3. b[i - m] < b[j - m]
      BY <1>3, <1>5, <3>2 DEF Rising
    <3>4. QED BY <1>12, <3>1, <3>3
  <2>4. QED BY <2>1, <2>2, <2>3
<1>14. ASSUME NEW u PROVE Due(q, "exit", u) <=> u \in Closed(p, s, t)
  <2>1. u \in Closed(p, s, t) <=> \E i \in 1 .. m : a[i] = u
    BY <1>3, <1>4 DEF Lists
  <2>2. ASSUME NEW i \in 1 .. m + n, q[i] = [kind |-> "exit", state |-> u]
        PROVE  \E j \in 1 .. m : a[j] = u
    <3>1. q[i].kind = "exit" /\ q[i].state = u
      BY <2>2
    <3>2. i \in 1 .. m \/ i \in m + 1 .. m + n
      OBVIOUS
    <3>3. QED BY <1>12, <3>1, <3>2
  <2>3. ASSUME NEW i \in 1 .. m, a[i] = u
        PROVE  i \in 1 .. m + n /\ q[i] = [kind |-> "exit", state |-> u]
    BY <1>8, <1>11, <2>3
  <2>4. QED BY <1>11, <2>1, <2>2, <2>3 DEF Due
<1>15. ASSUME NEW u PROVE Due(q, "entry", u) <=> u \in Opened(p, s, t)
  <2>1. u \in Opened(p, s, t) <=> \E i \in 1 .. n : b[i] = u
    BY <1>3, <1>5 DEF Lists
  <2>2. ASSUME NEW i \in 1 .. m + n, q[i] = [kind |-> "entry", state |-> u]
        PROVE  \E j \in 1 .. n : b[j] = u
    <3>1. q[i].kind = "entry" /\ q[i].state = u
      BY <2>2
    <3>2. i \in 1 .. m \/ i \in m + 1 .. m + n
      OBVIOUS
    <3>3. QED BY <1>12, <3>1, <3>2
  <2>3. ASSUME NEW i \in 1 .. n, b[i] = u
        PROVE  m + i \in 1 .. m + n /\ q[m + i] = [kind |-> "entry", state |-> u]
    BY <1>9, <1>11, <2>3
  <2>4. QED BY <1>11, <2>1, <2>2, <2>3 DEF Due
<1>16. q # <<>>
  <2>1. s \in Closed(p, s, t)
    BY DEF Closed
  <2>2. PICK i \in 1 .. Len(q) : TRUE
    BY <1>14, <2>1 DEF Due
  <2>3. QED BY <1>11, <2>2
<1>17. QED BY <1>1, <1>2, <1>6, <1>7, <1>10, <1>11, <1>13, <1>14, <1>15, <1>16

------------------------------------------------------------------------------
(* The inductive invariant *)

\* What is open: the parents that both ends share, what is still to be exited, and
\* what has been entered.  What is to be exited is the outer part of what the
\* transition closes, what is to be entered the inner part of what it opens.
Balance(p, s, t, q, open) ==
  /\ Ordered(q)
  /\ \A u : Due(q, "exit", u) => u \in Closed(p, s, t)
  /\ \A u : Due(q, "entry", u) => u \in Opened(p, s, t)
  /\ \A u, v : Due(q, "exit", u) /\ v \in Closed(p, s, t) /\ v < u => Due(q, "exit", v)
  /\ \A u, v : Due(q, "entry", u) /\ v \in Opened(p, s, t) /\ u < v => Due(q, "entry", v)
  /\ \A u, v : Due(q, "exit", u) /\ v \in Opened(p, s, t) => Due(q, "entry", v)
  /\ \A u : u \in open <=> \/ u \in Shared(p, s, t)
                           \/ Due(q, "exit", u)
                           \/ u \in Opened(p, s, t) /\ ~ Due(q, "entry", u)

AiryInv == /\ AiryTypeOK
           /\ todo = <<>> => dest = state
           /\ Balance(parent, state, dest, todo, active)

\* Between two transitions, the balance is the configuration.
LEMMA AtRest ==
  ASSUME NEW p \in Charts, NEW s \in States, NEW open
  PROVE  Balance(p, s, s, <<>>, open) <=> open = Ancestors(p, s) \cup {s}
<1>1. Shared(p, s, s) = Ancestors(p, s) /\ Opened(p, s, s) = {s}
  BY DEF Shared, Opened
<1>2. Len(<<>>) = 0 /\ 1 .. 0 = {}
  OBVIOUS
<1>3. \A kind, u : ~ Due(<<>>, kind, u)
  BY <1>2 DEF Due
<1>4. Ordered(<<>>)
  BY <1>2 DEF Ordered
<1>5. QED BY <1>1, <1>3, <1>4 DEF Balance

\* What one call takes off the list.
LEMMA OneCall ==
  ASSUME NEW q \in Seq(Calls), q # <<>>, Ordered(q)
  PROVE  /\ Head(q) \in Calls /\ Tail(q) \in Seq(Calls) /\ Ordered(Tail(q))
         /\ Due(q, Head(q).kind, Head(q).state)
         /\ \A kind, u : Due(Tail(q), kind, u) <=>
                            Due(q, kind, u) /\ Head(q) # [kind |-> kind, state |-> u]
         /\ \A u : Due(q, "exit", u) => Head(q).kind = "exit" /\ u <= Head(q).state
         /\ \A u : Due(q, "entry", u) /\ Head(q).kind = "entry" => Head(q).state <= u
         /\ Len(q) = 1 => Tail(q) = <<>>
         /\ Len(q) # 1 => Tail(q) # <<>>
<1>1. PICK n \in Nat : n = Len(q)
  OBVIOUS
<1>2. PICK h : h = Head(q)
  OBVIOUS
<1>3. PICK r : r = Tail(q)
  OBVIOUS
<1>4. /\ n >= 1 /\ h = q[1] /\ r \in Seq(Calls) /\ Len(r) = n - 1
      /\ \A i \in 1 .. n - 1 : r[i] = q[i + 1]
  BY <1>1, <1>2, <1>3
<1>5. \A i \in 1 .. n : q[i] \in Calls
  BY <1>1
<1>6. h \in Calls /\ h = [kind |-> h.kind, state |-> h.state]
      /\ h.state \in Nat /\ h.kind \in {"exit", "entry"}
  <2>1. h \in Calls
    BY <1>4, <1>5
  <2>2. QED BY <2>1, TopAssumption DEF Calls, States
<1>7. Due(q, h.kind, h.state)
  <2>1. 1 \in 1 .. n /\ q[1] = [kind |-> h.kind, state |-> h.state]
    BY <1>4, <1>6
  <2>2. QED BY <1>1, <2>1 DEF Due
<1>8. \A i, j \in 1 .. n : i < j =>
        \/ q[i].kind = "exit" /\ q[j].kind = "entry"
        \/ q[i].kind = "exit" /\ q[j].kind = "exit" /\ q[j].state < q[i].state
        \/ q[i].kind = "entry" /\ q[j].kind = "entry" /\ q[i].state < q[j].state
  BY <1>1 DEF Ordered
<1>9. Ordered(r)
  <2> SUFFICES ASSUME NEW i \in 1 .. n - 1, NEW j \in 1 .. n - 1, i < j
               PROVE  \/ r[i].kind = "exit" /\ r[j].kind = "entry"
                      \/ /\ r[i].kind = "exit" /\ r[j].kind = "exit"
                         /\ r[j].state < r[i].state
                      \/ /\ r[i].kind = "entry" /\ r[j].kind = "entry"
                         /\ r[i].state < r[j].state
    BY <1>4 DEF Ordered
  <2>1. i + 1 \in 1 .. n /\ j + 1 \in 1 .. n /\ i + 1 < j + 1
    OBVIOUS
  <2>2. r[i] = q[i + 1] /\ r[j] = q[j + 1]
    BY <1>4
  <2>3. QED BY <1>8, <2>1, <2>2
<1>10. ASSUME NEW j \in 2 .. n
       PROVE  \/ h.kind = "exit" /\ q[j].kind = "entry"
              \/ h.kind = "exit" /\ q[j].kind = "exit" /\ q[j].state < h.state
              \/ h.kind = "entry" /\ q[j].kind = "entry" /\ h.state < q[j].state
  <2>1. 1 \in 1 .. n /\ j \in 1 .. n /\ 1 < j
    OBVIOUS
  <2>2. QED BY <1>4, <1>8, <2>1
<1>11. ASSUME NEW kind, NEW u
       PROVE  Due(r, kind, u) <=> Due(q, kind, u) /\ h # [kind |-> kind, state |-> u]
  <2>1. PICK x : x = [kind |-> kind, state |-> u]
    OBVIOUS
  <2>2. ASSUME NEW i \in 1 .. n - 1, r[i] = x
        PROVE  (\E j \in 1 .. n : q[j] = x) /\ h # x
    <3>1. i + 1 \in 1 .. n /\ i + 1 \in 2 .. n /\ q[i + 1] = x
      BY <1>4, <2>2
    <3>2. \/ h.kind = "exit" /\ x.kind = "entry"
          \/ h.kind = "exit" /\ x.kind = "exit" /\ x.state < h.state
          \/ h.kind = "entry" /\ x.kind = "entry" /\ h.state < x.state
      BY <1>10, <3>1
    <3>3. h # x
      BY <1>6, <3>2
    <3>4. QED BY <3>1, <3>3
  <2>3. ASSUME NEW i \in 1 .. n, q[i] = x, h # x PROVE \E j \in 1 .. n - 1 : r[j] = x
    <3>1. i # 1
      BY <1>4, <2>3
    <3>2. i - 1 \in 1 .. n - 1 /\ (i - 1) + 1 = i
      BY <3>1
    <3>3. r[i - 1] = x
      BY <1>4, <2>3, <3>2
    <3>4. QED BY <3>2, <3>3
  <2>4. QED BY <1>1, <1>4, <2>1, <2>2, <2>3 DEF Due
<1>12. ASSUME NEW u, Due(q, "exit", u) PROVE h.kind = "exit" /\ u <= h.state
  <2>1. PICK i \in 1 .. n : q[i] = [kind |-> "exit", state |-> u]
    BY <1>1, <1>12 DEF Due
  <2>2. q[i].kind = "exit" /\ q[i].state = u
    BY <2>1
  <2>3. CASE i = 1
    BY <1>4, <1>6, <2>2, <2>3
  <2>4. CASE i # 1
    <3>1. i \in 2 .. n
      BY <2>4
    <3>2. u \in Nat
      <4>1. q[i] \in Calls
        BY <1>5
      <4>2. QED BY <2>2, <4>1, TopAssumption DEF Calls, States
    <3>3. QED BY <1>6, <1>10, <2>2, <3>1, <3>2
  <2>5. QED BY <2>3, <2>4
<1>13. ASSUME NEW u, Due(q, "entry", u), h.kind = "entry" PROVE h.state <= u
  <2>1. PICK i \in 1 .. n : q[i] = [kind |-> "entry", state |-> u]
    BY <1>1, <1>13 DEF Due
  <2>2. q[i].kind = "entry" /\ q[i].state = u
    BY <2>1
  <2>3. CASE i = 1
    BY <1>4, <1>6, <2>2, <2>3
  <2>4. CASE i # 1
    <3>1. i \in 2 .. n
      BY <2>4
    <3>2. u \in Nat
      <4>1. q[i] \in Calls
        BY <1>5
      <4>2. QED BY <2>2, <4>1, TopAssumption DEF Calls, States
    <3>3. QED BY <1>6, <1>10, <1>13, <2>2, <3>1, <3>2
  <2>5. QED BY <2>3, <2>4
<1>14. (n = 1 => r = <<>>) /\ (n # 1 => r # <<>>)
  BY <1>4
<1>15. QED
  BY <1>1, <1>2, <1>3, <1>4, <1>6, <1>7, <1>9, <1>11, <1>12, <1>13, <1>14

\* The balance survives a call.
LEMMA CallBalance ==
  ASSUME NEW p \in Charts, NEW s \in States, NEW t \in States, NEW open,
         NEW q \in Seq(Calls), q # <<>>, Balance(p, s, t, q, open)
  PROVE  Balance(p, s, t, Tail(q), IF Head(q).kind = "exit" THEN open \ {Head(q).state}
                                                            ELSE open \cup {Head(q).state})
<1>1. PICK h : h = Head(q)
  OBVIOUS
<1>2. PICK r : r = Tail(q)
  OBVIOUS
<1>3. PICK open2 : open2 = IF h.kind = "exit" THEN open \ {h.state} ELSE open \cup {h.state}
  OBVIOUS
<1>4. /\ h \in Calls /\ Ordered(r) /\ Due(q, h.kind, h.state)
      /\ \A kind, u : Due(r, kind, u) <=>
                         Due(q, kind, u) /\ h # [kind |-> kind, state |-> u]
      /\ \A u : Due(q, "exit", u) => h.kind = "exit" /\ u <= h.state
      /\ \A u : Due(q, "entry", u) /\ h.kind = "entry" => h.state <= u
  BY <1>1, <1>2, OneCall DEF Balance
<1>5. /\ \A u : u \in Closed(p, s, t) => u \in Nat
      /\ \A u : u \in Opened(p, s, t) => u \in Nat
      /\ \A u : u \in Shared(p, s, t) => u \notin Closed(p, s, t) /\ u \notin Opened(p, s, t)
  <2>1. s \in Nat /\ t \in Nat
    BY TopAssumption DEF States
  <2>2. Ancestors(p, s) \subseteq 1 .. s - 1 /\ Ancestors(p, t) \subseteq 1 .. t - 1
    BY Around
  <2>3. s \notin Ancestors(p, s) /\ t \notin Ancestors(p, t)
    BY <2>1, <2>2
  <2>4. QED BY <2>1, <2>2, <2>3 DEF Closed, Opened, Shared
<1>6. CASE h.kind = "exit"
  <2>1. \A u : h = [kind |-> "exit", state |-> u] <=> h.state = u
    BY <1>4, <1>6 DEF Calls
  <2>2. \A u : h # [kind |-> "entry", state |-> u]
    BY <1>6
  <2>3. /\ \A u : Due(r, "exit", u) <=> Due(q, "exit", u) /\ u # h.state
        /\ \A u : Due(r, "entry", u) <=> Due(q, "entry", u)
        /\ open2 = open \ {h.state}
    BY <1>3, <1>4, <1>6, <2>1, <2>2
  <2>4. Balance(p, s, t, r, open2)
    <3>1. /\ \A u : Due(q, "exit", u) => u \in Closed(p, s, t)
          /\ \A u : Due(q, "entry", u) => u \in Opened(p, s, t)
          /\ \A u, v : Due(q, "exit", u) /\ v \in Closed(p, s, t) /\ v < u =>
                         Due(q, "exit", v)
          /\ \A u, v : Due(q, "entry", u) /\ v \in Opened(p, s, t) /\ u < v =>
                         Due(q, "entry", v)
          /\ \A u, v : Due(q, "exit", u) /\ v \in Opened(p, s, t) => Due(q, "entry", v)
          /\ \A u : u \in open <=> \/ u \in Shared(p, s, t)
                                   \/ Due(q, "exit", u)
                                   \/ u \in Opened(p, s, t) /\ ~ Due(q, "entry", u)
      BY DEF Balance
    <3>2. ASSUME NEW u, NEW v, Due(r, "exit", u), v \in Closed(p, s, t), v < u
          PROVE  Due(r, "exit", v)
      <4>1. Due(q, "exit", u) /\ u <= h.state /\ Due(q, "exit", v)
        BY <1>4, <2>3, <3>1, <3>2
      <4>2. u \in Nat /\ v \in Nat /\ h.state \in Nat
        BY <1>4, <1>5, <1>6, <3>1, <3>2, <4>1
      <4>3. QED BY <2>3, <3>2, <4>1, <4>2
    <3>3. Due(q, "exit", h.state) /\ h.state \in Closed(p, s, t)
      BY <1>4, <1>6, <3>1
    <3>4. ASSUME NEW u
          PROVE  u \in open2 <=> \/ u \in Shared(p, s, t)
                                 \/ Due(r, "exit", u)
                                 \/ u \in Opened(p, s, t) /\ ~ Due(r, "entry", u)
      BY <1>5, <2>3, <3>1, <3>3
    <3>5. QED BY <1>4, <2>3, <3>1, <3>2, <3>4 DEF Balance
  <2>5. QED BY <1>1, <1>2, <1>3, <1>6, <2>4
<1>7. CASE h.kind # "exit"
  <2>0. h.kind = "entry"
    BY <1>4, <1>7 DEF Calls
  <2>1. \A u : h = [kind |-> "entry", state |-> u] <=> h.state = u
    BY <1>4, <2>0 DEF Calls
  <2>2. \A u : ~ Due(q, "exit", u)
    BY <1>4, <1>7
  <2>3. /\ \A u : ~ Due(r, "exit", u)
        /\ \A u : Due(r, "entry", u) <=> Due(q, "entry", u) /\ u # h.state
        /\ open2 = open \cup {h.state}
    BY <1>3, <1>4, <1>7, <2>1, <2>2
  <2>4. Balance(p, s, t, r, open2)
    <3>1. /\ \A u : Due(q, "entry", u) => u \in Opened(p, s, t)
          /\ \A u, v : Due(q, "entry", u) /\ v \in Opened(p, s, t) /\ u < v =>
                         Due(q, "entry", v)
          /\ \A u : u \in open <=> \/ u \in Shared(p, s, t)
                                   \/ Due(q, "exit", u)
                                   \/ u \in Opened(p, s, t) /\ ~ Due(q, "entry", u)
      BY DEF Balance
    <3>2. ASSUME NEW u, NEW v, Due(r, "entry", u), v \in Opened(p, s, t), u < v
          PROVE  Due(r, "entry", v)
      <4>1. Due(q, "entry", u) /\ h.state <= u /\ Due(q, "entry", v)
        BY <1>4, <2>0, <2>3, <3>1, <3>2
      <4>2. u \in Nat /\ v \in Nat /\ h.state \in Nat
        BY <1>4, <1>5, <2>0, <3>1, <3>2, <4>1
      <4>3. QED BY <2>3, <3>2, <4>1, <4>2
    <3>3. Due(q, "entry", h.state) /\ h.state \in Opened(p, s, t)
      BY <1>4, <2>0, <3>1
    <3>4. ASSUME NEW u
          PROVE  u \in open2 <=> \/ u \in Shared(p, s, t)
                                 \/ Due(r, "exit", u)
                                 \/ u \in Opened(p, s, t) /\ ~ Due(r, "entry", u)
      BY <1>5, <2>2, <2>3, <3>1, <3>3
    <3>5. QED BY <1>4, <2>3, <3>1, <3>2, <3>4 DEF Balance
  <2>5. QED BY <1>1, <1>2, <1>3, <1>7, <2>4
<1>8. QED BY <1>6, <1>7

\* The machine begins in state 0, which has no parents.
LEMMA AiryInitInv == AiryInit => AiryInv
<1> SUFFICES ASSUME AiryInit PROVE AiryInv
  OBVIOUS
<1>1. parent \in Charts /\ state = 0 /\ dest = 0 /\ todo = <<>> /\ active = {0}
  BY DEF AiryInit
<1>2. 0 \in States
  BY TopAssumption DEF States
<1>3. parent[0] = 0
  BY <1>1, <1>2, TopAssumption DEF Charts, States
<1>4. Ancestors(parent, 0) = {}
  BY <1>1, <1>2, <1>3, Above
<1>5. active = Ancestors(parent, 0) \cup {0}
  BY <1>1, <1>4
<1>6. Balance(parent, state, dest, todo, active)
  BY <1>1, <1>2, <1>5, AtRest
<1>7. AiryTypeOK
  BY <1>1, <1>2 DEF AiryTypeOK
<1>8. QED BY <1>1, <1>6, <1>7 DEF AiryInv

\* A transition begins with everything still to be done.
LEMMA TakeInv ==
  ASSUME AiryInv, NEW d \in States, Take(d)
  PROVE  AiryInv'
<1>1. /\ parent \in Charts /\ state \in States /\ todo = <<>> /\ dest = state
      /\ active \subseteq States
  BY DEF AiryInv, AiryTypeOK, Take
<1>2. active = Ancestors(parent, state) \cup {state}
  BY <1>1, AtRest DEF AiryInv
<1>3. PICK q : q = calls("exit", exit_calls(Numbers[parent], state, d))
                     \o calls("entry", entry_calls(Numbers[parent], state, d))
  OBVIOUS
<1>4. /\ q \in Seq(Calls) /\ q # <<>> /\ Ordered(q)
      /\ \A u : Due(q, "exit", u) <=> u \in Closed(parent, state, d)
      /\ \A u : Due(q, "entry", u) <=> u \in Opened(parent, state, d)
  BY <1>1, <1>3, TransitionCalls
<1>5. \A u : u \in active <=> u \in Shared(parent, state, d) \/ u \in Closed(parent, state, d)
  BY <1>2 DEF Shared, Closed
<1>6. Balance(parent, state, d, q, active)
  BY <1>4, <1>5 DEF Balance
<1>7. /\ todo' = q /\ dest' = d /\ parent' = parent /\ state' = state
      /\ active' = active
  BY <1>3 DEF Take
<1>8. AiryTypeOK'
  BY <1>1, <1>4, <1>7 DEF AiryTypeOK, Calls
<1>9. QED BY <1>4, <1>6, <1>7, <1>8 DEF AiryInv

\* A call takes one thing off the list and puts it into effect.
LEMMA CallInv ==
  ASSUME AiryInv, Call
  PROVE  AiryInv'
<1>1. /\ parent \in Charts /\ state \in States /\ dest \in States
      /\ todo \in Seq(Calls) /\ todo # <<>> /\ active \subseteq States
      /\ Balance(parent, state, dest, todo, active)
  BY DEF AiryInv, AiryTypeOK, Call, Calls
<1>2. /\ Head(todo) \in Calls /\ Tail(todo) \in Seq(Calls)
      /\ Len(todo) = 1 => Tail(todo) = <<>>
      /\ Len(todo) # 1 => Tail(todo) # <<>>
  BY <1>1, OneCall DEF Balance
<1>3. Balance(parent, state, dest, todo', active')
  BY <1>1, CallBalance DEF Call
<1>4. parent' = parent /\ dest' = dest /\ todo' = Tail(todo)
      /\ state' = IF Len(todo) = 1 THEN dest ELSE state
  BY DEF Call
<1>5. active' \subseteq States
  BY <1>1, <1>2 DEF Call, Calls
<1>6. AiryTypeOK'
  BY <1>1, <1>2, <1>4, <1>5 DEF AiryTypeOK, Calls
<1>7. CASE Len(todo) # 1
  BY <1>2, <1>3, <1>4, <1>6, <1>7 DEF AiryInv
<1>8. CASE Len(todo) = 1
  <2>1. todo' = <<>> /\ state' = dest
    BY <1>2, <1>4, <1>8
  <2>2. \A kind, u : ~ Due(todo', kind, u)
    BY <2>1 DEF Due
  <2>3. \A u : u \in active' <=> u \in Shared(parent, state, dest) \cup Opened(parent, state, dest)
    BY <1>3, <2>2 DEF Balance
  <2>4. active' = Ancestors(parent, dest) \cup {dest}
    BY <2>3 DEF Shared, Opened
  <2>5. Balance(parent, dest, dest, <<>>, active')
    BY <1>1, <2>4, AtRest
  <2>6. QED BY <1>4, <1>6, <2>1, <2>5 DEF AiryInv
<1>9. QED BY <1>7, <1>8

\* Every step of the machine keeps the invariant.
LEMMA AiryNextInv == AiryInv /\ [AiryNext]_airy_vars => AiryInv'
<1> SUFFICES ASSUME AiryInv, [AiryNext]_airy_vars PROVE AiryInv'
  OBVIOUS
<1>1. ASSUME NEW d \in States, Take(d) PROVE AiryInv'
  BY <1>1, TakeInv
<1>2. CASE Call
  BY <1>2, CallInv
<1>3. CASE UNCHANGED airy_vars
  BY <1>3 DEF airy_vars, AiryInv, AiryTypeOK
<1>4. QED BY <1>1, <1>2, <1>3 DEF AiryNext

\* The invariant always holds.
LEMMA AiryInvariant == AirySpec => []AiryInv
<1>1. QED BY AiryInitInv, AiryNextInv, PTL DEF AirySpec

\* Type correctness of AiryMachine.
THEOREM AiryTypeCorrect == AirySpec => []AiryTypeOK
<1>1. AiryInv => AiryTypeOK
  BY DEF AiryInv
<1>2. QED BY <1>1, AiryInvariant, PTL

\* Between two transitions the current state and the states around it are open,
\* whatever the chart and however many states it has (builtins.tpl:17).
THEOREM ConfigurationMatchesAlways == AirySpec => []ConfigurationMatches
<1>1. AiryInv => ConfigurationMatches
  <2> SUFFICES ASSUME AiryInv, todo = <<>> PROVE active = Ancestors(parent, state) \cup {state}
    BY DEF ConfigurationMatches
  <2>1. parent \in Charts /\ state \in States /\ Balance(parent, state, state, <<>>, active)
    BY DEF AiryInv, AiryTypeOK
  <2>2. QED BY <2>1, AtRest
<1>2. QED BY <1>1, AiryInvariant, PTL

\* At each call of a transition the parents of what is open are open.
THEOREM ParentsOutlastAlways == AirySpec => []ParentsOutlast
<1>1. AiryInv => ParentsOutlast
  <2> SUFFICES ASSUME AiryInv, NEW s \in active PROVE parent[s] \in active
    BY DEF ParentsOutlast
  <2>1. /\ parent \in Charts /\ state \in States /\ dest \in States /\ s \in States
    BY DEF AiryInv, AiryTypeOK
  <2>2. parent[s] = s \/ (parent[s] < s /\ parent[s] # s)
    BY <2>1, TopAssumption DEF Charts, States
  <2>3. /\ parent[state] = state \/ parent[state] \in Ancestors(parent, state)
        /\ parent[dest] = dest \/ parent[dest] \in Ancestors(parent, dest)
        /\ \A t \in Ancestors(parent, state) :
             parent[t] = t \/ parent[t] \in Ancestors(parent, state)
        /\ \A t \in Ancestors(parent, dest) :
             parent[t] = t \/ parent[t] \in Ancestors(parent, dest)
    BY <2>1, Around
  <2>4. CASE s \in Shared(parent, state, dest)
    <3>1. parent[s] = s \/ parent[s] \in Shared(parent, state, dest)
      BY <2>3, <2>4 DEF Shared
    <3>2. QED BY <3>1 DEF AiryInv, Balance
  <2>5. CASE Due(todo, "exit", s)
    <3>1. s \in Closed(parent, state, dest)
      BY <2>5 DEF AiryInv, Balance
    <3>2. \/ parent[s] = s \/ parent[s] \in Shared(parent, state, dest)
          \/ parent[s] \in Closed(parent, state, dest) /\ parent[s] < s
      BY <2>2, <2>3, <3>1 DEF Closed, Shared
    <3>3. QED BY <2>5, <3>2 DEF AiryInv, Balance
  <2>6. CASE s \in Opened(parent, state, dest) /\ ~ Due(todo, "entry", s)
    <3>1. \/ parent[s] = s \/ parent[s] \in Shared(parent, state, dest)
          \/ parent[s] \in Opened(parent, state, dest) /\ parent[s] < s
      BY <2>2, <2>3, <2>6 DEF Opened, Shared
    <3>2. QED BY <2>6, <3>1 DEF AiryInv, Balance
  <2>7. QED BY <2>4, <2>5, <2>6 DEF AiryInv, Balance
<1>2. QED BY <1>1, AiryInvariant, PTL

\* No transition enters what is open or exits what is not.
THEOREM EnteredOnceAlways == AirySpec => EnteredOnce
<1>1. AiryInv => (todo # <<>> => (Head(todo).kind = "exit" <=> Head(todo).state \in active))
  <2> SUFFICES ASSUME AiryInv, todo # <<>>
               PROVE  Head(todo).kind = "exit" <=> Head(todo).state \in active
    OBVIOUS
  <2>1. PICK h : h = Head(todo)
    OBVIOUS
  <2>2. parent \in Charts /\ state \in States /\ dest \in States /\ todo \in Seq(Calls)
    BY DEF AiryInv, AiryTypeOK, Calls
  <2>3. /\ h \in Calls /\ Due(todo, h.kind, h.state)
        /\ \A u : Due(todo, "exit", u) => h.kind = "exit"
    BY <2>1, <2>2, OneCall DEF AiryInv, Balance
  <2>4. dest \notin Ancestors(parent, dest)
    <3>1. Ancestors(parent, dest) \subseteq 1 .. dest - 1 /\ dest \in Nat
      BY <2>2, Around, TopAssumption DEF States
    <3>2. QED BY <3>1
  <2>5. CASE h.kind = "exit"
    BY <2>1, <2>3, <2>5 DEF AiryInv, Balance
  <2>6. CASE h.kind = "entry"
    <3>1. Due(todo, "entry", h.state) /\ ~ Due(todo, "exit", h.state)
      BY <2>3, <2>6
    <3>2. h.state \in Opened(parent, state, dest)
      BY <3>1 DEF AiryInv, Balance
    <3>3. h.state \notin Shared(parent, state, dest)
      BY <2>4, <3>2 DEF Opened, Shared
    <3>4. h.state \notin active
      BY <3>1, <3>3 DEF AiryInv, Balance
    <3>5. QED BY <2>1, <2>6, <3>4
  <2>7. QED BY <2>3, <2>5, <2>6 DEF Calls
<1>2. QED BY <1>1, AiryInvariant, PTL DEF EnteredOnce

\* What encloses both ends of a transition stays open throughout
\* (builtins.tpl:34, 53).
THEOREM SharedParentsStayAlways == AirySpec => SharedParentsStay
<1>1. AiryInv /\ [AiryNext]_airy_vars =>
        [todo # <<>> =>
           Ancestors(parent, state) \cap Ancestors(parent, dest) \subseteq active']_airy_vars
  <2> SUFFICES ASSUME AiryInv, AiryNext, todo # <<>>
               PROVE  Shared(parent, state, dest) \subseteq active'
    BY DEF Shared
  <2>1. Call
    BY DEF AiryNext, Take
  <2>2. /\ parent \in Charts /\ state \in States /\ dest \in States
        /\ todo \in Seq(Calls) /\ Balance(parent, state, dest, todo, active)
    BY DEF AiryInv, AiryTypeOK, Calls
  <2>3. Balance(parent, state, dest, todo', active')
    BY <2>1, <2>2, CallBalance DEF Call
  <2>4. QED BY <2>3 DEF Balance
<1>2. QED BY <1>1, AiryInvariant, PTL DEF SharedParentsStay, AirySpec

------------------------------------------------------------------------------
(* melo's own chart *)

\* The parents in states.yml.
MeloParents == [s \in States |-> IF s \in {RESP_PEND, TX_PEND} THEN RESP_PROC ELSE s]

\* The chart of melo is one that airy's loops suit, and the numbers in its table
\* (melo.c:126) nest as its states do: what NumbersAssumption asks of a table.
THEOREM MeloTableNests ==
  ASSUME Top = TX_PEND
  PROVE  MeloParents \in Charts /\ Nests(MeloParents, table)
<1>1. States = {0, 1, 2, 3}
  BY DEF States, TX_PEND
<1>2. /\ MeloParents \in [States -> States]
      /\ MeloParents[0] = 0 /\ MeloParents[1] = 1
      /\ MeloParents[2] = 1 /\ MeloParents[3] = 1
  BY <1>1 DEF MeloParents, RESP_PEND, TX_PEND, RESP_PROC
<1>3. MeloParents \in Charts
  BY <1>1, <1>2 DEF Charts
<1>4. /\ Ancestors(MeloParents, 0) = {} /\ Ancestors(MeloParents, 1) = {}
      /\ Ancestors(MeloParents, 2) = {1} /\ Ancestors(MeloParents, 3) = {1}
  <2>1. Ancestors(MeloParents, 0) = {} /\ Ancestors(MeloParents, 1) = {}
    BY <1>1, <1>2, <1>3, Above
  <2>2. Ancestors(MeloParents, 2) = {1} \cup Ancestors(MeloParents, 1)
    BY <1>1, <1>2, <1>3, Above
  <2>3. Ancestors(MeloParents, 3) = {1} \cup Ancestors(MeloParents, 1)
    BY <1>1, <1>2, <1>3, Above
  <2>4. QED BY <2>1, <2>2, <2>3
<1>5. /\ table[0].left = 1 /\ table[0].right = 2 /\ table[1].left = 3 /\ table[1].right = 8
      /\ table[2].left = 4 /\ table[2].right = 5 /\ table[3].left = 6 /\ table[3].right = 7
  BY DEF table, IDLE, RESP_PROC, RESP_PEND, TX_PEND
<1>6. Nests(MeloParents, table)
  <2> SUFFICES ASSUME NEW s \in States, NEW t \in States
               PROVE  t \in Ancestors(MeloParents, s) <=>
                        /\ table[t].left < table[s].left
                        /\ table[s].right < table[t].right
    BY DEF Nests
  <2>1. s \in {0, 1, 2, 3} /\ t \in {0, 1, 2, 3}
    BY <1>1
  <2> HIDE DEF table
  <2>2. CASE s = 0
    BY <1>4, <1>5, <2>1, <2>2
  <2>3. CASE s = 1
    BY <1>4, <1>5, <2>1, <2>3
  <2>4. CASE s = 2
    BY <1>4, <1>5, <2>1, <2>4
  <2>5. CASE s = 3
    BY <1>4, <1>5, <2>1, <2>5
  <2>6. QED BY <2>1, <2>2, <2>3, <2>4, <2>5
<1>7. QED BY <1>3, <1>6
================================================================================
