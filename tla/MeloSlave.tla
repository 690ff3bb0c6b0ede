------------------------------- MODULE MeloSlave -------------------------------
(***************************************************************************)
(* The slave's main state machine: the callbacks and the background task   *)
(* of melo.c, with packets as the unit of reception (MeloFrame has the     *)
(* bytes) and the event that is being handled as the unit of the           *)
(* background task.                                                        *)
(*                                                                         *)
(* The application decides when the library is called.  Port names two     *)
(* ways of doing so:                                                       *)
(*   "sketch"     slave.ino: MeloBackground follows every received byte,   *)
(*                and MeloTransmitBytes writes all bytes and calls         *)
(*                MeloTransmitComplete before it returns;                  *)
(*   "interrupt"  MeloReceiveByte(s) and MeloTransmitComplete are called   *)
(*                at any time between two events of MeloBackground, from   *)
(*                an interrupt or, between two calls of MeloBackground,    *)
(*                from the application's loop.                             *)
(***************************************************************************)
EXTENDS AiryTransitions, MeloEventStack

CONSTANTS Requests,     \* packets whose status field is REQUEST
          NonRequests,  \* packets with any other status
          NoRequest,    \* stands for "no packet"
          Port,         \* "sketch" or "interrupt"
          After,        \* the 500 of RESP_PROC's AFTER(500)
          TimerMod      \* one more than the largest value of a timer

Packets == Requests \cup NonRequests

ASSUME PacketsAssumption == /\ NoRequest \notin Packets
                            /\ Requests \cap NonRequests = {}
ASSUME PortAssumption == Port \in {"sketch", "interrupt"}
ASSUME TimerAssumption == /\ TimerMod \in Nat \ {0}
                          /\ After \in Nat

VARIABLES
  stack,          \* _m_event_stack
  current_state,  \* _current_state
  timer,          \* _table[1].timer, the timer of RESP_PROC
  packet,         \* recv_frame.frame.packet: the packet received last
  wait_frame,     \* the request that wait_frame answers
  send_frame,     \* the request that send_frame answers
  tx,             \* the frame the application is transmitting, or "none"
  running         \* MeloBackground has been called and has not returned

frames == <<wait_frame, send_frame>>
vars   == <<stack, current_state, timer, packet, frames, tx, running>>

------------------------------------------------------------------------------
(* The states and their table *)

IDLE      == 0
RESP_PROC == 1   \* parent of the two states below it, never current itself
RESP_PEND == 2
TX_PEND   == 3

table ==
  [state \in IDLE .. TX_PEND |->
     CASE state = IDLE      -> [left |-> 1, right |-> 2]
       [] state = RESP_PROC -> [left |-> 3, right |-> 8]
       [] state = RESP_PEND -> [left |-> 4, right |-> 5]
       [] state = TX_PEND   -> [left |-> 6, right |-> 7]]

TypeOK ==
  /\ stack \in Seq(Events) /\ Len(stack) <= StackSize - 1
  /\ current_state \in {IDLE, RESP_PEND, TX_PEND}
  /\ timer \in 0 .. TimerMod - 1
  /\ packet \in Packets \cup {NoRequest}
  /\ wait_frame \in Requests \cup {NoRequest}
  /\ send_frame \in Requests \cup {NoRequest}
  /\ tx \in {"none", "wait", "send"}
  /\ running \in BOOLEAN

Init ==
  /\ stack = <<>>
  /\ current_state = IDLE
  /\ timer = 0
  /\ packet = NoRequest
  /\ wait_frame = NoRequest /\ send_frame = NoRequest
  /\ tx = "none"
  /\ running = FALSE

------------------------------------------------------------------------------
(* Callbacks *)

\* A callback interrupts MeloBackground only where it comes from an interrupt.
may_call_back == Port = "interrupt" \/ ~ running

\* The TAIL byte of an intact frame: the packet replaces the one before it,
\* whether or not that one has been handled.  slave.ino goes straight on to
\* MeloBackground.
Receive(p) ==
  /\ may_call_back
  /\ packet' = p
  /\ stack' = notify_event(stack, REQUEST_RECEIVED)
  /\ running' = (running \/ Port = "sketch")
  /\ UNCHANGED <<current_state, timer, frames, tx>>

\* The application has sent the last byte and says so.
TransmitComplete ==
  /\ may_call_back
  /\ tx # "none"
  /\ tx' = "none"
  /\ stack' = notify_event(stack, TX_CONFIRMATION)
  /\ UNCHANGED <<current_state, timer, packet, frames, running>>

------------------------------------------------------------------------------
(* Transitions *)

\* The entry action of RESP_PROC: _melo_packet_handler executes a request and
\* builds both answers; in a slave any other packet leaves them as they were.
frame_handler ==
  IF packet \in Requests
  THEN wait_frame' = packet /\ send_frame' = packet
  ELSE UNCHANGED frames

\* Mutant of MeloTransmitBytes: the sketch never calls MeloTransmitComplete.
MeloTransmitBytes_unconfirmed(frame, rest) ==
  stack' = rest /\ tx' = IF Port = "sketch" THEN tx ELSE frame

\* The application's MeloTransmitBytes, called when `rest' is on the stack.
MeloTransmitBytes(frame, rest) ==
  IF Port = "sketch"
  THEN stack' = notify_event(rest, TX_CONFIRMATION) /\ UNCHANGED tx
  ELSE stack' = rest /\ tx' = frame

\* _state_transition with the entry actions of the states it enters; no state
\* of the table has an exit action.  `ticks' is the timer before the entry.
state_transition(start, dest, rest, ticks) ==
  LET entries == entered(table, start, dest) IN
  /\ current_state' = dest
  /\ IF RESP_PROC \in entries THEN timer' = 0 /\ frame_handler
                              ELSE timer' = ticks /\ UNCHANGED frames
  /\ CASE dest = RESP_PEND -> MeloTransmitBytes("wait", rest)
       [] dest = TX_PEND   -> MeloTransmitBytes("send", rest)
       [] OTHER            -> stack' = rest /\ UNCHANGED tx

\* An event that is taken from the stack and changes no state.
no_transition(rest, ticks) ==
  /\ stack' = rest
  /\ timer' = ticks
  /\ UNCHANGED <<current_state, frames, tx>>

\* Mutant of RESP_PROC_during: a timer without a width.
RESP_PROC_during_unbounded == timer + 1

\* The during action of RESP_PROC, which its substates call first: the timer
\* counts events and wraps.  When it exceeds After the code runs
\* _state_transition(1, 0), but that enters and leaves only states without an
\* action, and the substate throws its result away: nothing but the count is left.
RESP_PROC_during == (timer + 1) % TimerMod

IDLE_during(event, rest) ==
  IF event = REQUEST_RECEIVED
  THEN state_transition(IDLE, RESP_PEND, rest, timer)
  ELSE no_transition(rest, timer)

\* Mutant of RESP_PEND_during: a request that comes meanwhile is served at once.
RESP_PEND_during_serves(event, rest) ==
  IF event = TX_CONFIRMATION
  THEN state_transition(RESP_PEND, TX_PEND, rest, RESP_PROC_during)
  ELSE state_transition(IDLE, RESP_PEND, rest, RESP_PROC_during)

\* A request that comes while a reply is under way is taken off and dropped.
RESP_PEND_during(event, rest) ==
  IF event = TX_CONFIRMATION
  THEN state_transition(RESP_PEND, TX_PEND, rest, RESP_PROC_during)
  ELSE no_transition(rest, RESP_PROC_during)

TX_PEND_during(event, rest) ==
  IF event = TX_CONFIRMATION
  THEN state_transition(TX_PEND, IDLE, rest, RESP_PROC_during)
  ELSE no_transition(rest, RESP_PROC_during)

------------------------------------------------------------------------------
(* MeloBackground *)

\* The application's loop calls it whenever it comes round.
BackgroundCall ==
  /\ Port # "sketch"
  /\ ~ running
  /\ running' = TRUE
  /\ UNCHANGED <<stack, current_state, timer, packet, frames, tx>>

\* One turn of the loop: the newest event first.
Dispatch ==
  /\ running
  /\ stack # <<>>
  /\ \/ current_state = IDLE      /\ IDLE_during(top(stack), popped(stack))
     \/ current_state = RESP_PEND /\ RESP_PEND_during(top(stack), popped(stack))
     \/ current_state = TX_PEND   /\ TX_PEND_during(top(stack), popped(stack))
  /\ UNCHANGED <<packet, running>>

BackgroundReturn ==
  /\ running
  /\ stack = <<>>
  /\ running' = FALSE
  /\ UNCHANGED <<stack, current_state, timer, packet, frames, tx>>

Next ==
  \/ \E p \in Packets : Receive(p)
  \/ TransmitComplete
  \/ BackgroundCall \/ Dispatch \/ BackgroundReturn

Spec == Init /\ [][Next]_vars

\* README: MeloBackground "must be called continuously", and a transmission that
\* has completed "must" be reported.  An application that polls for that may find
\* it due only while MeloBackground runs and report it later, hence the strong
\* fairness.
Fairness ==
  /\ WF_vars(BackgroundCall)
  /\ WF_vars(Dispatch)
  /\ WF_vars(BackgroundReturn)
  /\ SF_vars(TransmitComplete)

FairSpec == Spec /\ Fairness

------------------------------------------------------------------------------
(* Properties *)

\* A reply is two transmissions in a row, each of which owes the state machine
\* one confirmation (melo.c:896, 926).  Whatever the callbacks do, a busy slave
\* has exactly one confirmation coming or waiting and an idle one has none: it
\* can neither hang for want of a confirmation nor cut a reply short for one
\* too many.
ExactlyOneConfirmation ==
  /\ current_state = IDLE =>
       tx = "none" /\ ~ Pending(stack, TX_CONFIRMATION)
  /\ current_state # IDLE =>
       (tx # "none" <=> ~ Pending(stack, TX_CONFIRMATION))
  /\ \A i, j \in 1 .. Len(stack) :
       stack[i] = TX_CONFIRMATION /\ stack[j] = TX_CONFIRMATION => i = j

\* _notify_event drops an event silently when the stack is full (melo.c:275);
\* with the shipped size of 5 (melo_cfg.h:31) that never comes to pass, although
\* requests arrive as fast as the line allows.
StackHasRoom == Len(stack) < StackSize - 1

\* The application sends from the library's own buffers (melo.c:902, 932): as
\* long as it does, no request rewrites them and no other transmission starts.
BuffersStable == [][tx # "none" => /\ UNCHANGED frames
                                   /\ tx' \in {tx, "none"}]_vars

\* The state machine keeps the promise of MeloReplies: a packet is taken up at
\* most once and never in the middle of a reply, and the pending response and
\* the final response that follows it are about one request.
Replies == INSTANCE MeloReplies WITH
  inbox    <- IF Pending(stack, REQUEST_RECEIVED) THEN packet ELSE NoRequest,
  phase    <- CASE current_state = IDLE      -> "idle"
                [] current_state = RESP_PEND -> "pending"
                [] current_state = TX_PEND   -> "final",
  answered <- IF current_state = RESP_PEND THEN wait_frame ELSE send_frame

RepliesSpec == Replies!Spec

\* A slave that has begun a reply gets to the end of it, however many packets
\* arrive meanwhile, provided that MeloBackground comes to its end again and again
\* (melo.c:259): it pops the newest event first, so requests that interrupt it as
\* fast as it drops them keep the confirmation below them waiting.
RepliesEnd == []<>(~ running) => (current_state # IDLE ~> current_state = IDLE)

\* The chart gives RESP_PROC the transition AFTER(500) to IDLE (states.yml:25):
\* an event that takes the timer past its limit brings the slave back to IDLE.
TimeoutReturnsToIdle ==
  [][timer' # timer /\ timer' > After => current_state' = IDLE]_vars
================================================================================
