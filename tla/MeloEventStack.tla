---------------------------- MODULE MeloEventStack ----------------------------
(***************************************************************************)
(* The stack of pending events of melo.c: _m_event_stack with the          *)
(* operations _notify_event and _get_event.                                *)
(*                                                                         *)
(* In the code the stack is an array of StackSize bytes and a length; the  *)
(* events occupy the slots 1 .. length, and slot 0 keeps the 0 of its      *)
(* initialiser, which is MELO_EVENT_IDLE.  Here a stack is the sequence of *)
(* its occupied slots, oldest event first.                                 *)
(***************************************************************************)
EXTENDS Naturals, Sequences

CONSTANT StackSize          \* MELO_CFG_MAX_STACK_SIZE

\* The shipped value is 5: slot 0 is never used and a stack of length 4 is full.
ASSUME StackSizeAssumption == StackSize \in Nat /\ StackSize >= 5

EVENT_IDLE       == 0
REQUEST_RECEIVED == 1
TX_CONFIRMATION  == 2

Events == {REQUEST_RECEIVED, TX_CONFIRMATION}

\* The byte at data[length]: slot 0 when nothing is pending.
top(stack) == IF stack = <<>> THEN EVENT_IDLE ELSE stack[Len(stack)]

is_full(stack) == Len(stack) = StackSize - 1

\* Mutants of notify_event: no check for an equal event; room for one event only.
notify_event_always(stack, event) ==
  IF is_full(stack) THEN stack ELSE Append(stack, event)

notify_event_one_slot(stack, event) ==
  IF stack # <<>> THEN stack ELSE Append(stack, event)

\* _notify_event: an event that finds the stack full, or an equal event on top
\* of it, is dropped without a trace.
notify_event(stack, event) ==
  IF is_full(stack) \/ top(stack) = event THEN stack ELSE Append(stack, event)

\* What _get_event leaves behind; the event it returns is top(stack).
popped(stack) ==
  IF stack = <<>> THEN stack ELSE SubSeq(stack, 1, Len(stack) - 1)

Pending(stack, event) == \E i \in 1 .. Len(stack) : stack[i] = event
===============================================================================
