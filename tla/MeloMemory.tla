------------------------------- MODULE MeloMemory -------------------------------
(***************************************************************************)
(* Direct memory access as the README promises it: a master views and      *)
(* modifies the cells it asks for, and no others.                          *)
(***************************************************************************)
EXTENDS Naturals, Sequences

CONSTANTS Cells,        \* the addresses that exist
          Operations,   \* what a master can ask for
          Stored(_)     \* the bytes of a value in the order memory holds them

VARIABLES asked,        \* the operation of the last request
          mem,          \* the memory
          positive,     \* whether the last reply was positive
          answer        \* the data of the last reply

vars == <<asked, mem, positive, answer>>

Idle == [kind |-> "none"]

Init == /\ asked = Idle
        /\ mem \in [Cells -> Nat]
        /\ positive = FALSE
        /\ answer = <<>>

Read(op) ==
  /\ op.kind = "read"
  /\ answer' = [i \in 1 .. op.size |-> mem[op.address + i - 1]]
  /\ positive' = TRUE
  /\ UNCHANGED mem

Write(op) ==
  /\ op.kind = "write"
  /\ mem' = [cell \in Cells |->
               IF cell \in op.address .. op.address + Len(op.value) - 1
               THEN Stored(op.value)[cell - op.address + 1]
               ELSE mem[cell]]
  /\ positive' = TRUE

\* A request to write that carries only the beginning of its value puts that where
\* it belongs; what it puts into the other cells of the value is left open.
WriteShort(op) ==
  /\ op.kind = "short"
  /\ mem' \in [Cells -> Nat]
  /\ LET place == [i \in 1 .. op.size |-> op.address + i - 1]
         value == Stored([i \in 1 .. op.size |-> mem'[place[i]]])
     IN /\ \A cell \in Cells :
             mem'[cell] # mem[cell] => \E i \in 1 .. op.size : cell = place[i]
        /\ SubSeq(value, 1, Len(op.value)) = op.value
  /\ positive' = TRUE

\* Whatever else is asked is refused, and touches nothing.
Refuse(op) ==
  /\ op.kind = "other"
  /\ positive' = FALSE
  /\ UNCHANGED mem

Next == \E op \in Operations :
          asked' = op /\ (Read(op) \/ Write(op) \/ WriteShort(op) \/ Refuse(op))

Spec == Init /\ [][Next]_vars
================================================================================
