---------------------------- MODULE AiryTransitions ----------------------------
(***************************************************************************)
(* The transition function that airy generates into a state machine        *)
(* (templates/builtins.tpl; in melo.c _is_parent and _state_transition).   *)
(*                                                                         *)
(* A table gives each state the left and right number of a nested set: a   *)
(* state lies inside another when its interval does.  States are numbered  *)
(* from 0, and the loops of the code never look at state 0 as a parent.    *)
(***************************************************************************)
EXTENDS Naturals, Sequences

\* Mutant of is_parent: every state is its own parent.
is_parent_or_self(table, child, parent) ==
  /\ table[parent].left  <= table[child].left
  /\ table[parent].right >= table[child].right

is_parent(table, child, parent) ==
  /\ table[parent].left  < table[child].left
  /\ table[parent].right > table[child].right

\* Mutant of crossed: parents of both ends are crossed as well.
crossed_and_touched(table, from, to) ==
  {index \in 1 .. from : is_parent(table, from, index)}

\* The parents of `from' that a transition to `to' really leaves: the ones that
\* also hold `to' are only touched.  The exit loop looks at 1 .. start_state
\* and the entry loop at 1 .. dest_state, so `from' bounds both.
crossed(table, from, to) ==
  {index \in 1 .. from : /\ is_parent(table, from, index)
                         /\ ~ is_parent(table, to, index)}

exited(table, start, dest)  == crossed(table, start, dest) \cup {start}
entered(table, start, dest) == crossed(table, dest, start) \cup {dest}

\* The two loops: the states of S in the order of a falling and of a rising index,
\* up to n.  The falling one ends at 1, as the numbers of states begin at 0.
downwards(S, n) ==
  LET loop[index \in 0 .. n] ==
        IF index = 0 THEN <<>>
        ELSE (IF index \in S THEN <<index>> ELSE <<>>) \o loop[index - 1]
  IN loop[n]

upwards(S, n) ==
  LET loop[index \in 0 .. n] ==
        IF index = 0 THEN <<>>
        ELSE loop[index - 1] \o (IF index \in S THEN <<index>> ELSE <<>>)
  IN loop[n]

\* Mutants of exit_calls: the parents stay open; the parents go first.
exit_calls_start_only(table, start, dest) == <<start>>

exit_calls_parents_first(table, start, dest) ==
  downwards(crossed(table, start, dest), start) \o <<start>>

\* Mutant of entry_calls: the loop's index, one past its end, for dest_state.
entry_calls_by_index(table, start, dest) ==
  upwards(crossed(table, dest, start), dest) \o <<dest + 1>>

\* The order of the calls: start_state first and then its parents downwards,
\* the parents of dest_state upwards and dest_state last.
exit_calls(table, start, dest) ==
  <<start>> \o downwards(crossed(table, start, dest), start)

entry_calls(table, start, dest) ==
  upwards(crossed(table, dest, start), dest) \o <<dest>>
================================================================================
