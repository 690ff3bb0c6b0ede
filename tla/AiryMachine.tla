------------------------------ MODULE AiryMachine ------------------------------
(***************************************************************************)
(* A state machine as airy generates it, for any chart: one step per call  *)
(* of an entry or exit action.  The code keeps nothing but the number of   *)
(* the current state; that the calls of _state_transition open and close   *)
(* the states around it in the right order follows only from the numbers   *)
(* in the table.                                                           *)
(*                                                                         *)
(* The charts are those that suit the loops of _state_transition: a state  *)
(* has a larger number than its parent, and state 0 has no substates.      *)
(* Transitions belong to the current state; those of a parent, whose       *)
(* result the substate throws away (states.tpl:34), are the subject of     *)
(* TimeoutReturnsToIdle in MeloSlave.                                      *)
(*                                                                         *)
(* The names allow a module to extend this one together with a machine     *)
(* that airy generated, such as MeloSlave.                                 *)
(***************************************************************************)
EXTENDS AiryTransitions

CONSTANTS Top,              \* the largest state number
          Numbers           \* the numbers in _table, for each chart
ASSUME TopAssumption == Top \in Nat \ {0}

States == 0 .. Top

Charts == {p \in [States -> States] :
             /\ \A s \in States : p[s] <= s
             /\ \A s \in States : p[s] = 0 => s = 0}

\* The states that enclose s, by the parents p given in states.yml.
Ancestors(p, s) ==
  LET above[t \in States] == IF p[t] = t THEN {} ELSE {p[t]} \cup above[p[t]]
  IN above[s]

\* The numbers an author writes beside each state are intervals that nest as the
\* states do.
Nests(p, table) ==
  \A s, t \in States : t \in Ancestors(p, s) <=> /\ table[t].left < table[s].left
                                                 /\ table[s].right < table[t].right

ASSUME NumbersAssumption ==
  /\ Numbers \in [Charts -> [States -> [left : Nat, right : Nat]]]
  /\ \A p \in Charts : Nests(p, Numbers[p])

VARIABLES parent,           \* the chart: the parent of a state, itself if it has none
          state,            \* _current_state
          dest,             \* where the transition under way leads
          todo,             \* the calls it still has to make
          active            \* the states entered and not exited since

airy_vars == <<parent, state, dest, todo, active>>

AiryInit == /\ parent \in Charts
            /\ state = 0
            /\ dest = 0
            /\ todo = <<>>
            /\ active = {0}

calls(kind, states) == [i \in 1 .. Len(states) |-> [kind |-> kind, state |-> states[i]]]

\* A guard of the current state holds: its during action starts
\* _state_transition.  A transition to the state itself calls nothing.
Take(d) ==
  /\ todo = <<>>
  /\ d # state
  /\ dest' = d
  /\ todo' = calls("exit", exit_calls(Numbers[parent], state, d))
               \o calls("entry", entry_calls(Numbers[parent], state, d))
  /\ UNCHANGED <<parent, state, active>>

\* One call; after the last one the during action returns dest.
Call ==
  /\ todo # <<>>
  /\ active' = IF Head(todo).kind = "exit" THEN active \ {Head(todo).state}
                                           ELSE active \cup {Head(todo).state}
  /\ todo' = Tail(todo)
  /\ state' = IF Len(todo) = 1 THEN dest ELSE state
  /\ UNCHANGED <<parent, dest>>

AiryNext == (\E d \in States : Take(d)) \/ Call

AirySpec == AiryInit /\ [][AiryNext]_airy_vars

------------------------------------------------------------------------------
AiryTypeOK ==
  /\ parent \in Charts
  /\ state \in States /\ dest \in States
  /\ todo \in Seq([kind : {"exit", "entry"}, state : States])
  /\ active \subseteq States

\* Between two transitions exactly the current state and the states around it
\* are open: what _current_state means to entry and exit actions (builtins.tpl:17).
ConfigurationMatches ==
  todo = <<>> => active = Ancestors(parent, state) \cup {state}

\* At each single call the parents of what is open are open: a state is entered
\* after its parents and exited before them.
ParentsOutlast == \A s \in active : parent[s] \in active

\* No state is entered that is open or exited that is not.
EnteredOnce ==
  [][todo # <<>> => (Head(todo).kind = "exit" <=> Head(todo).state \in active)]_airy_vars

\* A parent of both ends of a transition is only touched (builtins.tpl:34, 53):
\* it stays open throughout.
SharedParentsStay ==
  [][todo # <<>> =>
       Ancestors(parent, state) \cap Ancestors(parent, dest) \subseteq active']_airy_vars
================================================================================
