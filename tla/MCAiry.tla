-------------------------------- MODULE MCAiry --------------------------------
(* Every chart of six states: among them two chains of two below one parent.   *)
EXTENDS AiryMachine, FiniteSets

\* The numbers of a chart: the states in the order in which their intervals begin,
\* with siblings from left to right in the order of their numbers.
MCNumbers ==
  [p \in Charts |->
     LET around == [s \in States |-> Ancestors(p, s)]
         before(s, t) ==
           \E a \in around[s] \cup {s}, b \in around[t] \cup {t} :
             /\ a < b
             /\ \/ p[a] = p[b] /\ p[a] \notin {a, b}
                \/ p[a] = a /\ p[b] = b
         left(s)   == 1 + 2 * Cardinality({t \in States : before(t, s)})
                        + Cardinality(around[s])
         inside(s) == Cardinality({t \in States : s \in around[t]})
     IN [s \in States |-> [left |-> left(s), right |-> left(s) + 1 + 2 * inside(s)]]]
===============================================================================
