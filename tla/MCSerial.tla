-------------------------------- MODULE MCSerial --------------------------------
(* Two workers with a call each, and the owner with two; two ports.             *)
EXTENDS SerialPort

CONSTANTS w1, w2, p1, p2

MCSystems == {"unix", "windows"}
MCWorkers == {w1, w2}
MCPorts   == {p1, p2}
MCSizes   == {2}
MCLines   == {3}
MCTasks ==
  [t \in MCWorkers \cup {Owner} |->
     CASE t = w1    -> {"readline", "write", "flushInput"}
       [] t = w2    -> {"read", "readlines", "write", "flush"}
       [] t = Owner -> {"open", "close", "setPort", "set"}]
MCCalls   == [t \in MCWorkers \cup {Owner} |-> IF t = Owner THEN 2 ELSE 1]
================================================================================
