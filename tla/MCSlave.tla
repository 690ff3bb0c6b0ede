-------------------------------- MODULE MCSlave --------------------------------
(* Three requests, so that one can replace another that replaced a third, and  *)
(* a packet that is none; two requests where the timer is what counts.         *)
EXTENDS MeloSlave

CONSTANTS r1, r2, r3, n1

MCRequests     == {r1, r2, r3}
MCTwoRequests  == {r1, r2}
MCNonRequests  == {n1}
NoPackets      == {}
================================================================================
