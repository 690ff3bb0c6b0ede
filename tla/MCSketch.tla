-------------------------------- MODULE MCSketch --------------------------------
(* A read and two writes, with addresses and values that need an escape and some *)
(* that do not, and a request the slave refuses.  A write ends short in the      *)
(* middle of a frame, behind an ESCAPE byte if there is one.                     *)
EXTENDS MeloSketch

MCCommands ==
  {[kind |-> "read", address |-> 33, size |-> 1],
   [kind |-> "write", address |-> 0, value |-> <<33>>],
   [kind |-> "write", address |-> 32, value |-> <<9, 33>>],
   [kind |-> "other", address |-> 0, subfunction |-> 3, service |-> 0]}
MCShortWrites == {5}
================================================================================
