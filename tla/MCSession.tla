------------------------------- MODULE MCSession -------------------------------
(* Two cells, at an address that needs no escape and at one that does, and a    *)
(* value that needs one.  The uninitialised buffer holds nothing but data, HEAD,*)
(* TAIL or ESCAPE bytes, HEADs and TAILs in turn, one ESCAPE byte where an      *)
(* answer does not reach, or a frame there that nobody sent.                    *)
EXTENDS MeloSession

MCCommands ==
  {[kind |-> "read", address |-> a, size |-> 1] : a \in {0, 33}}
    \cup {[kind |-> "write", address |-> 0, value |-> <<33>>]}

MCZeros == {[i \in 1 .. RX_SIZE |-> 0]}

\* A positive response without data, behind the answer to a read.
StrayFrame == [i \in 1 .. RX_SIZE |-> CASE i = 11 -> 40
                                        [] i = 13 -> Slave!POSITIVE * 64
                                        [] i = 14 -> 32
                                        [] OTHER  -> 0]

MCGarbage == {[i \in 1 .. RX_SIZE |-> b] : b \in {0, 32, 40, 127}}
               \cup {[i \in 1 .. RX_SIZE |-> IF i % 2 = 0 THEN 40 ELSE 32],
                     [i \in 1 .. RX_SIZE |-> IF i = 15 THEN 127 ELSE 0],
                     StrayFrame}
================================================================================
