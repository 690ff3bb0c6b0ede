-------------------------------- MODULE MCLink --------------------------------
(* Data that tests the five-byte window of an ESCAPE byte: windows that start  *)
(* early and late, a second window, bytes that look like HEAD (40), TAIL (32)  *)
(* and ESCAPE (97, 104), and no data at all.                                   *)
EXTENDS MeloLink

MCPayloads ==
  {<<>>, <<33>>, <<40, 32, 97>>, <<1, 33, 2, 33>>,
   <<33, 1, 1, 1, 1, 33, 33>>, <<2, 63, 32, 40, 97, 104, 33>>}
===============================================================================
