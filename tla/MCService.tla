-------------------------------- MODULE MCService --------------------------------
(* Four cells, enough for one uint32_t and for two uint16_t that overlap, and    *)
(* values whose bytes differ, some of which need an escape.                      *)
EXTENDS MeloService

MCValues == {<<33>>, <<1, 33>>, <<34, 33, 1, 33>>}
==================================================================================
