------------------------------ MODULE MCStdio ------------------------------
(* A small disk and a two-byte buffer for Stdio.tla. *)
EXTENDS Stdio

MCPayload  == {<< >>, <<0>>, <<10, 0>>, <<0, 10, 0>>}
MCOffset   == {-1, 1}
MCContent0 == {<<0, 10>>}
=============================================================================
