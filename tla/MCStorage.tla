------------------------------ MODULE MCStorage ------------------------------
(* A storage with blocks of zero, one and two cells.                       *)
EXTENDS Storage

MCBlocks == {<< >>, <<"a">>, <<"b", "c">>}
=============================================================================
