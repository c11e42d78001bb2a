---------------------------- MODULE MCConsole ----------------------------
EXTENDS Console

(* A page of memory that is not blank: one character, where programs draw.  *)
MCLeftovers == {[i \in Cells |-> IF i = 4 THEN "o" ELSE Space]}

MCOutputs == [t \in Terms |-> {"o"}]

MCDrawings == {<<4, "o">>}
=============================================================================
