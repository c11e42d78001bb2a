--------------------------- MODULE MCInterrupts ---------------------------
EXTENDS Interrupts

(* The lines the system uses, one of the master and one of the slave that   *)
(* it does not, and the cascade.                                            *)
MCLines == {0, 1, 2, 3, 8, 12}
=============================================================================
