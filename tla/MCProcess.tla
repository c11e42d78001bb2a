----------------------------- MODULE MCProcess -----------------------------
(* Process with its inductive invariant, for TLC.                           *)
EXTENDS ProcessInv
=============================================================================
