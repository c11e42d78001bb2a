------------------------------ MODULE Screens ------------------------------
(***************************************************************************)
(* What the display promises: every terminal has a picture of its own,     *)
(* which only output to that terminal changes, and choosing the terminal   *)
(* to look at changes no picture.                                          *)
(***************************************************************************)
CONSTANTS Terms, Marks

VARIABLES pic, shown

(* The content of a page of text, by the output it shows last: whose it is  *)
(* and which mark it left.                                                  *)
Blank(t) == [by |-> t, mark |-> "blank"]
Drawn(t, m) == [by |-> t, mark |-> m]

Init == pic = [t \in Terms |-> Blank(t)] /\ shown \in Terms

Output(t, m) == pic' = [pic EXCEPT ![t] = Drawn(t, m)] /\ UNCHANGED shown
Show(t) == shown' = t /\ UNCHANGED pic

Next == \E t \in Terms : Show(t) \/ \E m \in Marks : Output(t, m)

Spec == Init /\ [][Next]_<<pic, shown>>
=============================================================================
