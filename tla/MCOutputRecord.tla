--------------------------- MODULE MCOutputRecord ---------------------------
(* Instances of OutputRecord for TLC: one tag, and the records on it.        *)
EXTENDS OutputRecord

OneTag        == {1}
OneList       == {1}
OnIt          == [t \in OneTag |-> 1]
Names         == [t \in OneTag |-> 20]
Words         == [t \in OneTag |-> 4]
NoTag         == {}
Texts         == [v \in Value |-> 0]
Single        == [t \in OneTag |-> 1]
Double        == [t \in OneTag |-> 2]
AllOnIt       == [r \in Record |-> 1]
Enough        == 100
=============================================================================
