--------------------------- MODULE MCTagTransfer ---------------------------
(* Instances of TagTransfer for TLC: the tags, their lists and their sizes. *)
EXTENDS TagTransfer

TwoTags       == {1, 2}
OneList       == {1}
OneTag        == {1}
TwoLists      == {1, 2}
AllOnOne      == [t \in TwoTags |-> 1]
OnIt          == [t \in OneTag |-> 1]
OneOnEach     == [t \in TwoTags |-> t]

\* A read request of 20 bytes and elements of 4 bytes: a write request takes
\* 26 bytes and more.
Names         == [t \in Tag |-> 20]
Words         == [t \in Tag |-> 4]
Single        == [t \in Tag |-> 1]
GrowFirst     == [t \in Tag |-> IF t = 1 THEN 2 ELSE 1]

\* No strings, or the second tag is one, with elements of 10 bytes: its write
\* request takes 34 bytes, 6 of them for the text.  The text of one value is
\* empty, that of the others longer than the place for it.
NoTag         == {}
Second        == {2}
WordAndString == [t \in Tag |-> IF t \in StringTag THEN 10 ELSE 4]
Texts         == [v \in Value |-> IF v = CHOOSE w \in Value : TRUE THEN 0 ELSE 8]

\* 2+4+2 + 2*2 + 20+20 = 52 bytes for two reads, 58 if the first is a write,
\* 66 if the second, of a string, is one, and 72 for both.
TwoReads      == 57
OneWrite      == 60

\* 8 bytes for each tag but 40 for the first: its read needs 2+4+2 + 2 + 20 =
\* 30 bytes and 4+2 + 2 + 46 = 54 for the response, its write 72.
BigFirst      == [t \in Tag |-> IF t = 1 THEN 40 ELSE 8]
BigRead       == 60
=============================================================================
