---------------------------- MODULE MCRegistry -----------------------------
(* Instances of Registry for TLC. The links are parsed by analyze_link: two  *)
(* name elements of the same array, with different periods, two name other   *)
(* tags, and one cannot be parsed. What the records read and write through   *)
(* their links does not depend on the state: what DataChecks says of that is *)
(* evaluated in one state.                                                   *)
EXTENDS Registry, DataChecks

TwoPeriods == {1, 2}
OnePLC == {"P"}

Text(name, index, period) ==
    [plc |-> "P", name |-> name, index |-> index, E |-> FALSE, S |-> period, B |-> NoBit, ok |-> TRUE]

TextOf ==
    [slow  |-> Text("a", 3, 2),
     fast  |-> Text("a", 1, 1),
     other |-> Text("b", NoIndex, 1),
     third |-> Text("c", NoIndex, 1),
     bad   |-> [Text("a", 3, 2) EXCEPT !.ok = FALSE]]

LinksOfRecords == [r \in Record |-> IF r \in Output THEN {"fast", "bad"}
                                                   ELSE {"slow", "other"}]
OtherLinks == [r \in Record |-> {"other", "third"}]

(* All records are linked, so that every way to hold a lock set that the     *)
(* scan task waits for occurs; or each record is on its own.                 *)
Linked == [th \in Record \cup {Stats} |-> "set"]
Unlinked == [th \in Record \cup {Stats} |-> th]

(* Records of one number, with SCAN fields that are not periodic. *)
NameOf(l) == analyze_link(TextOf[l], 1, 0).tag[1]
NamesOnP == [t \in Tag |-> "P"]

AnalysedLinks ==
    [r \in Record |-> [l \in LinksFor[r] |->
        [tag      |-> IF Refused(TextOf[l], 1, 0) THEN NoTag ELSE NameOf(l),
         period   |-> LinkPeriod(TextOf[l], 0, 0),
         elements |-> analyze_link(TextOf[l], 1, 0).elements]]]

FirstState == Init /\ link = [r \in Record |-> CHOOSE l \in LinksFor[r] : TRUE]

(* Records that share an array only change their own bits (put_bits), and    *)
(* those that read bits see what they wrote; the first of several bits is    *)
(* only seen where it is bit 0 of its word (get_bits).                       *)
BitsAreOwn == FirstState => BitsAreOwnHolds

(* What a record writes comes back to it, and is not written again           *)
(* (ao_write, check_ao_callback and the others).                             *)
ValueComesBack == FirstState => ValueComesBackHolds

(* A text stays within its tag, and comes back to a record on its first      *)
(* element; a record on a later one goes on reading what it did (so_write).  *)
TextComesBack == FirstState => TextComesBackHolds
=============================================================================
