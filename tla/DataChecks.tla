----------------------------- MODULE DataChecks ------------------------------
(* TagData against what a record should see of a tag: an array of three      *)
(* elements, every bit and every group of up to four bits in it, numbers and *)
(* texts on both sides of every limit.                                       *)
EXTENDS TagData

NElements == 3

ArrayOf(type, pattern) ==
    [type |-> type, valid |-> TRUE, elements |-> NElements,
     bytes |-> [i \in 1 .. NElements * CIP_Type_size(type) |-> pattern[1 + (i % 2)]]]

Arrays(type) ==
    {ArrayOf(type, pattern) :
        pattern \in {<<0, 0>>, <<ByteValues - 1, ByteValues - 1>>, <<1, ByteValues - 2>>}}

(* Links to single bits or groups of them, by index or by B flag, and the    *)
(* first bit of the array that they name.                                    *)
Plain == [plc |-> "P", name |-> "a", index |-> NoIndex, E |-> FALSE, S |-> 0, B |-> NoBit, ok |-> TRUE]

BitLink(link, n, first) ==
    LET use == analyze_link(link, 1, n)
    IN  [element |-> use.element, mask |-> use.mask, elements |-> use.elements,
         bits |-> n, first |-> first, states |-> <<>>]

IndexLink(i, n) == BitLink([Plain EXCEPT !.index = i], n, i)
BLink(e, b, n) == BitLink([Plain EXCEPT !.index = e, !.B = b], n, e * WordBits + b)

IndexLinks == {IndexLink(i, n) : i \in 0 .. 2 * WordBits - 1, n \in 1 .. 4}
BLinks == {BLink(e, b, n) : e \in 0 .. 1, b \in 0 .. WordBits - 1, n \in 1 .. 4}
BoolLink == BitLink(Plain, 1, 0)

AllBits(tag) ==
    {n \in 0 .. tag.elements * WordBits - 1 : n % WordBits \in Word(tag, n \div WordBits)}
-----------------------------------------------------------------------------
(* An output record changes its own bits and no others, across the elements, *)
(* and sees what it wrote, but for the first of several bits: the code shows *)
(* that only where it is the first of its word, and 0 everywhere else.       *)
BitsPut(tag, link, rval) ==
    LET own == link.first .. link.first + link.bits - 1
        new == put_bits(tag, link, link.bits, rval)
    IN  /\ AllBits(new) = (AllBits(tag) \ own) \cup {link.first + i : i \in rval}
        /\ get_bits(new, link, link.bits) =
               {i \in rval : i = 0 /\ link.bits > 1 => link.first % WordBits = 0}

(* The bits of an index are in the elements that the driver is told to read. *)
(* With a B flag only those of the first element are.                        *)
BitsRead(link) == (link.first + link.bits - 1) \div WordBits < link.elements

BoolPut(tag, rval) == get_bits(put_bits(tag, BoolLink, 1, rval), BoolLink, 1) = rval

(* Output records that share an array change their own bits (put_bits,       *)
(* get_bits, analyze_link).                                                  *)
BitsAreOwnHolds ==
    /\ \A tag \in Arrays("DINT"), link \in IndexLinks \cup BLinks :
        \A rval \in SUBSET (0 .. link.bits - 1) : BitsPut(tag, link, rval)
    /\ \A link \in IndexLinks : BitsRead(link)
    /\ \A link \in BLinks : BitsRead(link) <=> (link.first % WordBits) + link.bits <= WordBits
    /\ \A tag \in Arrays("BOOL"), rval \in SUBSET {0} : BoolPut(tag, rval)

(* Numbers on both sides of every power of two, up to that many bits. *)
Edges(bits) == {s * Two[k] + d : s \in {-1, 1}, k \in 0 .. bits - 1, d \in -1 .. 1}

(* The numbers that a type can hold. A SINT is read as a positive number.    *)
Values(type) ==
    LET bits == CIP_Type_size(type) * ByteBits
    IN  IF type = "SINT" THEN 0 .. ByteValues - 1 ELSE -Two[bits - 1] .. Two[bits - 1] - 1

Fitting(type) ==
    IF type \in {"SINT", "INT"} THEN Values(type)
    ELSE Edges(CIP_Type_size(type) * ByteBits) \cap Values(type)

At(element) == [element |-> element, states |-> <<>>]

(* A value that the type can hold arrives in the record's own element only,  *)
(* comes back as the same value, and is seen by the input records too.       *)
NumberComesBack(type) ==
    \A tag \in Arrays(type), element \in 0 .. NElements - 1, v \in Fitting(type) :
        \E kind \in {IF type = "LINT" THEN "int64out" ELSE "ao"} :
        \E new \in {Write(kind, tag, At(element), v)} :
        \E whole \in {wf_read(new, At(0), IF type = "SINT" THEN "CHAR" ELSE "LONG", NElements)} :
            /\ Reads(kind, new, At(element)) = Got(v)
            /\ \A other \in (0 .. NElements - 1) \ {element} :
                Reads(kind, new, At(other)) = Reads(kind, tag, At(other))
            /\ IF type = "LINT" THEN int64in_read(new, At(element)) = Got(v)
               ELSE ai_read(new, At(element)) = Got(v) /\ whole.value[element + 1] = v

(* A record never writes for ever against its own callback.                  *)
Settles(kind, tag, use, v) ==
    \E new \in {Write(kind, tag, use, v)} :
        \E taken \in {TakesOver(kind, new, use, v)} : ~NeedsWrite(kind, new, use, taken)

(* Nor does it write at all when the PLC changes the value, as long as an    *)
(* mbbo has a state for it.                                                  *)
OnlyFollows(kind, tag, use, rval) ==
    \E taken \in {TakesOver(kind, tag, use, rval)} : ~NeedsWrite(kind, tag, use, taken)

(* The bits around the border of two words. *)
NearBorder == WordBits - 4 .. WordBits

(* All of this for ao, int64out, bo, mbbo with states and without, and       *)
(* mbboDirect; bi and mbbi see the same (the read and write routines and the *)
(* callbacks of devEtherIP.c, get_CIP_..., put_CIP_...).                     *)
ValueComesBackHolds ==
    /\ \A type \in {"SINT", "INT", "DINT", "BITS", "LINT"} : NumberComesBack(type)
    /\ \A type \in {"SINT", "INT", "DINT"}, v \in Edges(WordBits) :
        \A tag \in Arrays(type) : Settles("ao", tag, At(1), v) /\ OnlyFollows("ao", tag, At(1), v)
    /\ \A tag \in Arrays("DINT"), link \in {l \in IndexLinks : l.first \in NearBorder} :
        LET Holds(kind, states) ==
                \E use \in {[link EXCEPT !.states = states]} :
                    \A v \in 0 .. Two[link.bits] - 1 :
                        /\ Settles(kind, tag, use, v)
                        /\ OnlyFollows(kind, tag, use, v)
                        /\ \E new \in {Write(kind, tag, use, v)} :
                               IF link.bits = 1 THEN bi_read(new, use) = Got(v)
                               ELSE link.mask = {0} => mbbi_read(new, use) = Got(v)
        IN  /\ link.bits = 1 => Holds("bo", <<>>)
            /\ Holds("mbbo", <<>>) /\ Holds("mbboDirect", <<>>)
            /\ Holds("mbbo", [i \in 1 .. Two[link.bits] |-> (i + 2) % Two[link.bits]])

(* A text that a record writes into a tag of strings stays within its data,  *)
(* and comes back to a record on the first element the same, or cut off to   *)
(* what the tag can hold; then nothing more is written. A long string has a  *)
(* size of its own. To a record on a later element it does not.              *)
LongTextComesBack(raw, val, size, capacity) ==
    LET total == TextHead + capacity
        new   == lso_write(raw, 0, val, size, total)
        got   == check_lso_callback(new, 0, size)
    IN  /\ Len(new.text) = capacity
        /\ got = SubSeq(val, 1, Len(got))
        /\ lso_write(new, 0, got, size, total) = new
        /\ Len(val) < capacity => got = val /\ lsi_read(new, 0, size).len = Len(val) + 1

TextComesBackCut(raw, val, capacity) ==
    LET total == TextHead + capacity
        new   == so_write(raw, 0, val, total)
        got   == check_so_callback(new, 0)
    IN  /\ Len(new.text) = capacity
        /\ got = SubSeq(val, 1, Len(got))
        /\ so_write(new, 0, got, total) = new
        /\ Len(val) < capacity /\ Len(val) < MAX_STRING_SIZE => si_read(new, 0) = val

(* Whichever record writes, one on a later element reads on what it did, as  *)
(* long as the text has room in a string of its own.                         *)
LaterTextStays(raw, writer, element, val, size, capacity) ==
    lsi_read(lso_write(raw, writer, val, size, TextHead + capacity), element, size)
        = lsi_read(raw, element, size)

CharsOf(n) == [i \in 1 .. n |-> 65 + i]
RawOf(capacity, m) ==
    [type |-> "STRUCT", length |-> m,
     text |-> [i \in 1 .. capacity |-> IF i <= m THEN 97 ELSE 0]]

(* Two strings of m characters each. *)
PairCapacity == Before(1) + T_CIP_STRUCT_STRING_BUF
PairOf(m) ==
    [type |-> "STRUCT", length |-> m,
     text |-> [i \in 1 .. PairCapacity |->
                  IF i = Before(1) - 3 THEN m
                  ELSE IF i \in 1 .. m \/ i - Before(1) \in 1 .. m THEN 97 ELSE 0]]

(* All of this for tags and texts of several lengths (so_write,              *)
(* check_so_callback, put_CIP_STRING, get_CIP_STRING).                       *)
TextComesBackHolds ==
    /\ \A capacity \in 1 .. 5, n \in 0 .. 5, m \in 0 .. 3 :
        m < capacity =>
            /\ \A size \in n + 1 .. 7 :
                  LongTextComesBack(RawOf(capacity, m), CharsOf(n), size, capacity)
            /\ TextComesBackCut(RawOf(capacity, m), CharsOf(n), capacity)
    /\ \A n \in {0, 3, T_CIP_STRUCT_STRING_BUF - 1}, m \in {0, 3}, writer \in {0, 1} :
        LaterTextStays(PairOf(m), writer, 1, CharsOf(n), n + 1, PairCapacity)
=============================================================================
