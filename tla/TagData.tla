------------------------------- MODULE TagData -------------------------------
(* What records read from and write into the data of a tag: the typed access *)
(* of ether_ip.c to its elements, and in devEtherIP.c the bits that a link   *)
(* names and the values that output records compare, write and take over.    *)
(*                                                                           *)
(* 32 and 31 of the code are WordBits and WordBits - 1, and 255 has the      *)
(* ByteBits lowest bits. A mask, like the word it is applied to, is a set of *)
(* bit numbers. REAL and LREAL are left out.                                 *)
EXTENDS Integers, Sequences, FiniteSets, SequencesExt

CONSTANTS
    ByteBits,        \* bits of a byte: 8, or fewer to check all values of a word
    MAX_STRING_SIZE  \* of EPICS base: 40

\* A LINT has at least the 16 bits of an mbboDirect record.
ASSUME DataAssumption ==
    /\ ByteBits \in Nat /\ ByteBits >= 2
    /\ MAX_STRING_SIZE \in Nat \ {0}

WordBits == 4 * ByteBits
MaxBits == 8 * ByteBits

(* 2 ^ n *)
Two[n \in 0 .. MaxBits] == IF n = 0 THEN 1 ELSE 2 * Two[n - 1]

ByteValues == Two[ByteBits]

(* The driver keeps the type and the bytes of all elements. UINT and others  *)
(* have no size: all elements are read where the first one is.               *)
CIP_Type_size(type) ==
    CASE type \in {"BOOL", "SINT"} -> 1
      [] type = "INT" -> 2
      [] type \in {"DINT", "BITS"} -> 4
      [] type \in {"LINT", "ULINT"} -> 8
      [] OTHER -> 0

Offset(tag, element) == element * CIP_Type_size(tag.type)

(* unpack_UINT, unpack_UDINT, unpack_LINT: the lowest byte comes first. *)
Unsigned(tag, element, n) ==
    LET from[i \in 1 .. n + 1] ==
            IF i > n THEN 0
            ELSE tag.bytes[Offset(tag, element) + i] + ByteValues * from[i + 1]
    IN  from[1]

Signed(tag, element, n) ==
    LET half == Two[n * ByteBits - 1]
    IN  ((Unsigned(tag, element, n) + half) % Two[n * ByteBits]) - half

(* pack_USINT, pack_UINT, pack_UDINT, pack_LINT: what does not fit is lost. *)
Pack(tag, element, n, value) ==
    [tag EXCEPT !.bytes = [k \in DOMAIN tag.bytes |->
        LET i == k - Offset(tag, element)
        IN  IF i \in 1 .. n THEN (value \div Two[(i - 1) * ByteBits]) % ByteValues
                            ELSE tag.bytes[k]]]
-----------------------------------------------------------------------------
(* A value, or none for a type that the function does not know. *)
Got(value) == [ok |-> TRUE, value |-> value]
None == [ok |-> FALSE, value |-> 0]

get_CIP_UDINT(tag, element) ==
    CASE tag.type \in {"BOOL", "SINT"} -> Got(Unsigned(tag, element, 1))
      [] tag.type \in {"INT", "UINT"} -> Got(Unsigned(tag, element, 2))
      [] tag.type \in {"DINT", "BITS"} -> Got(Unsigned(tag, element, 4))
      [] OTHER -> None

(* get_CIP_DINT that takes INT for unsigned, like SINT. *)
get_CIP_DINT_Unsigned(tag, element) ==
    CASE tag.type \in {"BOOL", "SINT"} -> Got(Unsigned(tag, element, 1))
      [] tag.type \in {"INT", "UINT"} -> Got(Unsigned(tag, element, 2))
      [] tag.type \in {"DINT", "BITS"} -> Got(Signed(tag, element, 4))
      [] OTHER -> None

(* A negative SINT is read as a positive number. *)
get_CIP_DINT(tag, element) ==
    CASE tag.type \in {"BOOL", "SINT"} -> Got(Unsigned(tag, element, 1))
      [] tag.type \in {"INT", "UINT"} -> Got(Signed(tag, element, 2))
      [] tag.type \in {"DINT", "BITS"} -> Got(Signed(tag, element, 4))
      [] OTHER -> None

get_CIP_LINT(tag, element) ==
    IF tag.type \in {"LINT", "ULINT"} THEN Got(Signed(tag, element, 8)) ELSE None

get_CIP_USINT(tag, element) ==
    IF tag.type \in {"BOOL", "SINT"} THEN Got(Unsigned(tag, element, 1)) ELSE None

(* The tag as it is afterwards, the same for a type that is not known. *)
put_CIP_DINT(tag, element, value) ==
    IF tag.type \in {"BOOL", "SINT", "INT", "DINT", "BITS"}
    THEN Pack(tag, element, CIP_Type_size(tag.type), value) ELSE tag

put_CIP_UDINT(tag, element, value) == put_CIP_DINT(tag, element, value)

put_CIP_LINT(tag, element, value) ==
    IF tag.type \in {"LINT", "ULINT"} THEN Pack(tag, element, 8, value) ELSE tag
-----------------------------------------------------------------------------
(* What a link says. Its text names a PLC and a tag, perhaps with an index   *)
(* (NoIndex), and has flags: E, S with a period (0 without), B with a bit    *)
(* (NoBit). ok is whether the text can be parsed at all.                     *)
NoIndex == -1
NoBit == -1

(* get_period: scan is the period of the SCAN field, 0 if it has none.       *)
LinkPeriod(link, scan, default_rate) ==
    IF link.S > 0 THEN link.S ELSE IF scan > 0 THEN scan
    ELSE IF default_rate > 0 THEN default_rate ELSE 1

Refused(link, count, bits) ==
    \/ ~link.ok
    \/ link.E /\ count # 1
    \/ count > 1 /\ (bits > 0 \/ link.B # NoBit)

(* With E the index stays part of the name. For a binary record without a B  *)
(* flag the index counts the bits of an array; without an index the tag is a *)
(* BOOL, of which any bit may be set. Otherwise the index counts elements,   *)
(* and the tag is read up to this one, also if the bits go on in the next.   *)
analyze_link(link, count, bits) ==
    LET indexed == link.index # NoIndex /\ ~link.E
        index   == IF indexed THEN link.index ELSE 0
        byBit   == bits > 0 /\ link.B = NoBit
        last    == IF byBit THEN (index + bits - 1) \div WordBits ELSE index
    IN  [plc      |-> link.plc,
         tag      |-> IF indexed THEN <<link.name, NoIndex>> ELSE <<link.name, link.index>>,
         element  |-> IF byBit THEN index \div WordBits ELSE index,
         mask     |-> IF ~byBit THEN {IF link.B = NoBit THEN 0 ELSE link.B}
                      ELSE IF indexed THEN {index % WordBits} ELSE 0 .. ByteBits - 1,
         elements |-> last + count]

BitsOf(rval, bits) == {i \in 0 .. bits - 1 : (rval \div Two[i]) % 2 = 1}

Word(tag, element) == BitsOf(get_CIP_UDINT(tag, element).value, WordBits)

Number(word) ==
    LET from[b \in 0 .. MaxBits] ==
            IF b = MaxBits THEN 0 ELSE (IF b \in word THEN 1 ELSE 0) + 2 * from[b + 1]
    IN  from[0]

Meets(word, mask) == word \cap mask # {}

(* mask <<= 1, and on to the next element when the mask has left the word *)
NextMask(m) ==
    LET shifted == {b + 1 : b \in m.mask} \cap (0 .. WordBits - 1)
    IN  IF shifted = {} THEN [element |-> m.element + 1, mask |-> {0}]
                        ELSE [element |-> m.element, mask |-> shifted]

(* Where bit number i of the record is. *)
MaskOf(link, i) ==
    LET mask[j \in 0 .. i] ==
            IF j = 0 THEN [element |-> link.element, mask |-> link.mask]
                     ELSE NextMask(mask[j - 1])
    IN  mask[i]

(* The first of several bits is only seen if it is bit 0 of the element. *)
get_bits(tag, link, bits) ==
    LET first == Word(tag, link.element)
    IN  {i \in 0 .. bits - 1 :
            IF i > 0 THEN Meets(Word(tag, MaskOf(link, i).element), MaskOf(link, i).mask)
            ELSE IF bits = 1 THEN Meets(first, link.mask)
            ELSE 0 \in first \cap link.mask}

PutBit(word, mask, on) == IF on THEN word \cup mask ELSE word \ mask

(* put_bits that keeps the word of the first element to itself. *)
put_bits_ForgetsElement(tag, link, bits, rval) ==
    LET last  == MaskOf(link, bits - 1).element
        words == [e \in link.element .. last |->
                    FoldLeft(LAMBDA word, i :
                                IF MaskOf(link, i).element = e
                                THEN PutBit(word, MaskOf(link, i).mask, i \in rval) ELSE word,
                             Word(tag, e), [i \in 1 .. bits |-> i - 1])]
    IN  put_CIP_UDINT(tag, last, Number(words[last]))

(* rval is the set of the bits that are set. Each element is written back    *)
(* before the next one is read.                                              *)
PutAt(tag, m, on) ==
    put_CIP_UDINT(tag, m.element, Number(PutBit(Word(tag, m.element), m.mask, on)))

put_bits(tag, link, bits, rval) ==
    LET put[j \in 0 .. bits] ==
            IF j = 0 THEN tag ELSE PutAt(put[j - 1], MaskOf(link, j - 1), (j - 1) \in rval)
    IN  put[bits]
-----------------------------------------------------------------------------
(* Texts. raw is the data of a tag of strings (STRUCT) or of a CIP STRING,    *)
(* which the records are not meant for: the length of the first string, and  *)
(* all characters and bytes behind it, the heads of further elements too.    *)
(* TextHead bytes come before the text: type, subtype, length, reserved word.*)
TextHead == 8
T_CIP_STRUCT_LEN_BYTES == 4
T_CIP_STRUCT_STRING_BUF == 84

CString(chars) ==
    LET ends == {n \in 1 .. Len(chars) : chars[n] = 0}
    IN  IF ends = {} THEN chars
        ELSE SubSeq(chars, 1, (CHOOSE n \in ends : \A m \in ends : n <= m) - 1)

(* How many bytes of raw.text come before the characters of an element, and  *)
(* what the element's head has for their number.                             *)
Before(element) == element * (T_CIP_STRUCT_LEN_BYTES + T_CIP_STRUCT_STRING_BUF)

LengthAt(raw, element) ==
    IF element = 0 THEN raw.length
    ELSE raw.text[Before(element) - 3] + 256 * raw.text[Before(element) - 2]

Struct_text(raw, element, size) ==
    LET length == LengthAt(raw, element)
        count  == IF length >= size THEN size - 1 ELSE length
    IN  CString(SubSeq(raw.text, Before(element) + 1, Before(element) + count))

(* The first size bytes behind the length of a CIP STRING, whatever that is. *)
(* Those that the code takes from behind the data are left out.              *)
String_text(raw, size) ==
    CString(SubSeq(raw.text, 1, IF size <= Len(raw.text) THEN size ELSE Len(raw.text)))

(* Up to size - 1 characters of the record's element. *)
get_CIP_STRING(raw, element, size) ==
    IF raw.type = "STRING" THEN String_text(raw, size) ELSE Struct_text(raw, element, size)

(* put_CIP_STRING that leaves no room for the terminator. *)
put_CIP_STRING_NoRoom(raw, value, size) ==
    LET length == IF Len(value) + TextHead >= size THEN size - TextHead ELSE Len(value)
        text   == SubSeq(value, 1, length) \o <<0>>
    IN  [type |-> raw.type, length |-> length,
         text |-> text \o SubSeq(raw.text, Len(text) + 1, Len(raw.text))]

(* Always the first element, which may take all of the data. *)
put_CIP_STRING(raw, value, size) ==
    LET length == IF Len(value) + TextHead >= size THEN size - TextHead - 1 ELSE Len(value)
        text   == SubSeq(value, 1, length) \o <<0>>
    IN  [type |-> raw.type, length |-> length,
         text |-> text \o SubSeq(raw.text, Len(text) + 1, Len(raw.text))]

(* The PLC stores the text that make_CIP_WriteData sends, up to its 0. *)
Written(raw) == [raw EXCEPT !.length = Len(CString(raw.text))]

(* A long string is written, up to the size - 1 characters that VAL holds,   *)
(* unless the record's element has the text already. Nothing is put into a   *)
(* CIP STRING (the record then gets an alarm, and a write is asked for).     *)
lso_write(raw, element, val, size, data_size) ==
    IF get_CIP_STRING(raw, element, size) = val \/ raw.type # "STRUCT" THEN raw
    ELSE Written(put_CIP_STRING(raw, val, data_size))

(* The callback that follows takes over what differs (unless FORCE). *)
check_lso_callback(raw, element, size) == get_CIP_STRING(raw, element, size)

lsi_read(raw, element, size) ==
    LET val == get_CIP_STRING(raw, element, size)
    IN  [val |-> val, len |-> Len(val) + 1]

(* The same for the texts of a fixed size, which are cut to leave room for   *)
(* the terminator.                                                           *)
so_write(raw, element, val, data_size) ==
    LET cut == IF Len(val) < MAX_STRING_SIZE THEN val ELSE SubSeq(val, 1, MAX_STRING_SIZE - 1)
    IN  lso_write(raw, element, cut, MAX_STRING_SIZE, data_size)

check_so_callback(raw, element) == check_lso_callback(raw, element, MAX_STRING_SIZE)

si_read(raw, element) == get_CIP_STRING(raw, element, MAX_STRING_SIZE)
-----------------------------------------------------------------------------
(* Output records of one number: what they see in the tag, and how it        *)
(* changes when they write. use is the part of the link they need, with the  *)
(* number of bits, and the raw values of the states of an mbbo, if any.      *)
HasData(tag, use) == tag.valid /\ tag.elements > use.element

Reads(kind, tag, use) ==
    CASE kind = "ao" -> get_CIP_DINT(tag, use.element)
      [] kind = "int64out" -> get_CIP_LINT(tag, use.element)
      [] kind \in {"bo", "mbbo", "mbboDirect"} ->
            IF get_CIP_UDINT(tag, use.element).ok
            THEN Got(Number(get_bits(tag, use, use.bits))) ELSE None

(* The write routines: a value that is there already is not written again.   *)
NeedsWrite(kind, tag, use, rval) ==
    /\ HasData(tag, use)
    /\ \E seen \in {Reads(kind, tag, use)} : seen.ok /\ seen.value # rval

int64out_write(tag, use, rval) ==
    IF NeedsWrite("int64out", tag, use, rval) THEN put_CIP_LINT(tag, use.element, rval) ELSE tag

ao_write(tag, use, rval) ==
    IF NeedsWrite("ao", tag, use, rval) THEN put_CIP_DINT(tag, use.element, rval) ELSE tag

bo_write(tag, use, rval) ==
    IF NeedsWrite("bo", tag, use, rval) THEN put_bits(tag, use, 1, BitsOf(rval, 1)) ELSE tag

mbbo_write(tag, use, rval) ==
    IF NeedsWrite("mbbo", tag, use, rval)
    THEN put_bits(tag, use, use.bits, BitsOf(rval, use.bits)) ELSE tag

Write(kind, tag, use, rval) ==
    CASE kind = "ao" -> ao_write(tag, use, rval)
      [] kind = "int64out" -> int64out_write(tag, use, rval)
      [] kind = "bo" -> bo_write(tag, use, rval)
      [] kind \in {"mbbo", "mbboDirect"} -> mbbo_write(tag, use, rval)

(* The VAL that the callbacks make of what they read, without FORCE. An mbbo *)
(* with states shows the first that fits, or none; without, 16 bits of it.   *)
NoState == 65535

check_bo_callback(seen) == IF seen = 0 THEN 0 ELSE 1

check_mbbo_callback(states, seen) ==
    LET fitting == {i \in DOMAIN states : states[i] = seen}
    IN  IF states = <<>> THEN seen % Two[16]
        ELSE IF fitting = {} THEN NoState
        ELSE CHOOSE i \in fitting : \A j \in fitting : i <= j

check_mbbo_direct_callback(seen) == [i \in 0 .. 15 |-> i \in BitsOf(seen, 16)]

(* EPICS base: the raw value that processing makes of it, with which the     *)
(* write routine compares. Without a state the old one is left.              *)
ProcessedRval(kind, states, val, rval) ==
    CASE kind \in {"ao", "int64out", "bo"} -> val
      [] kind = "mbbo" -> IF states = <<>> THEN val
                          ELSE IF val = NoState THEN rval ELSE states[val]
      [] kind = "mbboDirect" -> Number({i \in 0 .. 15 : val[i]})

ValOf(kind, states, seen) ==
    CASE kind \in {"ao", "int64out"} -> seen
      [] kind = "bo" -> check_bo_callback(seen)
      [] kind = "mbbo" -> check_mbbo_callback(states, seen)
      [] kind = "mbboDirect" -> check_mbbo_direct_callback(seen)

(* The raw value that a record compares with next, after its callback.       *)
TakesOver(kind, tag, use, rval) ==
    LET seen == Reads(kind, tag, use)
    IN  IF HasData(tag, use) /\ seen.ok
        THEN ProcessedRval(kind, use.states, ValOf(kind, use.states, seen.value), rval)
        ELSE rval
-----------------------------------------------------------------------------
(* Input records: a value, or none, which sets the alarm. *)
ai_read(tag, use) == IF HasData(tag, use) THEN get_CIP_DINT(tag, use.element) ELSE None

int64in_read(tag, use) == IF HasData(tag, use) THEN get_CIP_LINT(tag, use.element) ELSE None

bi_read(tag, use) ==
    IF HasData(tag, use) THEN Got(Number(get_bits(tag, use, 1))) ELSE None

mbbi_read(tag, use) ==
    IF HasData(tag, use) THEN Got(Number(get_bits(tag, use, use.bits))) ELSE None

(* A waveform reads all its elements from the first on. Its type must suit   *)
(* that of the tag; into a CHAR array go the lowest bytes of the numbers.    *)
(* Fewer than nelm elements, which the code passes over without an alarm,    *)
(* never come up: add_tag has asked for at least nelm.                       *)
wf_read(tag, use, ftvl, nelm) ==
    LET fits == CASE tag.type = "SINT" -> ftvl \in {"CHAR", "UCHAR"}
                  [] OTHER -> ftvl \in {"LONG", "CHAR"}
        value(i) == IF tag.type = "SINT" THEN get_CIP_USINT(tag, i).value
                    ELSE IF ftvl = "CHAR" THEN get_CIP_DINT(tag, i).value % ByteValues
                    ELSE get_CIP_DINT(tag, i).value
    IN  IF HasData(tag, use) /\ tag.elements >= nelm /\ fits /\ get_CIP_DINT(tag, 0).ok
        THEN Got([i \in 1 .. nelm |-> value(i - 1)]) ELSE None
=============================================================================
