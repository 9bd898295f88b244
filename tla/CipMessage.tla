----------------------------- MODULE CipMessage -----------------------------
(* What ether_ip.c writes into and reads out of the buffer of a connection:  *)
(* tag names and their paths, the requests for one tag, several of them in   *)
(* one, and the frames around them. A message is a sequence of bytes; the    *)
(* pointers of the code are positions in it, its first byte is number 1.     *)
(* Printing for the log is left out.                                         *)
EXTENDS Integers, Sequences, FiniteSets, SequencesExt

Byte == 0 .. 255

pack_UINT(v) == <<v % 256, (v \div 256) % 256>>
pack_UDINT(v) == pack_UINT(v % 65536) \o pack_UINT(v \div 65536)
unpack_UINT(buf, at) == buf[at] + 256 * buf[at + 1]
unpack_UDINT(buf, at) == unpack_UINT(buf, at) + 65536 * unpack_UINT(buf, at + 2)

From(buf, at) == SubSeq(buf, at, Len(buf))
-----------------------------------------------------------------------------
(* Tags. A parsed tag is a list of names, each a sequence of characters, and *)
(* array elements. The text of a tag is a sequence of tokens: names and      *)
(* numbers as a whole, and the characters that parsing looks for.            *)
NameNode(text) == [type |-> "te_name", name |-> text]
ElementNode(n) == [type |-> "te_element", element |-> n]

Dot == [token |-> "."]
Open == [token |-> "["]
Close == [token |-> "]"]
NameToken(text) == [token |-> "name", name |-> text]
NumberToken(n) == [token |-> "number", number |-> n]

(* strcspn(tag, ".["): a name ends at a dot, a bracket or the end. *)
NameEnd(text, at) ==
    CHOOSE e \in at .. Len(text) + 1 :
        /\ e = Len(text) + 1 \/ text[e] \in {Dot, Open}
        /\ \A i \in at .. e - 1 : text[i] \notin {Dot, Open}

(* atol: no number counts as 0. *)
Number(text, at) ==
    IF at <= Len(text) /\ text[at].token = "number" THEN text[at].number ELSE 0

(* strchr(.., ']'): 0 if there is none. *)
Closing(text, at) ==
    LET found == {i \in at .. Len(text) : text[i] = Close}
    IN  IF found = {} THEN 0 ELSE CHOOSE i \in found : \A j \in found : i <= j

(* What is printed for the tokens of a name. *)
NameOf(tokens) ==
    FlattenSeq([i \in 1 .. Len(tokens) |->
        CASE tokens[i].token = "name" -> tokens[i].name
          [] tokens[i].token = "number" -> <<48 + tokens[i].number>>
          [] OTHER -> <<93>>])

(* ParseName without the step over the dot behind an element. *)
ParseName_KeepsDot(text, st) ==
    LET end   == NameEnd(text, st.at)
        named == Append(st.tag, NameNode(NameOf(SubSeq(text, st.at, end - 1))))
        close == Closing(text, end + 1)
    IN  IF st.at = 0 \/ end = st.at THEN [at |-> 0, tag |-> st.tag]
        ELSE IF end > Len(text) THEN [at |-> 0, tag |-> named]
        ELSE IF text[end] = Dot THEN [at |-> end + 1, tag |-> named]
        ELSE IF close = 0 THEN [at |-> 0, tag |-> <<>>]
        ELSE [at |-> close + 1, tag |-> Append(named, ElementNode(Number(text, end + 1)))]

(* One round of the loop, from the place and with the list so far; at place  *)
(* 0 it has ended. A name has at most one element; parsing stops at an empty *)
(* name and keeps what it has, so the second of two indices is ignored.      *)
(* Without a closing bracket there is no tag at all.                         *)
ParseName(text, st) ==
    LET end   == NameEnd(text, st.at)
        named == Append(st.tag, NameNode(NameOf(SubSeq(text, st.at, end - 1))))
        close == Closing(text, end + 1)
        next  == IF close + 1 <= Len(text) /\ text[close + 1] = Dot THEN close + 2 ELSE close + 1
    IN  IF st.at = 0 \/ end = st.at THEN [at |-> 0, tag |-> st.tag]
        ELSE IF end > Len(text) THEN [at |-> 0, tag |-> named]
        ELSE IF text[end] = Dot THEN [at |-> end + 1, tag |-> named]
        ELSE IF close = 0 THEN [at |-> 0, tag |-> <<>>]
        ELSE [at |-> next, tag |-> Append(named, ElementNode(Number(text, end + 1)))]

(* Each round but the last takes at least one token. *)
EIP_parse_tag(text) ==
    LET parse[i \in 0 .. Len(text) + 1] ==
            IF i = 0 THEN [at |-> 1, tag |-> <<>>] ELSE ParseName(text, parse[i - 1])
    IN  parse[Len(text) + 1].tag

(* A dot before each name but the first. *)
EIP_copy_ParsedTag(tag) ==
    FlattenSeq([i \in 1 .. Len(tag) |->
        IF tag[i].type = "te_element"
        THEN <<Open, NumberToken(tag[i].element), Close>>
        ELSE (IF i > 1 THEN <<Dot>> ELSE <<>>) \o <<NameToken(tag[i].name)>>])
-----------------------------------------------------------------------------
(* Paths. *)

Sum(numbers) ==
    LET sum[i \in 0 .. Len(numbers)] == IF i = 0 THEN 0 ELSE sum[i - 1] + numbers[i]
    IN  sum[Len(numbers)]

(* In 16 bit words. *)
tag_path_size(tag) ==
    Sum([i \in 1 .. Len(tag) |->
            IF tag[i].type = "te_name" THEN 2 + Len(tag[i].name) + (Len(tag[i].name) % 2)
            ELSE IF tag[i].element <= 255 THEN 2
            ELSE IF tag[i].element <= 65535 THEN 4 ELSE 6]) \div 2

(* A name is padded to whole words. *)
NameSegment(name) ==
    <<145, Len(name)>> \o name \o (IF Len(name) % 2 = 1 THEN <<0>> ELSE <<>>)

(* ElementSegment with the first limit one too high. *)
ElementSegment_ByteTooFar(n) ==
    IF n <= 256 THEN <<40, n % 256>>
    ELSE IF n <= 65535 THEN <<41, 0>> \o pack_UINT(n)
    ELSE <<42, 0>> \o pack_UDINT(n)

ElementSegment(n) ==
    IF n <= 255 THEN <<40, n>>
    ELSE IF n <= 65535 THEN <<41, 0>> \o pack_UINT(n)
    ELSE <<42, 0>> \o pack_UDINT(n)

make_tag_path(tag) ==
    FlattenSeq([i \in 1 .. Len(tag) |->
        IF tag[i].type = "te_name" THEN NameSegment(tag[i].name)
                                   ELSE ElementSegment(tag[i].element)])

(* The code's own reader of paths, for the segments of tags: what the        *)
(* segment at this place says, and how long it is. It ends at any other. The *)
(* code counts the bytes of a path in 8 bits, so it is for 127 words at most.*)
Segment(path, at) ==
    CASE path[at] = 145 ->
            [node |-> <<NameNode(SubSeq(path, at + 2, at + 1 + path[at + 1]))>>,
             size |-> 2 + path[at + 1] + (path[at + 1] % 2)]
      [] path[at] = 40 -> [node |-> <<ElementNode(path[at + 1])>>, size |-> 2]
      [] path[at] = 41 -> [node |-> <<ElementNode(unpack_UINT(path, at + 2))>>, size |-> 4]
      [] path[at] = 42 -> [node |-> <<ElementNode(unpack_UDINT(path, at + 2))>>, size |-> 6]
      [] OTHER -> [node |-> <<>>, size |-> Len(path)]

DumpSegment(path, st) ==
    IF st.at > Len(path) THEN st
    ELSE [at |-> st.at + Segment(path, st.at).size, tag |-> st.tag \o Segment(path, st.at).node]

dump_raw_path(path) ==
    LET dump[i \in 0 .. Len(path)] ==
            IF i = 0 THEN [at |-> 1, tag |-> <<>>] ELSE DumpSegment(path, dump[i - 1])
    IN  dump[Len(path)].tag

(* Class, instance and, if not 0, attribute. make_CIA_path takes the         *)
(* instance as a UINT: what is above 16 bit is lost, but counted in the size.*)
CIA_path_size(instance, attr) ==
    1 + (IF instance > 255 THEN 2 ELSE 1) + (IF attr # 0 THEN 1 ELSE 0)

make_CIA_path(cls, instance, attr) ==
    LET inst == instance % 65536
    IN  <<32, cls>>
        \o (IF inst > 255 THEN <<37, 0>> \o pack_UINT(inst) ELSE <<36, inst>>)
        \o (IF attr # 0 THEN <<48, attr>> ELSE <<>>)

C_MessageRouter == 2
C_ConnectionManager == 6
C_Symbol == 107

make_port_path(port, link) == <<port, link>>
port_path_size == 1
-----------------------------------------------------------------------------
(* Requests and responses of the message router. *)
S_Get_Attribute_Single == 14
S_CIP_MultiRequest == 10
S_CIP_ReadData == 76
S_CIP_WriteData == 77
S_CM_Unconnected_Send == 82
S_Get_Instance_Attr_List == 85

MR_Request_size(path_size) == 2 + path_size * 2
make_MR_Request(service, path_size) == <<service, path_size>>

(* The position behind the path. *)
raw_MR_Request_data(request, at) == at + 2 + request[at + 1] * 2

(* The position behind the extended status, and how much is left there. *)
EIP_raw_MR_Response_data(response) ==
    LET at == 5 + 2 * response[4]
    IN  [at |-> at, size |-> IF Len(response) > at - 1 THEN Len(response) - (at - 1) ELSE 0]

is_raw_MRResponse_ok(response) == response[3] = 0

CIP_ReadData_size(tag) == 2 + 2 * tag_path_size(tag) + 2
make_CIP_ReadData(tag, elements) ==
    make_MR_Request(S_CIP_ReadData, tag_path_size(tag)) \o make_tag_path(tag)
    \o pack_UINT(elements)

(* Empty for an answer that is none. *)
check_CIP_ReadData_Response(response) ==
    IF response[1] % 128 = S_CIP_ReadData /\ is_raw_MRResponse_ok(response)
    THEN From(response, EIP_raw_MR_Response_data(response).at) ELSE <<>>

check_CIP_WriteData_Response(response) ==
    response[1] % 128 = S_CIP_WriteData /\ is_raw_MRResponse_ok(response)

T_CIP_STRUCT == 672
T_CIP_STRUCT_STRING == 4046

(* strlen *)
TextLength(bytes) ==
    CHOOSE n \in 0 .. Len(bytes) :
        /\ n = Len(bytes) \/ bytes[n + 1] = 0
        /\ \A i \in 1 .. n : bytes[i] # 0

(* A string goes with its length and a terminating zero, cut off where the   *)
(* space for the request ends; raw_data has the type, length and a reserved  *)
(* word before its text. Any other type is copied as it is, whatever space   *)
(* there is. The length that is sent is that of the text before it is cut.   *)
StringWriteHead(tag, elements, length) ==
    make_MR_Request(S_CIP_WriteData, tag_path_size(tag)) \o make_tag_path(tag)
    \o pack_UINT(T_CIP_STRUCT) \o pack_UINT(T_CIP_STRUCT_STRING)
    \o pack_UINT(elements) \o pack_UINT(length) \o pack_UINT(0)

(* make_CIP_WriteData for a string, without room for the zero. *)
WriteString_NoRoom(buf_size, tag, elements, raw_data) ==
    LET text   == From(raw_data, 7)
        length == TextLength(text)
        head   == StringWriteHead(tag, elements, length)
        fits   == IF Len(head) + length > buf_size THEN buf_size - Len(head) ELSE length
    IN  head \o SubSeq(text, 1, fits) \o <<0>>

WriteString(buf_size, tag, elements, raw_data) ==
    LET text   == From(raw_data, 7)
        length == TextLength(text)
        head   == StringWriteHead(tag, elements, length)
        fits   == IF Len(head) + length >= buf_size THEN buf_size - Len(head) - 1 ELSE length
    IN  head \o SubSeq(text, 1, fits) \o <<0>>

make_CIP_WriteData(tag, type, type_size, elements, raw_data) ==
    make_MR_Request(S_CIP_WriteData, tag_path_size(tag)) \o make_tag_path(tag)
    \o pack_UINT(type) \o pack_UINT(elements)
    \o SubSeq(raw_data, 1, type_size * elements)

CIP_WriteData_size(tag, data_size) == 2 + 2 * tag_path_size(tag) + 4 + data_size
-----------------------------------------------------------------------------
(* Several requests in one: a count, and for each request its offset from    *)
(* the count. Building one is a sequence of calls: the first prepares the    *)
(* offsets, each further one returns where to place the next request.        *)
MultiHead(count) ==
    make_MR_Request(S_CIP_MultiRequest, CIA_path_size(1, 0))
    \o make_CIA_path(C_MessageRouter, 1, 0)
    \o pack_UINT(count)

MultiRequestSize(count, requests_size) ==
    2 + CIA_path_size(1, 0) * 2 + 2 + 2 * count + requests_size

(* The message of the given size, of which nothing is known before it is     *)
(* written: old is what the buffer held.                                     *)
prepare_CIP_MultiRequest(size, count, old) ==
    LET start == MultiHead(count) \o pack_UINT((count + 1) * 2)
                 \o [i \in 1 .. 2 * (count - 1) |-> 0]
    IN  start \o [i \in 1 .. size - Len(start) |-> old]

Overwrite(buf, at, bytes) ==
    [i \in 1 .. Len(buf) |-> IF i \in at .. at + Len(bytes) - 1 THEN bytes[i - at + 1] ELSE buf[i]]

(* CIP_MultiRequest_item that forgets the size of the item. *)
CIP_MultiRequest_item_SameOffset(request, no, single_size) ==
    LET countp  == raw_MR_Request_data(request, 1)
        offset  == unpack_UINT(request, countp + 2 + 2 * no)
    IN  [buf |-> IF no + 1 < unpack_UINT(request, countp)
                 THEN Overwrite(request, countp + 2 + 2 * (no + 1), pack_UINT(offset + 2 * no))
                 ELSE request,
         item |-> IF offset = 0 THEN 0 ELSE countp + offset]

(* Item 0 says that the call came too early or for a number too high. *)
CIP_MultiRequest_item(request, no, single_size) ==
    LET countp  == raw_MR_Request_data(request, 1)
        count   == unpack_UINT(request, countp)
        offsetp == countp + 2
        offset  == IF no < count THEN unpack_UINT(request, offsetp + 2 * no) ELSE 0
    IN  [buf |-> IF offset # 0 /\ no + 1 < count
                 THEN Overwrite(request, offsetp + 2 * (no + 1), pack_UINT(offset + single_size))
                 ELSE request,
         item |-> IF offset = 0 THEN 0 ELSE countp + offset]

(* What process_ScanList does for the requests of a transfer. A place has    *)
(* the size that was counted for its request; the write of a string is       *)
(* shorter than that, and leaves behind it what the buffer held.             *)
BuildMultiRequest(requests, sizes, old) ==
    LET place(buf, i) ==
            LET next == CIP_MultiRequest_item(buf, i - 1, sizes[i])
            IN  Overwrite(next.buf, next.item, requests[i])
        build[i \in 0 .. Len(requests)] ==
            IF i = 0 THEN prepare_CIP_MultiRequest(MultiRequestSize(Len(requests), Sum(sizes)),
                                                   Len(requests), old)
                     ELSE place(build[i - 1], i)
    IN  build[Len(requests)]

check_CIP_MultiRequest_Response(response) ==
    response[1] = S_CIP_MultiRequest + 128 /\ response[3] = 0

(* get_CIP_MultiRequest_Response that takes the last reply to end where the  *)
(* offsets say, without the header.                                          *)
get_CIP_MultiRequest_Response_Short(response, no) ==
    LET countp == EIP_raw_MR_Response_data(response).at
        count  == unpack_UINT(response, countp)
        offset == unpack_UINT(response, countp + 2 + 2 * no)
        end    == IF no + 1 < count THEN unpack_UINT(response, countp + 2 + 2 * (no + 1))
                                    ELSE Len(response) - countp
    IN  IF no >= count THEN <<>> ELSE SubSeq(response, countp + offset, countp + end - 1)

(* Reply number no, from 0: up to the next one, the last to the end. *)
get_CIP_MultiRequest_Response(response, no) ==
    LET countp == EIP_raw_MR_Response_data(response).at
        count  == unpack_UINT(response, countp)
        offset == unpack_UINT(response, countp + 2 + 2 * no)
        size   == IF no + 1 < count
                  THEN unpack_UINT(response, countp + 2 + 2 * (no + 1)) - offset
                  ELSE Len(response) - (countp + offset - 1)
    IN  IF no >= count THEN <<>> ELSE SubSeq(response, countp + offset, countp + offset + size - 1)
-----------------------------------------------------------------------------
(* Frames. *)

(* The eight characters of a transaction ID, the last digit of the counter   *)
(* at the end.                                                               *)
HexDigit(x) == IF x < 10 THEN 48 + x ELSE 55 + x
TransactionID(nn) == [i \in 1 .. 8 |-> HexDigit((nn \div 16 ^ (8 - i)) % 16)]

(* The counter never gets to its maximum. *)
NextTransIdNum(nn, max) == IF nn + 1 >= max THEN 1 ELSE nn + 1

sizeof_EncapsulationHeader == 24
EC_SendRRData == 111

make_EncapsulationHeader(command, length, session, id, options) ==
    pack_UINT(command) \o pack_UINT(length) \o pack_UDINT(session)
    \o pack_UDINT(0) \o id \o pack_UDINT(options)

unpack_EncapsulationHeader(buf) ==
    [command |-> unpack_UINT(buf, 1), length |-> unpack_UINT(buf, 3),
     session |-> unpack_UDINT(buf, 5), status |-> unpack_UDINT(buf, 9),
     trans_id |-> SubSeq(buf, 13, 20), options |-> unpack_UDINT(buf, 21)]

(* The header of the frame counts the 16 bytes of this one. *)
EIP_make_SendRRData(length, session, id) ==
    make_EncapsulationHeader(EC_SendRRData, 16 + length, session, id, 0)
    \o pack_UDINT(0) \o pack_UINT(0) \o pack_UINT(2)
    \o pack_UINT(0) \o pack_UINT(0) \o pack_UINT(178) \o pack_UINT(length)

(* The header of the response, and the response from byte 41 on. *)
EIP_unpack_RRData(buf) ==
    [header |-> unpack_EncapsulationHeader(buf), data_type |-> unpack_UINT(buf, 37),
     data_length |-> unpack_UINT(buf, 39)]

(* The number of halvings after which the time fits into 8 bit of ticks. *)
calc_tick_time(millisec) ==
    LET halvings == CHOOSE n \in 0 .. 15 :
                        /\ millisec \div 2 ^ n <= 255
                        /\ \A k \in 0 .. n - 1 : millisec \div 2 ^ k > 255
    IN  IF millisec > 8355840 THEN [tick_time |-> 0, ticks |-> 0]
        ELSE [tick_time |-> halvings, ticks |-> millisec \div 2 ^ halvings]

(* CM_Unconnected_Send_size without the padding of an odd message. *)
CM_Unconnected_Send_size_Unpadded(message_size) ==
    MR_Request_size(CIA_path_size(1, 0)) + 1 + 1 + 2 + message_size + 4

CM_Unconnected_Send_size(message_size) ==
    MR_Request_size(CIA_path_size(1, 0)) + 1 + 1 + 2
    + message_size + (message_size % 2) + 4

(* The message inside, and behind it the route to the slot. The byte that    *)
(* pads an odd message is not written: it is what the buffer held.           *)
make_CM_Unconnected_Send(message, slot, old) ==
    LET time == calc_tick_time(245760)
    IN  make_MR_Request(S_CM_Unconnected_Send, CIA_path_size(1, 0))
        \o make_CIA_path(C_ConnectionManager, 1, 0)
        \o <<time.tick_time, time.ticks>> \o pack_UINT(Len(message))
        \o message \o (IF Len(message) % 2 = 1 THEN <<old>> ELSE <<>>)
        \o <<port_path_size, 0>> \o make_port_path(1, slot)

(* A request as EIP_read_tag, EIP_write_tag and process_ScanList send it:    *)
(* EIP_send_connection_buffer takes the number of bytes from the header.     *)
SentFrame(message, slot, session, id, old) ==
    LET frame == EIP_make_SendRRData(CM_Unconnected_Send_size(Len(message)), session, id)
                 \o make_CM_Unconnected_Send(message, slot, old)
    IN  SubSeq(frame, 1, sizeof_EncapsulationHeader + unpack_UINT(frame, 3))
=============================================================================
