--------------------------- MODULE MessageChecks ----------------------------
(* CipMessage against what the protocol says of its messages, for the inputs *)
(* below: names of even and odd length, elements and sizes on both sides of  *)
(* every limit of the encoding, and all short texts of a tag.                *)
EXTENDS CipMessage

Names == {<<97>>, <<97, 98>>, <<99, 100, 101>>}
Elements == {0, 1, 255, 256, 65535, 65536, 16909060}

Parts == {<<NameNode(n)>> : n \in Names} \cup
         {<<NameNode(n), ElementNode(e)>> : n \in Names, e \in Elements}
TagLists == Parts \cup {p \o q : p \in Parts, q \in Parts}

Texts == UNION {[1 .. n -> {Dot, Open, Close, NameToken(<<97>>), NumberToken(1)}] : n \in 0 .. 6}

(* Any requests and replies that can be told apart, of different sizes. *)
Items == {<<1>>, <<2, 3>>, <<4, 5, 6>>}
ItemLists == UNION {[1 .. n -> Items] : n \in 1 .. 3}
Leftovers == {0, 255}

(* Values of the transaction counter, a session, and what makes a message    *)
(* even or odd.                                                              *)
TransIdNums == {1, 171, 65536}
Handle == 66051
Odds == {<<>>, <<7>>}
-----------------------------------------------------------------------------
(* The tag that a report shows is the tag that is read: printing and parsing *)
(* it again gives the same path, whatever text it was parsed from            *)
(* (EIP_parse_tag, EIP_copy_ParsedTag), and every list of names with at most *)
(* one index each can be written as a text.                                  *)
ReadsBack(tag) == EIP_parse_tag(EIP_copy_ParsedTag(tag)) = tag

TagReadsBackHolds ==
    /\ \A tag \in TagLists : ReadsBack(tag)
    /\ \A text \in Texts : ReadsBack(EIP_parse_tag(text))

(* The path of a tag names this tag and no other, and is as long as was      *)
(* counted for it before the message was built (make_tag_path,               *)
(* tag_path_size, read back by dump_raw_path).                               *)
PathNames(tag) ==
    /\ dump_raw_path(make_tag_path(tag)) = tag
    /\ Len(make_tag_path(tag)) = 2 * tag_path_size(tag)

PathNamesTagHolds == \A tag \in TagLists : PathNames(tag)

(* How the PLC takes several requests, or a client several replies, apart:   *)
(* at is the position of the count, the last one goes to the end.            *)
TakeApart(buf, at) ==
    LET count     == unpack_UINT(buf, at)
        offset(i) == unpack_UINT(buf, at + 2 * i)
    IN  [i \in 1 .. count |->
            SubSeq(buf, at + offset(i),
                   IF i < count THEN at + offset(i + 1) - 1 ELSE Len(buf))]

(* A place of a transfer: the request and, behind a shorter one, what the    *)
(* buffer held before.                                                       *)
Filled(request, size, old) == request \o [k \in 1 .. size - Len(request) |-> old]

(* Sizes that were counted for requests of this size or less. *)
Places(requests) ==
    {sizes \in [1 .. Len(requests) -> Nat] :
        \A i \in 1 .. Len(requests) : Len(requests[i]) <= sizes[i]}

(* The PLC finds in a transfer the requests that were put into it, each at   *)
(* the start of the place that was counted for it and none reaching into     *)
(* another, whatever the buffer held before. A request that takes its whole  *)
(* place is found exactly; behind a shorter one, as the write of a string,   *)
(* there are bytes of an older message, which the PLC has to ignore          *)
(* (prepare_CIP_MultiRequest, CIP_MultiRequest_item, process_ScanList).      *)
FoundApart(requests, sizes, old) ==
    TakeApart(BuildMultiRequest(requests, sizes, old), 7) =
        [i \in 1 .. Len(requests) |-> Filled(requests[i], sizes[i], old)]

RequestsApartHolds ==
    \A requests \in ItemLists, old \in Leftovers :
        \A sizes \in [1 .. Len(requests) -> 1 .. 4] :
            sizes \in Places(requests) => FoundApart(requests, sizes, old)

(* A response of the PLC with extended words of status. *)
MultiResponse(replies, extended) ==
    LET count == Len(replies)
        start(i) == 2 + 2 * count + Sum([j \in 1 .. i - 1 |-> Len(replies[j])])
    IN  <<S_CIP_MultiRequest + 128, 0, 0, extended>> \o [i \in 1 .. 2 * extended |-> 9]
        \o pack_UINT(count) \o FlattenSeq([i \in 1 .. count |-> pack_UINT(start(i))])
        \o FlattenSeq(replies)

(* Every request of a transfer gets its own reply, complete and without      *)
(* bytes of the next (get_CIP_MultiRequest_Response).                        *)
OwnReplies(replies, response) ==
    /\ check_CIP_MultiRequest_Response(response)
    /\ \A no \in 0 .. Len(replies) :
        get_CIP_MultiRequest_Response(response, no) =
            IF no < Len(replies) THEN replies[no + 1] ELSE <<>>

RepliesApartHolds ==
    \A replies \in ItemLists, extended \in 0 .. 2 :
        OwnReplies(replies, MultiResponse(replies, extended))

(* The module in the rack that routes a request reads the size of the        *)
(* message, skips the pad byte of an odd one, and finds the route behind it: *)
(* nothing of the frame is cut off or left over, and the answer to it can be *)
(* recognized by session and transaction ID (EIP_make_SendRRData,            *)
(* make_CM_Unconnected_Send, EIP_send_connection_buffer).                    *)
Arrives(message, slot, session, id, old) ==
    LET frame == SentFrame(message, slot, session, id, old)
        rr    == EIP_unpack_RRData(frame)
        send  == From(frame, 41)
        size  == unpack_UINT(send, 9)
        route == From(send, 11 + size + (size % 2))
    IN  /\ rr.header.command = EC_SendRRData /\ rr.header.session = session
        /\ rr.header.trans_id = id
        /\ rr.data_length = Len(send)
        /\ SubSeq(send, 11, 10 + size) = message
        /\ route = <<1, 0, 1, slot>>
        /\ send[8] * 2 ^ send[7] = 245760

FrameHoldsRequestHolds ==
    \A tag \in Parts, slot \in {0, 3}, nn \in TransIdNums, old \in Leftovers, odd \in Odds :
        Arrives(make_CIP_ReadData(tag, 1) \o odd, slot, Handle, TransactionID(nn), old)

(* The write of a string never goes beyond the room that was counted for it, *)
(* and what the PLC gets is a text, ended by 0, that starts like the value   *)
(* (make_CIP_WriteData).                                                     *)
StaysInside(tag, elements, raw_data, room) ==
    LET text   == From(raw_data, 7)
        length == TextLength(text)
        head   == Len(StringWriteHead(tag, elements, length))
        write  == WriteString(head + room, tag, elements, raw_data)
        sent   == From(write, head + 1)
    IN  /\ Len(write) <= head + room
        /\ sent = SubSeq(text, 1, Len(sent) - 1) \o <<0>>
        /\ \A i \in 1 .. Len(sent) - 1 : sent[i] # 0
        /\ length < room => Len(sent) = length + 1

WriteStaysInsideHolds ==
    \A n \in 0 .. 4, room \in 1 .. 6 :
        LET text == [i \in 1 .. n |-> 64 + i]
        IN  StaysInside(<<NameNode(<<97>>)>>, 1, <<206, 15, n, 0, 0, 0>> \o text \o <<0>>, room)
=============================================================================
