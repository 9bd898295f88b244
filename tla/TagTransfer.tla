---------------------------- MODULE TagTransfer ----------------------------
(***************************************************************************)
(* The transfer of tag data between one PLC and the device support of the  *)
(* IOC, as drvEtherIP.c does it: one scan task per PLC (PLC_scan_task)     *)
(* connects, sizes the tags, and then packs the tags of each due scan list *)
(* into multi-requests (process_ScanList), while any other thread may      *)
(* request a write of a tag through the TagInfo (xxx_write in              *)
(* devEtherIP.c), restart the connection (drvEtherIP_restart) or register  *)
(* more elements of a tag (drvEtherIP_add_tag).                            *)
(*                                                                         *)
(* PLC.lock is held by the scan task in every phase but "idle", and by the *)
(* thread inside drvEtherIP_restart in "invalidate".  Each step that       *)
(* touches one TagInfo is one section under that TagInfo's data_lock, so   *)
(* a write request can fall between any two of them.                       *)
(*                                                                         *)
(* The PLC and the network are the environment: they answer what they      *)
(* like, fail whenever they like, and are never fair.                      *)
(***************************************************************************)
EXTENDS Integers, FiniteSets

CONSTANTS
    Tag,              \* the TagInfos of this PLC, numbered in list order
    ScanList,         \* the scan lists of this PLC, numbered in list order
    ListOf,           \* the scan list that each tag is on
    Value,            \* what the data of a tag can be
    NoValue,          \* info->data while it was never allocated
    BufferLimit,      \* EIPConnection.transfer_buffer_limit
    ReadRequestSize,  \* bytes of the CIP_ReadData request of each tag
    ElementSize,      \* bytes of one element of each tag
    StringTag,        \* the tags that are strings, sent as structures
    TextLength,       \* characters in the text of each value, for those
    FirstElements,    \* TagInfo.elements when the IOC starts
    LastElements      \* ... and after all calls of drvEtherIP_add_tag

ASSUME TagAssumption ==
    /\ Tag \subseteq Nat /\ IsFiniteSet(Tag)
    /\ ScanList \subseteq Nat /\ IsFiniteSet(ScanList)
    /\ ListOf \in [Tag -> ScanList]
    /\ NoValue \notin Value
    /\ BufferLimit \in Nat
    /\ ReadRequestSize \in [Tag -> Nat \ {0}]
    /\ ElementSize \in [Tag -> Nat \ {0}]
    /\ StringTag \subseteq Tag
    /\ TextLength \in [Value -> Nat]
    /\ \A t \in StringTag : ElementSize[t] > 4   \* length, reserved word, text
    /\ FirstElements \in [Tag -> Nat \ {0}]
    /\ LastElements \in [Tag -> Nat \ {0}]

VARIABLES
    \* TagInfo, under data_lock
    data,             \* info->data
    valid,            \* info->valid_data_size > 0
    do_write,         \* device support requested a write
    is_writing,       \* the scan task is in a write cycle for the tag
    elements,         \* info->elements
    sized,            \* elements that the cip_*_size fields stand for, 0: none
    \* PLC and scan task, under PLC.lock
    sock,             \* connection->sock # 0
    phase,            \* where the holder of PLC.lock is
    due,              \* scan lists that this pass still has to process
    remaining,        \* tags of the list from info_position on
    todo,             \* tags the current loop still has to visit
    batch,            \* the <count> tags of the current transfer
    requests_size, responses_size,
    built,            \* bytes of the places that the items of the request get
    request,          \* the items of the multi-request
    reply,            \* the items of the multi-response
    notify,           \* the tag whose callbacks are to be called
    succeeded,        \* of complete_PLC_ScanList_TagInfos
    \* history
    landed,           \* the value of a write the PLC took, until it is handled
    unhandled         \* tags of the list that this scan did not transfer yet

tagVars  == <<data, valid, do_write, is_writing>>
sizeVars == <<elements, sized>>
scanVars == <<sock, phase, due, remaining, todo, notify, succeeded>>
bookVars == <<batch, requests_size, responses_size, built>>
wireVars == <<request, reply>>
history  == <<landed, unhandled>>
vars     == <<tagVars, sizeVars, scanVars, bookVars, wireVars, history>>

NoRequest == [kind |-> "none", value |-> NoValue]
NoReply   == [status |-> "none", value |-> NoValue]

Phase == {"idle", "complete", "pass", "count", "build", "sent", "answered",
          "receive", "scanned", "invalidate", "crashed"}

\* The element a walk along a linked list visits next, of those left.
IsFirst(x, S) == x \in S /\ \A y \in S : x <= y

-----------------------------------------------------------------------------
(* Sizes of requests and responses *)

\* The type code before the data, for a string with that of the structure.
TypeSize(t)           == IF t \in StringTag THEN 4 ELSE 2

\* complete_PLC_ScanList_TagInfos: response of a read is the 4 byte header,
\* the type code and the data; that of a write is the header alone.
ReadResponseSize(t)   == 4 + TypeSize(t) + ElementSize[t] * sized[t]
WriteRequestSize(t)   == ReadRequestSize[t] + (ReadResponseSize(t) - 4)
WriteResponseSize(t)  == 4

\* What make_CIP_WriteData puts into the item: info->elements elements, but of
\* a string only the text, with a 0 behind it, cut to the room that was counted.
BuiltWriteSize(t, v) ==
    IF t \in StringTag
    THEN LET text == ReadRequestSize[t] + TypeSize(t) + 4 + TextLength[v]
         IN  IF text >= WriteRequestSize(t) THEN WriteRequestSize(t) ELSE text + 1
    ELSE ReadRequestSize[t] + TypeSize(t) + ElementSize[t] * elements[t]

CIP_MultiRequest_size(count, size)  == 2 + 4 + 2 + 2 * count + size
CIP_MultiResponse_size(count, size) == 4 + 2 + 2 * count + size

\* Tags with sizes: the loops of process_ScanList skip the others.
Sized(S) == {t \in S : sized[t] > 0}

-----------------------------------------------------------------------------
Init ==
    /\ data = [t \in Tag |-> NoValue]
    /\ valid = [t \in Tag |-> FALSE]
    /\ do_write = [t \in Tag |-> FALSE]
    /\ is_writing = [t \in Tag |-> FALSE]
    /\ elements = FirstElements
    /\ sized = [t \in Tag |-> 0]
    /\ sock = FALSE
    /\ phase = "idle"
    /\ due = {}
    /\ remaining = {}
    /\ todo = {}
    /\ batch = {}
    /\ requests_size = 0
    /\ responses_size = 0
    /\ built = 0
    /\ request = [t \in Tag |-> NoRequest]
    /\ reply = [t \in Tag |-> NoReply]
    /\ notify = {}
    /\ succeeded = FALSE
    /\ landed = [t \in Tag |-> NoValue]
    /\ unhandled = {}

\* The transfer buffer holds nothing that is still used.
ClearTransfer ==
    /\ batch' = {}
    /\ requests_size' = 0
    /\ responses_size' = 0
    /\ built' = 0
    /\ request' = [t \in Tag |-> NoRequest]
    /\ reply' = [t \in Tag |-> NoReply]

-----------------------------------------------------------------------------
(* Device support and IOC shell: any thread but the scan task *)

\* xxx_write of an output record: under data_lock, if the tag is valid and
\* holds another value, put the record's value and request the write.  It
\* does so as well while an earlier write is still requested or under way.
DeviceWrite(t, v) ==
    /\ phase # "crashed"
    /\ valid[t]
    /\ data[t] # v
    /\ data' = [data EXCEPT ![t] = v]
    /\ do_write' = [do_write EXCEPT ![t] = TRUE]
    /\ UNCHANGED <<valid, is_writing, sizeVars, scanVars, bookVars, wireVars, history>>

\* drvEtherIP_add_tag for a tag that exists, with more elements.
AddElements(t) ==
    /\ phase = "idle"
    /\ elements[t] < LastElements[t]
    /\ elements' = [elements EXCEPT ![t] = LastElements[t]]
    /\ UNCHANGED <<tagVars, sized, scanVars, bookVars, wireVars, history>>

-----------------------------------------------------------------------------
(* Connection *)

\* Mutant: shut the connection down, but leave the tags as they are.
disconnect_PLC_KeepsTags ==
    /\ sock' = FALSE
    /\ phase' = "idle"
    /\ todo' = {}
    /\ due' = {}
    /\ remaining' = {}
    /\ ClearTransfer
    /\ landed' = [t \in Tag |-> NoValue]
    /\ unhandled' = {}
    /\ UNCHANGED <<tagVars, sizeVars, notify, succeeded>>

\* disconnect_PLC: shut the connection down, then invalidate all tags.
disconnect_PLC ==
    /\ sock' = FALSE
    /\ phase' = "invalidate"
    /\ todo' = Tag
    /\ due' = {}
    /\ remaining' = {}
    /\ ClearTransfer
    /\ landed' = [t \in Tag |-> NoValue]
    /\ unhandled' = {}
    /\ UNCHANGED <<tagVars, sizeVars, notify, succeeded>>

\* drvEtherIP_restart: under PLC.lock, disconnect if connected.
drvEtherIP_restart ==
    /\ phase = "idle"
    /\ sock
    /\ disconnect_PLC

\* Mutant: the write under way is kept for the next connection.
InvalidateTag_KeepsWrite(t) ==
    /\ phase = "invalidate"
    /\ notify = {}
    /\ IsFirst(t, todo)
    /\ valid' = [valid EXCEPT ![t] = FALSE]
    /\ todo' = todo \ {t}
    /\ notify' = {t}
    /\ UNCHANGED <<data, is_writing, do_write, sizeVars, sock, phase, due, remaining,
                   succeeded, bookVars, wireVars, history>>

\* invalidate_PLC_tags, one tag.
InvalidateTag(t) ==
    /\ phase = "invalidate"
    /\ notify = {}
    /\ IsFirst(t, todo)
    /\ is_writing' = [is_writing EXCEPT ![t] = FALSE]
    /\ valid' = [valid EXCEPT ![t] = FALSE]
    /\ todo' = todo \ {t}
    /\ notify' = {t}
    /\ UNCHANGED <<data, do_write, sizeVars, sock, phase, due, remaining, succeeded,
                   bookVars, wireVars, history>>

InvalidateDone ==
    /\ phase = "invalidate"
    /\ todo = {}
    /\ notify = {}
    /\ phase' = "idle"
    /\ UNCHANGED <<tagVars, sizeVars, sock, due, remaining, todo, notify, succeeded,
                   bookVars, wireVars, history>>

\* assert_PLC_connect: EIP_startup succeeds (its failure changes nothing).
Connect ==
    /\ phase = "idle"
    /\ ~sock
    /\ sock' = TRUE
    /\ phase' = "complete"
    /\ todo' = Tag
    /\ succeeded' = FALSE
    /\ UNCHANGED <<tagVars, sizeVars, due, remaining, notify, bookVars, wireVars, history>>

\* complete_PLC_ScanList_TagInfos, one tag: EIP_read_tag returns data, a
\* response without data (no write size: the tag is never scanned), or fails.
CompleteTag(t) ==
    /\ phase = "complete"
    /\ IsFirst(t, todo)
    /\ \/ /\ sized' = [sized EXCEPT ![t] = elements[t]]
          /\ succeeded' = TRUE
       \/ /\ sized' = [sized EXCEPT ![t] = 0]
          /\ succeeded' \in {succeeded, TRUE}
    /\ todo' = todo \ {t}
    /\ UNCHANGED <<tagVars, elements, sock, phase, due, remaining, notify,
                   bookVars, wireVars, history>>

\* At least one tag answered, or there is none: go on with the scan.
CompleteOk ==
    /\ phase = "complete"
    /\ todo = {}
    /\ succeeded \/ Tag = {}
    /\ phase' = "pass"
    /\ due' \in SUBSET ScanList
    /\ UNCHANGED <<tagVars, sizeVars, sock, remaining, todo, notify, succeeded,
                   bookVars, wireVars, history>>

CompleteFails ==
    /\ phase = "complete"
    /\ todo = {}
    /\ ~succeeded
    /\ Tag # {}
    /\ disconnect_PLC

-----------------------------------------------------------------------------
(* PLC_scan_task: one pass over the scan lists under PLC.lock *)

BeginPass ==
    /\ phase = "idle"
    /\ sock
    /\ phase' = "pass"
    /\ due' \in SUBSET ScanList
    /\ UNCHANGED <<tagVars, sizeVars, sock, remaining, todo, notify, succeeded,
                   bookVars, wireVars, history>>

EndPass ==
    /\ phase = "pass"
    /\ due = {}
    /\ phase' = "idle"
    /\ UNCHANGED <<tagVars, sizeVars, sock, due, remaining, todo, notify, succeeded,
                   bookVars, wireVars, history>>

\* process_ScanList is called; info is the first tag of the list.
StartList(l) ==
    /\ phase = "pass"
    /\ IsFirst(l, due)
    /\ due' = due \ {l}
    /\ remaining' = {t \in Tag : ListOf[t] = l}
    /\ todo' = Sized(remaining')
    /\ unhandled' = todo'
    /\ phase' = "count"
    /\ UNCHANGED <<tagVars, sizeVars, sock, notify, succeeded, bookVars, wireVars, landed>>

\* process_ScanList returned true.
ListScanned ==
    /\ phase = "scanned"
    /\ phase' = "pass"
    /\ remaining' = {}
    /\ unhandled' = {}
    /\ UNCHANGED <<tagVars, sizeVars, sock, due, todo, notify, succeeded,
                   bookVars, wireVars, landed>>

-----------------------------------------------------------------------------
(* determine_MultiRequest_count *)

\* A requested write starts here, or one that did not fit goes on waiting.
Writing(t) == do_write[t] \/ is_writing[t]

\* Mutant: count every item as a read.
TryRequests_Read(t) == requests_size + ReadRequestSize[t]

TryRequests(t)  == requests_size  + IF Writing(t) THEN WriteRequestSize(t)
                                                  ELSE ReadRequestSize[t]
TryResponses(t) == responses_size + IF Writing(t) THEN WriteResponseSize(t)
                                                  ELSE ReadResponseSize(t)

Fits(t) ==
    LET count == Cardinality(batch) + 1 IN
    /\ CIP_MultiRequest_size(count, TryRequests(t)) <= BufferLimit
    /\ CIP_MultiResponse_size(count, TryResponses(t)) <= BufferLimit

\* Mutant: a write that did not fit last time is forgotten.
ClaimWrite_Forgets(t) ==
    /\ is_writing' = [is_writing EXCEPT ![t] = do_write[t]]
    /\ do_write' = [do_write EXCEPT ![t] = FALSE]
    /\ UNCHANGED <<data, valid>>

\* The data_lock section: move the request from do_write to is_writing.
ClaimWrite(t) ==
    /\ is_writing' = [is_writing EXCEPT ![t] = Writing(t)]
    /\ do_write' = [do_write EXCEPT ![t] = FALSE]
    /\ UNCHANGED <<data, valid>>

CountTag(t) ==
    /\ phase = "count"
    /\ IsFirst(t, todo)
    /\ ClaimWrite(t)
    /\ \/ /\ Fits(t)
          /\ batch' = batch \union {t}
          /\ requests_size' = TryRequests(t)
          /\ responses_size' = TryResponses(t)
          /\ todo' = todo \ {t}
       \/ /\ ~Fits(t)     \* more won't fit
          /\ todo' = {}
          /\ UNCHANGED <<batch, requests_size, responses_size>>
    /\ UNCHANGED <<sizeVars, sock, phase, due, remaining, notify, succeeded, built,
                   wireVars, history>>

\* Mutant: continue behind the tag that did not fit.
CountDone_Skips ==
    /\ phase = "count"
    /\ todo = {}
    /\ batch # {}
    /\ phase' = "build"
    /\ todo' = batch
    /\ remaining' = {t \in remaining : \A b \in batch : b + 1 < t}
    /\ UNCHANGED <<tagVars, sizeVars, sock, due, notify, succeeded, bookVars, wireVars,
                   history>>

\* count > 0: make the transfer, the next one continues behind its tags.
CountDone ==
    /\ phase = "count"
    /\ todo = {}
    /\ batch # {}
    /\ phase' = "build"
    /\ todo' = batch
    /\ remaining' = {t \in remaining : \A b \in batch : b < t}
    /\ UNCHANGED <<tagVars, sizeVars, sock, due, notify, succeeded, bookVars, wireVars,
                   history>>

\* count = 0: empty, or nothing fits in one request.
CountNone ==
    /\ phase = "count"
    /\ todo = {}
    /\ batch = {}
    /\ phase' = "scanned"
    /\ UNCHANGED <<tagVars, sizeVars, sock, due, remaining, todo, notify, succeeded,
                   bookVars, wireVars, history>>

-----------------------------------------------------------------------------
(* process_ScanList: build, send, receive *)

\* Mutant: look at the flags again instead of going by is_writing.
BuildItem_LooksAgain(t) ==
    /\ phase = "build"
    /\ IsFirst(t, todo)
    /\ request' = [request EXCEPT ![t] =
                     IF Writing(t) THEN [kind |-> "write", value |-> data[t]]
                                   ELSE [kind |-> "read", value |-> NoValue]]
    /\ built' = built + IF Writing(t) THEN WriteRequestSize(t) ELSE ReadRequestSize[t]
    /\ todo' = todo \ {t}
    /\ UNCHANGED <<tagVars, sizeVars, sock, phase, due, remaining, notify, succeeded,
                   batch, requests_size, responses_size, reply, history>>

\* Add the item of one tag, at the place behind the items before it, which
\* CIP_MultiRequest_item makes as large as the counted size of the request.
\* is_writing is read without the lock, a write copies info->data under it.
BuildItem(t) ==
    /\ phase = "build"
    /\ IsFirst(t, todo)
    /\ request' = [request EXCEPT ![t] =
                     IF is_writing[t] THEN [kind |-> "write", value |-> data[t]]
                                      ELSE [kind |-> "read", value |-> NoValue]]
    /\ built' = built + IF is_writing[t] THEN WriteRequestSize(t) ELSE ReadRequestSize[t]
    /\ todo' = todo \ {t}
    /\ UNCHANGED <<tagVars, sizeVars, sock, phase, due, remaining, notify, succeeded,
                   batch, requests_size, responses_size, reply, history>>

\* Mutant: write requests are cleared when they are sent, not when claimed.
Send_ClearsRequests ==
    /\ phase = "build"
    /\ todo = {}
    /\ phase' = "sent"
    /\ do_write' = [t \in Tag |-> do_write[t] /\ t \notin batch]
    /\ UNCHANGED <<data, valid, is_writing, sizeVars, sock, due, remaining, todo, notify,
                   succeeded, bookVars, wireVars, history>>

Send ==
    /\ phase = "build"
    /\ todo = {}
    /\ phase' = "sent"
    /\ UNCHANGED <<tagVars, sizeVars, sock, due, remaining, todo, notify, succeeded,
                   bookVars, wireVars, history>>

\* The items a PLC may answer to a request.  "empty": status is good, but no
\* data follows; "error": the item has an error status.
Replies(req) ==
    IF req.kind = "write"
    THEN [status : {"ok", "error"}, value : {NoValue}]
    ELSE [status : {"ok"}, value : Value]
           \union [status : {"empty", "error"}, value : {NoValue}]

\* External: the PLC executes all items and answers.
PlcAnswers ==
    /\ phase = "sent"
    /\ \E r \in [batch -> UNION {Replies(request[t]) : t \in batch}] :
         /\ \A t \in batch : r[t] \in Replies(request[t])
         /\ reply' = [t \in Tag |-> IF t \in batch THEN r[t] ELSE NoReply]
         /\ landed' = [t \in Tag |->
                         IF /\ t \in batch
                            /\ request[t].kind = "write"
                            /\ r[t].status = "ok"
                         THEN request[t].value ELSE landed[t]]
    /\ phase' = "answered"
    /\ UNCHANGED <<tagVars, sizeVars, sock, due, remaining, todo, notify, succeeded,
                   bookVars, request, unhandled>>

\* EIP_read_connection_buffer got the response to this very transaction, and
\* check_CIP_MultiRequest_Response accepts it.
ResponseOk ==
    /\ phase = "answered"
    /\ phase' = "receive"
    /\ todo' = batch
    /\ UNCHANGED <<tagVars, sizeVars, sock, due, remaining, notify, succeeded,
                   bookVars, wireVars, history>>

\* One of the "return false" of process_ScanList, which makes PLC_scan_task
\* disconnect: the request cannot be made or sent, there is no response in
\* time (whether or not the PLC executed the request), it has another
\* transaction ID, an error, or too few items.
TransferFails ==
    /\ phase \in {"build", "sent", "answered", "receive"}
    /\ phase = "receive" => todo # {}
    /\ notify = {}
    /\ disconnect_PLC

\* One tag of the response: the tail that all branches share.
ItemHandled(t) ==
    /\ todo' = todo \ {t}
    /\ unhandled' = unhandled \ {t}
    /\ notify' = {t}
    /\ UNCHANGED <<sizeVars, sock, phase, due, remaining, succeeded, bookVars, wireVars>>

HandleItem(t) ==
    /\ phase = "receive"
    /\ notify = {}
    /\ IsFirst(t, todo)

\* Mutant: the write cycle does not end when the PLC refuses the write.
ReceiveWritten_Retries(t) ==
    /\ HandleItem(t)
    /\ is_writing[t]
    /\ valid' = [valid EXCEPT ![t] = @ /\ reply[t].status = "ok"]
    /\ is_writing' = [is_writing EXCEPT ![t] = reply[t].status # "ok"]
    /\ landed' = [landed EXCEPT ![t] = NoValue]
    /\ UNCHANGED <<data, do_write>>
    /\ ItemHandled(t)

ReceiveWritten(t) ==
    /\ HandleItem(t)
    /\ is_writing[t]
    /\ valid' = [valid EXCEPT ![t] = @ /\ reply[t].status = "ok"]
    /\ is_writing' = [is_writing EXCEPT ![t] = FALSE]
    /\ landed' = [landed EXCEPT ![t] = NoValue]
    /\ UNCHANGED <<data, do_write>>
    /\ ItemHandled(t)

\* A write was requested in the middle of the read cycle: ignore the data.
ReceiveIgnored(t) ==
    /\ HandleItem(t)
    /\ ~is_writing[t]
    /\ do_write[t]
    /\ UNCHANGED <<tagVars, landed>>
    /\ ItemHandled(t)

\* Mutant: what was read replaces the data that is to be written.
ReceiveRead_Overwrites(t) ==
    /\ HandleItem(t)
    /\ ~is_writing[t]
    /\ reply[t].status = "ok"
    /\ data' = [data EXCEPT ![t] = reply[t].value]
    /\ valid' = [valid EXCEPT ![t] = TRUE]
    /\ UNCHANGED <<do_write, is_writing, landed>>
    /\ ItemHandled(t)

\* Mutant: an item without data is as good as one with data.
ReceiveRead_NoData(t) ==
    /\ HandleItem(t)
    /\ ~is_writing[t]
    /\ ~do_write[t]
    /\ reply[t].status \in {"ok", "empty"}
    /\ data' = [data EXCEPT ![t] = reply[t].value]
    /\ valid' = [valid EXCEPT ![t] = TRUE]
    /\ UNCHANGED <<do_write, is_writing, landed>>
    /\ ItemHandled(t)

\* data_size is only set when the item is good: after an error it holds
\* what it held before, and a zero makes the tag invalid.
ReceiveRead(t) ==
    /\ HandleItem(t)
    /\ ~is_writing[t]
    /\ ~do_write[t]
    /\ \/ /\ reply[t].status = "ok"
          /\ data' = [data EXCEPT ![t] = reply[t].value]
          /\ valid' = [valid EXCEPT ![t] = TRUE]
       \/ /\ reply[t].status \in {"empty", "error"}
          /\ valid' = [valid EXCEPT ![t] = FALSE]
          /\ UNCHANGED data
    /\ UNCHANGED <<do_write, is_writing, landed>>
    /\ ItemHandled(t)

\* ... and any other value makes memcpy read from a null pointer.
ReceiveCrash(t) ==
    /\ HandleItem(t)
    /\ ~is_writing[t]
    /\ ~do_write[t]
    /\ reply[t].status = "error"
    /\ phase' = "crashed"
    /\ UNCHANGED <<tagVars, sizeVars, sock, due, remaining, todo, notify, succeeded,
                   bookVars, wireVars, history>>

\* The callbacks of one tag, called without data_lock but under PLC.lock.
CallCallbacks(t) ==
    /\ t \in notify
    /\ notify' = {}
    /\ UNCHANGED <<tagVars, sizeVars, sock, phase, due, remaining, todo, succeeded,
                   bookVars, wireVars, history>>

\* Next round of the loop, with the tags behind those transferred.
TransferDone ==
    /\ phase = "receive"
    /\ todo = {}
    /\ notify = {}
    /\ phase' = "count"
    /\ todo' = Sized(remaining)
    /\ ClearTransfer
    /\ UNCHANGED <<tagVars, sizeVars, sock, due, remaining, notify, succeeded, history>>

-----------------------------------------------------------------------------
ReceiveItem(t) ==
    \/ ReceiveWritten(t)
    \/ ReceiveIgnored(t)
    \/ ReceiveRead(t)
    \/ ReceiveCrash(t)

\* The scan task but for the callbacks, and the PLC that it waits for.
TransferStep ==
    \/ Connect \/ CompleteOk \/ CompleteFails
    \/ BeginPass \/ EndPass \/ ListScanned
    \/ CountDone \/ CountNone \/ Send \/ PlcAnswers \/ ResponseOk
    \/ TransferFails \/ TransferDone \/ InvalidateDone
    \/ \E l \in ScanList : StartList(l)
    \/ \E t \in Tag :
          \/ CompleteTag(t) \/ CountTag(t) \/ BuildItem(t)
          \/ ReceiveItem(t) \/ InvalidateTag(t)

ScanStep == TransferStep \/ \E t \in Tag : CallCallbacks(t)

\* Other threads that need PLC.lock.
OtherStep == drvEtherIP_restart \/ \E t \in Tag : AddElements(t)

Next ==
    \/ ScanStep
    \/ OtherStep
    \/ \E t \in Tag, v \in Value : DeviceWrite(t, v)

Spec == Init /\ [][Next]_vars

\* The scan task goes on, and every list comes due again and again.
Fairness ==
    /\ WF_vars(ScanStep)
    /\ \A l \in ScanList : SF_vars(BeginPass /\ l \in due')

FairSpec == Spec /\ Fairness

-----------------------------------------------------------------------------
(* Properties *)

Item  == [kind : {"none", "read", "write"}, value : Value \union {NoValue}]
Reply == [status : {"none", "ok", "empty", "error"}, value : Value \union {NoValue}]

FieldTypes ==
    /\ data \in [Tag -> Value \union {NoValue}]
    /\ valid \in [Tag -> BOOLEAN]
    /\ do_write \in [Tag -> BOOLEAN]
    /\ is_writing \in [Tag -> BOOLEAN]
    /\ elements \in [Tag -> Nat]
    /\ sized \in [Tag -> Nat]
    /\ sock \in BOOLEAN
    /\ phase \in Phase
    /\ due \in SUBSET ScanList
    /\ remaining \in SUBSET Tag
    /\ todo \in SUBSET Tag
    /\ batch \in SUBSET Tag
    /\ requests_size \in Nat
    /\ responses_size \in Nat
    /\ built \in Nat
    /\ request \in [Tag -> Item]
    /\ reply \in [Tag -> Reply]
    /\ notify \in SUBSET Tag
    /\ succeeded \in BOOLEAN
    /\ landed \in [Tag -> Value \union {NoValue}]
    /\ unhandled \in SUBSET Tag

\* Every variable has the type that the C declarations give it, and
\* info->data is allocated wherever it is used: in a valid tag, and for a write.
TypeOK ==
    /\ FieldTypes
    /\ \A t \in Tag :
          /\ valid[t] \/ Writing(t) => data[t] # NoValue
          /\ request[t].kind = "write" => request[t].value # NoValue

\* The item of the tag is in the request, and its answer is not handled yet.
Packed(t) ==
    \/ phase = "build" /\ t \in batch \ todo
    \/ phase \in {"sent", "answered"} /\ t \in batch
    \/ phase = "receive" /\ t \in todo

\* The three loops of process_ScanList over the same tags (count, build,
\* receive) decide read or write alike, although device support requests
\* writes between them: no answer to a read is taken for the answer to a
\* write, or the other way round.
KindKept ==
    \A t \in Tag : Packed(t) => (request[t].kind = "write" <=> is_writing[t])

\* A value that device support puts into the TagInfo after it was copied into
\* the request is requested again: a write under way either carries the
\* newest value, or another write follows.
NoLostUpdate ==
    \A t \in Tag : Packed(t) /\ is_writing[t] /\ ~do_write[t]
                     => request[t].value = data[t]

\* The place of the item of a tag in the request, and what is written there.
ItemRoom(t) ==
    IF request[t].kind = "write" THEN WriteRequestSize(t) ELSE ReadRequestSize[t]
ItemBytes(t) ==
    IF request[t].kind = "write" THEN BuiltWriteSize(t, request[t].value)
                                 ELSE ReadRequestSize[t]

\* The places that the items of a request get are those that were counted for
\* them, although writes are requested between the two loops, and the request
\* keeps the limit.  Unless its tag got more elements after it was sized, no
\* item is longer than its place, and only that of a string is shorter.
SentAsCounted ==
    phase = "sent" =>
        /\ built = requests_size
        /\ CIP_MultiRequest_size(Cardinality(batch), built) <= BufferLimit
        /\ \A t \in batch :
              /\ t \in StringTag \/ sized[t] = elements[t] => ItemBytes(t) <= ItemRoom(t)
              /\ t \notin StringTag /\ sized[t] = elements[t] => ItemBytes(t) = ItemRoom(t)

\* The write sizes calculated from the responses to reads are exact
\* (complete_PLC_ScanList_TagInfos), whatever tags are added and whatever they are.
BuiltAsCounted ==
    phase = "sent" => \A t \in batch : ItemBytes(t) = ItemRoom(t)

\* process_ScanList returns OK only after it transferred every tag of the list
\* that has sizes.
AllTagsTransferred ==
    phase = "scanned" => unhandled = {}

\* What AllTagsTransferred needs of the tags: the read and the write of each
\* fits into a request, and their responses fit, when it is the only item.
EveryTagFits ==
    \A t \in Tag : \A n \in {FirstElements[t], LastElements[t]} :
        LET bytes == TypeSize(t) + ElementSize[t] * n IN
        /\ CIP_MultiRequest_size(1, ReadRequestSize[t] + bytes) <= BufferLimit
        /\ CIP_MultiResponse_size(1, 4 + bytes) <= BufferLimit

\* No tag is valid, and no write is under way, from the moment PLC.lock is
\* released without a connection until tags are read on the next one,
\* whatever device support requested while the tags were invalidated.
NothingValidWhileDown ==
    (phase = "complete" \/ (phase = "idle" /\ ~sock)) =>
        \A t \in Tag : ~valid[t] /\ ~is_writing[t]

\* A valid tag is one that the scan task visits: none keeps its last value
\* forever as valid because the loops skip it.
ValidIsScanned ==
    \A t \in Tag : valid[t] => sized[t] > 0

\* While a write is requested or under way, the value only changes by another
\* write request, not by a step of the scan task: what was read from the PLC
\* does not replace it.
OwedDataKept ==
    [][\A t \in Tag : Writing(t) /\ data'[t] # data[t]
                       => do_write'[t] /\ UNCHANGED scanVars]_vars

\* The driver keeps what TagPromise says about each tag.
Promise == INSTANCE TagPromise
             WITH owed <- [t \in Tag |-> Writing(t)], up <- sock
PromiseKept == Promise!Spec

-----------------------------------------------------------------------------
(* The inductive invariant behind these properties *)

\* The answers that are still to be handled are answers to the items of the
\* request, and landed tells which writes among them the PLC took.
AnswersMatch ==
    \A t \in Tag :
        (phase = "answered" /\ t \in batch) \/ (phase = "receive" /\ t \in todo) =>
            /\ reply[t] \in Replies(request[t])
            /\ request[t].kind = "write" /\ reply[t].status = "ok"
                  => landed[t] = request[t].value

\* The loop over the tags of disconnect_PLC leaves none valid behind it, and
\* the scan task works on a connection.
ConnectionState ==
    /\ phase \notin {"idle", "invalidate", "crashed"} => sock
    /\ phase = "invalidate" =>
          /\ ~sock
          /\ \A t \in Tag \ todo : ~valid[t] /\ ~is_writing[t]

\* A transfer is empty outside process_ScanList, and only has tags with sizes.
BatchState ==
    /\ phase \in {"idle", "complete", "pass", "scanned", "invalidate"} => batch = {}
    /\ batch = {} => requests_size = 0 /\ responses_size = 0
    /\ batch \subseteq Sized(Tag)
    /\ phase \in {"count", "receive"} => todo \subseteq Sized(Tag)

\* The tags with sizes that the scan of a list did not transfer yet are those
\* of this transfer and those from info_position on.  The counting loop takes
\* the first of the latter into the transfer, and starts with the very first.
WalkState ==
    /\ phase = "count" =>
          /\ unhandled \subseteq Sized(remaining)
          /\ batch \subseteq remaining
          /\ \A b \in batch, t \in Sized(remaining) \ batch : b < t
          /\ todo \in {{}, Sized(remaining) \ batch}
          /\ batch = {} => todo = Sized(remaining)
    /\ phase \in {"build", "sent", "answered"} =>
          unhandled \subseteq batch \union Sized(remaining)
    /\ phase = "receive" =>
          unhandled \subseteq todo \union Sized(remaining)

\* The sizes are those of a number of elements the tag had.
SizesKnown ==
    \A t \in Tag :
        /\ elements[t] \in {FirstElements[t], LastElements[t]}
        /\ sized[t] \in {0, FirstElements[t], LastElements[t]}

IInv ==
    /\ TypeOK
    /\ KindKept
    /\ NoLostUpdate
    /\ AnswersMatch
    /\ ConnectionState
    /\ NothingValidWhileDown
    /\ BatchState
    /\ ValidIsScanned

\* With it, when every tag fits:
ListInv ==
    /\ WalkState
    /\ SizesKnown
    /\ AllTagsTransferred

-----------------------------------------------------------------------------
(* Liveness, and what the comments of the code say but the code does not do *)

\* A requested write does not wait forever while the connection stays up, and
\* a write under way ends.
WriteGoesOn ==
    \A t \in Tag :
        /\ do_write[t] ~> (~do_write[t] \/ ~sock \/ sized[t] = 0 \/ phase = "crashed")
        /\ is_writing[t] ~> (~is_writing[t] \/ phase = "crashed")

\* After an error all writes are skipped: none that was requested before the
\* connection was lost waits for the next one (invalidate_PLC_tags).
NoWriteSurvivesError ==
    (phase = "idle" /\ ~sock) => \A t \in Tag : ~Writing(t)
=============================================================================
