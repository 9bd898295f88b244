------------------------- MODULE TagTransferProofs -------------------------
(***************************************************************************)
(* Proofs of the safety properties of TagTransfer, for any number of tags, *)
(* scan lists and values, any sizes of tags and any limit of the PLC.      *)
(***************************************************************************)
EXTENDS TagTransfer, FiniteSetTheorems, TLAPS

USE DEF vars, tagVars, sizeVars, scanVars, bookVars, wireVars, history

-----------------------------------------------------------------------------
(* Lemmas on the data structures *)

\* A number of bytes is the product of a number of elements and their size.
LEMMA ProductNat ==
    ASSUME NEW m \in Nat, NEW n \in Nat
    PROVE  m * n \in Nat
  OBVIOUS

\* The sizes that process_ScanList adds up are sizes.
LEMMA SizesNat ==
    ASSUME FieldTypes, NEW t \in Tag
    PROVE  /\ ReadRequestSize[t] \in Nat
           /\ ReadResponseSize(t) \in Nat
           /\ WriteRequestSize(t) \in Nat
           /\ WriteResponseSize(t) \in Nat
  <1>1. ElementSize[t] * sized[t] \in Nat
    BY ProductNat, TagAssumption DEF FieldTypes
  <1>2. ReadRequestSize[t] \in Nat
    BY TagAssumption
  <1> QED
    BY <1>1, <1>2 DEF TypeSize, ReadResponseSize, WriteRequestSize, WriteResponseSize

\* A write takes the bytes counted for it, and that of a string at most these,
\* unless the tag got more elements meanwhile.
LEMMA WriteFits ==
    ASSUME FieldTypes, NEW t \in Tag, NEW v \in Value
    PROVE  /\ t \in StringTag => BuiltWriteSize(t, v) <= WriteRequestSize(t)
           /\ t \notin StringTag /\ sized[t] = elements[t]
                 => BuiltWriteSize(t, v) = WriteRequestSize(t)
  <1> DEFINE bytes == ElementSize[t] * sized[t]
  <1>1. bytes \in Nat /\ ReadRequestSize[t] \in Nat /\ TextLength[v] \in Nat
    BY ProductNat, TagAssumption DEF FieldTypes
  <1>2. sized[t] = elements[t] => ElementSize[t] * elements[t] = bytes
    OBVIOUS
  <1>3. WriteRequestSize(t) = ReadRequestSize[t] + TypeSize(t) + bytes
    <2> HIDE DEF bytes
    <2> QED BY <1>1 DEF WriteRequestSize, ReadResponseSize, TypeSize, bytes
  <1> HIDE DEF bytes
  <1>4. CASE t \in StringTag
    BY <1>1, <1>3, <1>4 DEF BuiltWriteSize, TypeSize
  <1>5. CASE t \notin StringTag
    BY <1>1, <1>2, <1>3, <1>5 DEF BuiltWriteSize, TypeSize
  <1> QED BY <1>4, <1>5

\* Items and replies have a type that the empty ones share.
LEMMA EmptyTypes ==
    NoRequest \in Item /\ NoReply \in Reply
  BY DEF NoRequest, NoReply, Item, Reply

\* The answers that a PLC may give are replies.
LEMMA RepliesTyped ==
    ASSUME NEW req \in Item
    PROVE  Replies(req) \subseteq Reply
  BY DEF Replies, Reply, Item

-----------------------------------------------------------------------------
(* Types *)

LEMMA InitTypes == Init => FieldTypes
  <1> SUFFICES ASSUME Init PROVE FieldTypes
    OBVIOUS
  <1>1. elements \in [Tag -> Nat] /\ sized \in [Tag -> Nat]
    BY TagAssumption DEF Init
  <1>2. request \in [Tag -> Item] /\ reply \in [Tag -> Reply]
    BY EmptyTypes DEF Init
  <1> QED
    BY <1>1, <1>2 DEF Init, FieldTypes, Phase

\* disconnect_PLC leaves every field with its type.
LEMMA DisconnectTypes ==
    ASSUME FieldTypes, disconnect_PLC
    PROVE  FieldTypes'
  BY EmptyTypes DEF disconnect_PLC, ClearTransfer, FieldTypes, Phase

LEMMA NextTypes ==
    ASSUME FieldTypes, Next
    PROVE  FieldTypes'
  <1> USE DEF FieldTypes, Phase
  <1>1. CASE Connect BY <1>1 DEF Connect
  <1>2. CASE CompleteOk BY <1>2 DEF CompleteOk
  <1>3. CASE CompleteFails BY <1>3, DisconnectTypes DEF CompleteFails
  <1>4. CASE BeginPass BY <1>4 DEF BeginPass
  <1>5. CASE EndPass BY <1>5 DEF EndPass
  <1>6. CASE ListScanned BY <1>6 DEF ListScanned
  <1>7. CASE CountDone BY <1>7 DEF CountDone
  <1>8. CASE CountNone BY <1>8 DEF CountNone
  <1>9. CASE Send BY <1>9 DEF Send
  <1>10. CASE PlcAnswers
    <2>1. PICK r \in [batch -> UNION {Replies(request[t]) : t \in batch}] :
             /\ \A t \in batch : r[t] \in Replies(request[t])
             /\ reply' = [t \in Tag |-> IF t \in batch THEN r[t] ELSE NoReply]
             /\ landed' = [t \in Tag |->
                             IF /\ t \in batch
                                /\ request[t].kind = "write"
                                /\ r[t].status = "ok"
                             THEN request[t].value ELSE landed[t]]
      BY <1>10 DEF PlcAnswers
    <2>2. reply' \in [Tag -> Reply]
      BY <2>1, RepliesTyped, EmptyTypes
    <2>3. landed' \in [Tag -> Value \union {NoValue}]
      BY <2>1 DEF Item
    <2> QED BY <1>10, <2>2, <2>3 DEF PlcAnswers
  <1>11. CASE ResponseOk BY <1>11 DEF ResponseOk
  <1>12. CASE TransferFails BY <1>12, DisconnectTypes DEF TransferFails
  <1>13. CASE TransferDone
    BY <1>13, EmptyTypes DEF TransferDone, ClearTransfer, Sized
  <1>14. CASE InvalidateDone BY <1>14 DEF InvalidateDone
  <1>15. ASSUME NEW l \in ScanList, StartList(l) PROVE FieldTypes'
    BY <1>15 DEF StartList, Sized
  <1>16. ASSUME NEW t \in Tag, CompleteTag(t) PROVE FieldTypes'
    <2>1. elements[t] \in Nat
      OBVIOUS
    <2>2. CASE sized' = [sized EXCEPT ![t] = elements[t]] /\ succeeded' = TRUE
      BY <1>16, <2>1, <2>2 DEF CompleteTag
    <2>3. CASE sized' = [sized EXCEPT ![t] = 0] /\ succeeded' \in {succeeded, TRUE}
      BY <1>16, <2>3 DEF CompleteTag
    <2> QED BY <1>16, <2>2, <2>3 DEF CompleteTag
  <1>17. ASSUME NEW t \in Tag, CountTag(t) PROVE FieldTypes'
    <2>1. TryRequests(t) \in Nat /\ TryResponses(t) \in Nat
      BY SizesNat DEF TryRequests, TryResponses
    <2>2. is_writing' \in [Tag -> BOOLEAN] /\ do_write' \in [Tag -> BOOLEAN]
      BY <1>17 DEF CountTag, ClaimWrite, Writing
    <2> QED BY <1>17, <2>1, <2>2 DEF CountTag, ClaimWrite
  <1>18. ASSUME NEW t \in Tag, BuildItem(t) PROVE FieldTypes'
    <2>1. built' \in Nat
      BY <1>18, SizesNat DEF BuildItem
    <2>2. request' \in [Tag -> Item]
      BY <1>18 DEF BuildItem, Item
    <2> QED BY <1>18, <2>1, <2>2 DEF BuildItem
  <1>19. ASSUME NEW t \in Tag, ReceiveWritten(t) PROVE FieldTypes'
    BY <1>19 DEF ReceiveWritten, HandleItem, ItemHandled
  <1>20. ASSUME NEW t \in Tag, ReceiveIgnored(t) PROVE FieldTypes'
    BY <1>20 DEF ReceiveIgnored, HandleItem, ItemHandled
  <1>21. ASSUME NEW t \in Tag, ReceiveRead(t) PROVE FieldTypes'
    <2>1. reply[t].value \in Value \union {NoValue}
      BY DEF Reply
    <2> QED BY <1>21, <2>1 DEF ReceiveRead, HandleItem, ItemHandled
  <1>22. ASSUME NEW t \in Tag, ReceiveCrash(t) PROVE FieldTypes'
    BY <1>22 DEF ReceiveCrash
  <1>23. ASSUME NEW t \in Tag, InvalidateTag(t) PROVE FieldTypes'
    BY <1>23 DEF InvalidateTag
  <1>24. ASSUME NEW t \in Tag, CallCallbacks(t) PROVE FieldTypes'
    BY <1>24 DEF CallCallbacks
  <1>25. CASE drvEtherIP_restart BY <1>25, DisconnectTypes DEF drvEtherIP_restart
  <1>26. ASSUME NEW t \in Tag, AddElements(t) PROVE FieldTypes'
    BY <1>26, TagAssumption DEF AddElements
  <1>27. ASSUME NEW t \in Tag, NEW v \in Value, DeviceWrite(t, v) PROVE FieldTypes'
    BY <1>27 DEF DeviceWrite
  <1> QED
    BY <1>1, <1>2, <1>3, <1>4, <1>5, <1>6, <1>7, <1>8, <1>9, <1>10, <1>11, <1>12,
       <1>13, <1>14, <1>15, <1>16, <1>17, <1>18, <1>19, <1>20, <1>21, <1>22, <1>23,
       <1>24, <1>25, <1>26, <1>27
    DEF Next, ScanStep, TransferStep, ReceiveItem, OtherStep

-----------------------------------------------------------------------------
(* The exchange of requests and replies while writes are requested *)

\* info->data is allocated where it is used, the second conjunct of TypeOK.
Allocated ==
    \A t \in Tag :
        /\ valid[t] \/ Writing(t) => data[t] # NoValue
        /\ request[t].kind = "write" => request[t].value # NoValue

Exchange == Allocated /\ KindKept /\ NoLostUpdate /\ AnswersMatch

LEMMA InitExchange == Init => Exchange
  BY DEF Init, Exchange, Allocated, NoRequest, Writing, KindKept, NoLostUpdate,
         AnswersMatch, Packed

\* When the buffer is not in use, only the data of the tags matters.
LEMMA UnusedExchange ==
    ASSUME Exchange, phase' \notin {"build", "sent", "answered", "receive"},
           UNCHANGED <<data, valid, do_write, is_writing>>,
           request' \in {request, [t \in Tag |-> NoRequest]}
    PROVE  Exchange'
  BY DEF Exchange, Allocated, NoRequest, Writing, KindKept, NoLostUpdate, AnswersMatch, Packed

LEMMA DisconnectExchange ==
    ASSUME Exchange, disconnect_PLC
    PROVE  Exchange'
  BY UnusedExchange DEF disconnect_PLC, ClearTransfer

LEMMA NextExchange ==
    ASSUME FieldTypes, Exchange, Next
    PROVE  Exchange'
  <1> USE DEF Allocated, Writing, KindKept, NoLostUpdate, AnswersMatch, Packed
  <1>1. CASE Connect BY <1>1, UnusedExchange DEF Connect
  <1>2. CASE CompleteOk BY <1>2, UnusedExchange DEF CompleteOk
  <1>3. CASE CompleteFails BY <1>3, DisconnectExchange DEF CompleteFails
  <1>4. CASE BeginPass BY <1>4, UnusedExchange DEF BeginPass
  <1>5. CASE EndPass BY <1>5, UnusedExchange DEF EndPass
  <1>6. CASE ListScanned BY <1>6, UnusedExchange DEF ListScanned
  <1>7. CASE CountDone BY <1>7 DEF CountDone, Exchange
  <1>8. CASE CountNone BY <1>8, UnusedExchange DEF CountNone
  <1>9. CASE Send BY <1>9 DEF Send, Exchange
  <1>10. CASE PlcAnswers BY <1>10 DEF PlcAnswers, Exchange, FieldTypes
  <1>11. CASE ResponseOk BY <1>11 DEF ResponseOk, Exchange
  <1>12. CASE TransferFails BY <1>12, DisconnectExchange DEF TransferFails
  <1>13. CASE TransferDone
    BY <1>13, UnusedExchange DEF TransferDone, ClearTransfer
  <1>14. CASE InvalidateDone BY <1>14, UnusedExchange DEF InvalidateDone
  <1>15. ASSUME NEW l \in ScanList, StartList(l) PROVE Exchange'
    BY <1>15, UnusedExchange DEF StartList
  <1>16. ASSUME NEW t \in Tag, CompleteTag(t) PROVE Exchange'
    BY <1>16, UnusedExchange DEF CompleteTag
  <1>17. ASSUME NEW t \in Tag, CountTag(t) PROVE Exchange'
    BY <1>17 DEF CountTag, ClaimWrite, Exchange, FieldTypes
  <1>18. ASSUME NEW t \in Tag, BuildItem(t) PROVE Exchange'
    BY <1>18 DEF BuildItem, Exchange, FieldTypes
  <1>19. ASSUME NEW t \in Tag, ReceiveWritten(t) PROVE Exchange'
    BY <1>19 DEF ReceiveWritten, HandleItem, ItemHandled, Exchange, FieldTypes
  <1>20. ASSUME NEW t \in Tag, ReceiveIgnored(t) PROVE Exchange'
    BY <1>20 DEF ReceiveIgnored, HandleItem, ItemHandled, Exchange, FieldTypes
  <1>21. ASSUME NEW t \in Tag, ReceiveRead(t) PROVE Exchange'
    <2>1. t \in todo /\ phase = "receive" /\ ~is_writing[t]
      BY <1>21 DEF ReceiveRead, HandleItem, IsFirst
    \* The answer is one to a read, so it carries a value if it is good.
    <2>2. reply[t] \in Replies(request[t]) /\ request[t].kind # "write"
      BY <2>1 DEF Exchange
    <2>3. reply[t].status = "ok" => reply[t].value # NoValue
      BY <2>2, TagAssumption DEF Replies
    <2> QED
      BY <1>21, <2>3 DEF ReceiveRead, HandleItem, ItemHandled, Exchange, FieldTypes
  <1>22. ASSUME NEW t \in Tag, ReceiveCrash(t) PROVE Exchange'
    BY <1>22, UnusedExchange DEF ReceiveCrash
  <1>23. ASSUME NEW t \in Tag, InvalidateTag(t) PROVE Exchange'
    BY <1>23 DEF InvalidateTag, Exchange, FieldTypes
  <1>24. ASSUME NEW t \in Tag, CallCallbacks(t) PROVE Exchange'
    BY <1>24 DEF CallCallbacks, Exchange
  <1>25. CASE drvEtherIP_restart BY <1>25, DisconnectExchange DEF drvEtherIP_restart
  <1>26. ASSUME NEW t \in Tag, AddElements(t) PROVE Exchange'
    BY <1>26 DEF AddElements, Exchange
  <1>27. ASSUME NEW t \in Tag, NEW v \in Value, DeviceWrite(t, v) PROVE Exchange'
    BY <1>27, TagAssumption DEF DeviceWrite, Exchange, FieldTypes
  <1> QED
    BY <1>1, <1>2, <1>3, <1>4, <1>5, <1>6, <1>7, <1>8, <1>9, <1>10, <1>11, <1>12,
       <1>13, <1>14, <1>15, <1>16, <1>17, <1>18, <1>19, <1>20, <1>21, <1>22, <1>23,
       <1>24, <1>25, <1>26, <1>27
    DEF Next, ScanStep, TransferStep, ReceiveItem, OtherStep

-----------------------------------------------------------------------------
(* The connection, and which tags are in the buffer *)

Connection ==
    ConnectionState /\ NothingValidWhileDown /\ BatchState /\ ValidIsScanned

LEMMA InitConnection == Init => Connection
  BY DEF Init, Connection, ConnectionState, NothingValidWhileDown, BatchState,
         ValidIsScanned, Sized

LEMMA DisconnectConnection ==
    ASSUME Connection, disconnect_PLC
    PROVE  Connection'
  BY DEF disconnect_PLC, ClearTransfer, Connection, ConnectionState,
         NothingValidWhileDown, BatchState, ValidIsScanned, Sized

LEMMA NextConnection ==
    ASSUME FieldTypes, Connection, Next
    PROVE  Connection'
  <1> USE DEF ConnectionState, NothingValidWhileDown, BatchState, ValidIsScanned, Sized
  <1>1. CASE Connect BY <1>1 DEF Connect, Connection
  <1>2. CASE CompleteOk BY <1>2 DEF CompleteOk, Connection
  <1>3. CASE CompleteFails BY <1>3, DisconnectConnection DEF CompleteFails
  <1>4. CASE BeginPass BY <1>4 DEF BeginPass, Connection
  <1>5. CASE EndPass BY <1>5 DEF EndPass, Connection
  <1>6. CASE ListScanned BY <1>6 DEF ListScanned, Connection
  <1>7. CASE CountDone BY <1>7 DEF CountDone, Connection
  <1>8. CASE CountNone BY <1>8 DEF CountNone, Connection
  <1>9. CASE Send BY <1>9 DEF Send, Connection
  <1>10. CASE PlcAnswers BY <1>10 DEF PlcAnswers, Connection
  <1>11. CASE ResponseOk BY <1>11 DEF ResponseOk, Connection
  <1>12. CASE TransferFails BY <1>12, DisconnectConnection DEF TransferFails
  <1>13. CASE TransferDone BY <1>13 DEF TransferDone, ClearTransfer, Connection, FieldTypes
  <1>14. CASE InvalidateDone BY <1>14 DEF InvalidateDone, Connection
  <1>15. ASSUME NEW l \in ScanList, StartList(l) PROVE Connection'
    BY <1>15 DEF StartList, Connection
  <1>16. ASSUME NEW t \in Tag, CompleteTag(t) PROVE Connection'
    BY <1>16 DEF CompleteTag, Connection, FieldTypes
  <1>17. ASSUME NEW t \in Tag, CountTag(t) PROVE Connection'
    BY <1>17 DEF CountTag, ClaimWrite, IsFirst, Connection, FieldTypes
  <1>18. ASSUME NEW t \in Tag, BuildItem(t) PROVE Connection'
    BY <1>18 DEF BuildItem, Connection
  <1>19. ASSUME NEW t \in Tag, ReceiveWritten(t) PROVE Connection'
    BY <1>19 DEF ReceiveWritten, HandleItem, ItemHandled, Connection, FieldTypes
  <1>20. ASSUME NEW t \in Tag, ReceiveIgnored(t) PROVE Connection'
    BY <1>20 DEF ReceiveIgnored, HandleItem, ItemHandled, Connection
  <1>21. ASSUME NEW t \in Tag, ReceiveRead(t) PROVE Connection'
    BY <1>21 DEF ReceiveRead, HandleItem, IsFirst, ItemHandled, Connection, FieldTypes
  <1>22. ASSUME NEW t \in Tag, ReceiveCrash(t) PROVE Connection'
    BY <1>22 DEF ReceiveCrash, Connection
  <1>23. ASSUME NEW t \in Tag, InvalidateTag(t) PROVE Connection'
    BY <1>23 DEF InvalidateTag, Connection, FieldTypes
  <1>24. ASSUME NEW t \in Tag, CallCallbacks(t) PROVE Connection'
    BY <1>24 DEF CallCallbacks, Connection
  <1>25. CASE drvEtherIP_restart BY <1>25, DisconnectConnection DEF drvEtherIP_restart
  <1>26. ASSUME NEW t \in Tag, AddElements(t) PROVE Connection'
    BY <1>26 DEF AddElements, Connection
  <1>27. ASSUME NEW t \in Tag, NEW v \in Value, DeviceWrite(t, v) PROVE Connection'
    BY <1>27 DEF DeviceWrite, Connection
  <1> QED
    BY <1>1, <1>2, <1>3, <1>4, <1>5, <1>6, <1>7, <1>8, <1>9, <1>10, <1>11, <1>12,
       <1>13, <1>14, <1>15, <1>16, <1>17, <1>18, <1>19, <1>20, <1>21, <1>22, <1>23,
       <1>24, <1>25, <1>26, <1>27
    DEF Next, ScanStep, TransferStep, ReceiveItem, OtherStep

-----------------------------------------------------------------------------
(* The walk along a scan list *)

LEMMA InitList == Init => ListInv
  BY DEF Init, ListInv, WalkState, SizesKnown, AllTagsTransferred

\* A tag with sizes fits into a request of its own, to read it or to write it.
LEMMA FitsAlone ==
    ASSUME EveryTagFits, FieldTypes, SizesKnown, NEW t \in Tag, sized[t] > 0,
           batch = {}, requests_size = 0, responses_size = 0
    PROVE  Fits(t)
  <1> DEFINE bytes == ElementSize[t] * sized[t]
  <1>1. sized[t] \in {FirstElements[t], LastElements[t]}
    BY DEF SizesKnown, FieldTypes
  <1>2. /\ 2 + 4 + 2 + 2 * 1 + (ReadRequestSize[t] + (TypeSize(t) + bytes)) <= BufferLimit
        /\ 4 + 2 + 2 * 1 + (4 + (TypeSize(t) + bytes)) <= BufferLimit
    BY <1>1 DEF EveryTagFits, CIP_MultiRequest_size, CIP_MultiResponse_size
  <1>3. bytes \in Nat /\ ReadRequestSize[t] \in Nat /\ BufferLimit \in Nat /\ TypeSize(t) \in Nat
    BY ProductNat, TagAssumption DEF FieldTypes, TypeSize
  <1>4. Cardinality(batch) = 0
    BY FS_EmptySet
  <1>5. TryRequests(t) \in {ReadRequestSize[t], ReadRequestSize[t] + TypeSize(t) + bytes}
    BY <1>3 DEF TryRequests, WriteRequestSize, ReadResponseSize
  <1>6. TryResponses(t) \in {4, 4 + TypeSize(t) + bytes}
    BY <1>3 DEF TryResponses, WriteResponseSize, ReadResponseSize
  <1> HIDE DEF bytes
  <1> QED
    BY <1>2, <1>3, <1>4, <1>5, <1>6
    DEF Fits, CIP_MultiRequest_size, CIP_MultiResponse_size

\* Steps that leave the list and the sizes alone, outside the counting loop.
LEMMA OtherList ==
    ASSUME ListInv, UNCHANGED sizeVars,
           phase' \notin {"count", "build", "sent", "answered", "receive", "scanned"}
    PROVE  ListInv'
  BY DEF ListInv, WalkState, SizesKnown, AllTagsTransferred

\* ... or inside it, where other threads only touch the flags of tags.
LEMMA SameList ==
    ASSUME ListInv, UNCHANGED <<phase, remaining, todo, batch, unhandled, sizeVars>>
    PROVE  ListInv'
  BY DEF ListInv, WalkState, SizesKnown, AllTagsTransferred, Sized

LEMMA NextList ==
    ASSUME EveryTagFits, FieldTypes, Connection, ListInv, Next
    PROVE  ListInv'
  <1> USE DEF WalkState, AllTagsTransferred, Sized
  <1>1. CASE Connect BY <1>1, OtherList DEF Connect
  <1>2. CASE CompleteOk BY <1>2, OtherList DEF CompleteOk
  <1>3. CASE CompleteFails BY <1>3, OtherList DEF CompleteFails, disconnect_PLC
  <1>4. CASE BeginPass BY <1>4, OtherList DEF BeginPass
  <1>5. CASE EndPass BY <1>5, OtherList DEF EndPass
  <1>6. CASE ListScanned BY <1>6, OtherList DEF ListScanned
  <1>7. CASE CountDone BY <1>7 DEF CountDone, ListInv, SizesKnown
  <1>8. CASE CountNone BY <1>8 DEF CountNone, ListInv, SizesKnown
  <1>9. CASE Send BY <1>9 DEF Send, ListInv, SizesKnown
  <1>10. CASE PlcAnswers BY <1>10 DEF PlcAnswers, ListInv, SizesKnown
  <1>11. CASE ResponseOk BY <1>11 DEF ResponseOk, ListInv, SizesKnown
  <1>12. CASE TransferFails BY <1>12, OtherList DEF TransferFails, disconnect_PLC
  <1>13. CASE TransferDone BY <1>13 DEF TransferDone, ClearTransfer, ListInv, SizesKnown
  <1>14. CASE InvalidateDone BY <1>14, OtherList DEF InvalidateDone
  <1>15. ASSUME NEW l \in ScanList, StartList(l) PROVE ListInv'
    BY <1>15 DEF StartList, ListInv, SizesKnown, Connection, BatchState
  <1>16. ASSUME NEW t \in Tag, CompleteTag(t) PROVE ListInv'
    BY <1>16 DEF CompleteTag, ListInv, SizesKnown, FieldTypes
  <1>17. ASSUME NEW t \in Tag, CountTag(t) PROVE ListInv'
    <2>1. SizesKnown'
      BY <1>17 DEF CountTag, ListInv, SizesKnown
    \* If it is the first one, it has sizes, and then it fits.
    <2>2. batch = {} => Fits(t)
      <3> SUFFICES ASSUME batch = {} PROVE Fits(t)
        OBVIOUS
      <3>1. sized[t] > 0
        BY <1>17 DEF CountTag, IsFirst, Connection, BatchState
      <3>2. requests_size = 0 /\ responses_size = 0
        BY DEF Connection, BatchState
      <3> QED BY <3>1, <3>2, FitsAlone DEF ListInv
    <2>3. batch' # {}
      BY <1>17, <2>2 DEF CountTag
    \* The first tag of todo comes before all others of it, in the list as well.
    <2>4. WalkState'
      <3>1. phase = "count" /\ phase' = "count" /\ IsFirst(t, todo)
        BY <1>17 DEF CountTag
      <3>2. todo = Sized(remaining) \ batch
        BY <3>1 DEF ListInv, IsFirst
      <3>3. UNCHANGED <<remaining, unhandled, sized>>
        BY <1>17 DEF CountTag
      <3>4. CASE batch' = batch \union {t} /\ todo' = todo \ {t}
        <4>1. ASSUME NEW b \in batch', NEW s \in (Sized(remaining) \ batch)'
              PROVE  b < s
          <5>1. s \in todo /\ s # t /\ s \in Nat /\ t \in Nat
            BY <3>2, <3>3, <3>4, TagAssumption DEF FieldTypes
          <5>2. CASE b = t
            BY <3>1, <5>1, <5>2 DEF IsFirst
          <5>3. CASE b \in batch
            BY <3>1, <3>2, <5>1, <5>3 DEF ListInv
          <5> QED BY <3>4, <5>2, <5>3
        <4> QED
          BY <2>3, <3>1, <3>2, <3>3, <3>4, <4>1 DEF ListInv, IsFirst
      <3>5. CASE UNCHANGED batch /\ todo' = {}
        BY <2>3, <3>1, <3>3, <3>5 DEF ListInv
      <3> QED BY <1>17, <3>4, <3>5 DEF CountTag
    <2> QED BY <1>17, <2>1, <2>4 DEF CountTag, ListInv
  <1>18. ASSUME NEW t \in Tag, BuildItem(t) PROVE ListInv'
    BY <1>18 DEF BuildItem, ListInv, SizesKnown
  <1>19. ASSUME NEW t \in Tag, ReceiveItem(t) PROVE ListInv'
    BY <1>19
    DEF ListInv, SizesKnown, ReceiveItem, ReceiveWritten, ReceiveIgnored, ReceiveRead,
        ReceiveCrash, HandleItem, ItemHandled
  <1>20. ASSUME NEW t \in Tag, InvalidateTag(t) PROVE ListInv'
    BY <1>20, OtherList DEF InvalidateTag
  <1>21. ASSUME NEW t \in Tag, CallCallbacks(t) PROVE ListInv'
    BY <1>21, SameList DEF CallCallbacks
  <1>22. CASE drvEtherIP_restart
    BY <1>22, OtherList DEF drvEtherIP_restart, disconnect_PLC
  <1>23. ASSUME NEW t \in Tag, AddElements(t) PROVE ListInv'
    BY <1>23 DEF AddElements, ListInv, SizesKnown, FieldTypes
  <1>24. ASSUME NEW t \in Tag, NEW v \in Value, DeviceWrite(t, v) PROVE ListInv'
    BY <1>24, SameList DEF DeviceWrite
  <1> QED
    BY <1>1, <1>2, <1>3, <1>4, <1>5, <1>6, <1>7, <1>8, <1>9, <1>10, <1>11, <1>12,
       <1>13, <1>14, <1>15, <1>16, <1>17, <1>18, <1>19, <1>20, <1>21, <1>22, <1>23,
       <1>24
    DEF Next, ScanStep, TransferStep, OtherStep

-----------------------------------------------------------------------------
(* The bytes of a request.  The counting loop and the building loop add up  *)
(* the same items; before[t] is what was counted before tag t.              *)

CountedSize(t) == IF is_writing[t] THEN WriteRequestSize(t) ELSE ReadRequestSize[t]

IsLast(x, S) == x \in S /\ \A y \in S : y <= x

\* No tag of the transfer is between the two.
Follows(c, b) == b < c /\ \A d \in batch : d <= b \/ c <= d

Counted(before) ==
    /\ \A b \in batch : IsFirst(b, batch) => before[b] = 0
    /\ \A b, c \in batch : Follows(c, b) => before[c] = before[b] + CountedSize(b)
    /\ \A b \in batch : IsLast(b, batch) => requests_size = before[b] + CountedSize(b)

BuiltSoFar(before) ==
    /\ todo \subseteq batch
    /\ \A b \in batch, t \in todo : t <= b => b \in todo
    /\ \A t \in todo : IsFirst(t, todo) => built = before[t]
    /\ todo = {} => built = requests_size

Counting == phase = "count" => \A b \in batch, t \in todo : b < t

Building ==
    /\ phase \notin {"build", "sent", "answered", "receive", "crashed"} => built = 0
    /\ phase \in {"count", "build"} =>
          \E before \in [Tag -> Nat] :
              Counted(before) /\ (phase = "build" => BuiltSoFar(before))
    /\ phase = "sent" => built = requests_size

Limited ==
    /\ phase \in {"build", "sent"} => batch # {}
    /\ phase \in {"count", "build", "sent"} /\ batch # {} =>
          CIP_MultiRequest_size(Cardinality(batch), requests_size) <= BufferLimit

SizeInv == Counting /\ Building /\ Limited

\* Nothing is counted yet, or nothing is of interest any more.
LEMMA NothingCounted ==
    ASSUME batch' = {}, built' = 0, phase' # "sent",
           phase' = "build" => FALSE
    PROVE  SizeInv'
  <1> DEFINE zero == [t \in Tag |-> 0]
  <1>1. zero \in [Tag -> Nat] /\ Counted(zero)'
    BY DEF Counted
  <1> QED BY <1>1 DEF SizeInv, Counting, Building, Limited

LEMMA DisconnectSize ==
    ASSUME disconnect_PLC
    PROVE  SizeInv'
  BY NothingCounted DEF disconnect_PLC, ClearTransfer

\* Steps outside of the first two loops that leave the transfer as it is.
LEMMA OtherSize ==
    ASSUME SizeInv, UNCHANGED built, phase' \notin {"count", "build", "sent"},
           phase' \notin {"answered", "receive", "crashed"} => built = 0
    PROVE  SizeInv'
  BY DEF SizeInv, Counting, Building, Limited

\* Requests of writes that come in between change nothing that is counted.
LEMMA SameSize ==
    ASSUME SizeInv, UNCHANGED <<phase, is_writing, sizeVars, todo, bookVars>>
    PROVE  SizeInv'
  <1>1. ASSUME NEW before PROVE Counted(before)' = Counted(before)
    BY DEF Counted, CountedSize, IsFirst, IsLast, Follows, WriteRequestSize,
           ReadResponseSize
  <1>2. ASSUME NEW before PROVE BuiltSoFar(before)' = BuiltSoFar(before)
    BY DEF BuiltSoFar, IsFirst
  <1> QED
    BY <1>1, <1>2 DEF SizeInv, Counting, Building, Limited

\* One more item: its place is behind all that were counted before.
LEMMA CountSize ==
    ASSUME FieldTypes, Connection, SizeInv, NEW t \in Tag, CountTag(t)
    PROVE  SizeInv'
  <1>1. /\ phase = "count" /\ phase' = "count" /\ built' = 0
        /\ t \in todo /\ \A y \in todo : t <= y
        /\ \A b \in batch : b < t
    BY DEF CountTag, SizeInv, Building, Counting, IsFirst
  <1>2. /\ is_writing' = [is_writing EXCEPT ![t] = Writing(t)]
        /\ UNCHANGED sizeVars
    BY DEF CountTag, ClaimWrite
  <1>3. Tag \subseteq Nat /\ t \notin batch /\ batch \subseteq Tag /\ todo \subseteq Tag
    BY <1>1, TagAssumption DEF FieldTypes
  <1>4. ASSUME NEW b \in batch PROVE CountedSize(b)' = CountedSize(b)
    BY <1>2, <1>3 DEF CountedSize, WriteRequestSize, ReadResponseSize, FieldTypes
  <1>5. PICK before \in [Tag -> Nat] : Counted(before)
    BY <1>1 DEF SizeInv, Building
  <1>6. CASE batch' = batch \union {t} /\ requests_size' = TryRequests(t)
             /\ todo' = todo \ {t} /\ Fits(t)
    <2> PICK behind : behind = [before EXCEPT ![t] = requests_size]
      OBVIOUS
    <2>1. Counting'
      BY <1>1, <1>3, <1>6 DEF Counting
    <2>2. requests_size' = requests_size + CountedSize(t)'
      BY <1>2, <1>6 DEF TryRequests, CountedSize, WriteRequestSize, ReadResponseSize,
                        FieldTypes
    <2>3. behind \in [Tag -> Nat] /\ behind[t] = requests_size
      BY DEF FieldTypes
    <2>4. ASSUME NEW b \in batch PROVE behind[b] = before[b] /\ b # t
      BY <1>3
    <2>5. ASSUME NEW b \in batch', IsFirst(b, batch)' PROVE behind[b] = 0
      <3>1. CASE b = t
        <4>1. batch = {}
          BY <1>1, <1>3, <1>6, <2>5, <3>1 DEF IsFirst
        <4> QED BY <2>3, <3>1, <4>1 DEF Connection, BatchState
      <3>2. CASE b \in batch
        BY <1>5, <1>6, <2>4, <2>5, <3>2 DEF IsFirst, Counted
      <3> QED BY <1>6, <3>1, <3>2
    <2>6. ASSUME NEW b \in batch', NEW c \in batch', Follows(c, b)'
          PROVE  behind[c] = behind[b] + CountedSize(b)'
      <3>1. b \in batch
        BY <1>1, <1>3, <1>6, <2>6 DEF Follows
      <3>2. CASE c = t
        <4>1. IsLast(b, batch)
          BY <1>1, <1>3, <1>6, <2>6, <3>1, <3>2 DEF Follows, IsLast
        <4> QED BY <1>4, <1>5, <2>3, <2>4, <3>1, <3>2, <4>1 DEF Counted
      <3>3. CASE c \in batch
        <4>1. Follows(c, b)
          BY <1>6, <2>6 DEF Follows
        <4> QED BY <1>4, <1>5, <2>4, <3>1, <3>3, <4>1 DEF Counted
      <3> QED BY <1>6, <3>2, <3>3
    <2>7. ASSUME NEW b \in batch', IsLast(b, batch)'
          PROVE  requests_size' = behind[b] + CountedSize(b)'
      <3>1. b = t
        BY <1>1, <1>3, <1>6, <2>7 DEF IsLast
      <3> QED BY <2>2, <2>3, <3>1
    <2>8. Counted(behind)'
      BY <2>5, <2>6, <2>7 DEF Counted
    <2>9. Building'
      BY <1>1, <2>3, <2>8 DEF Building
    <2>10. Limited'
      <3>1. Cardinality(batch') = Cardinality(batch) + 1
        BY <1>3, <1>6, FS_Subset, FS_AddElement, TagAssumption
      <3> QED BY <1>6, <3>1 DEF Limited, Fits, CIP_MultiRequest_size
    <2> QED BY <2>1, <2>9, <2>10 DEF SizeInv
  <1>7. CASE todo' = {} /\ UNCHANGED <<batch, requests_size>>
    <2>1. Counted(before)'
      BY <1>4, <1>5, <1>7 DEF Counted, IsFirst, IsLast, Follows
    <2> QED BY <1>1, <1>7, <2>1 DEF SizeInv, Counting, Building, Limited
  <1> QED BY <1>6, <1>7 DEF CountTag

\* The item of a tag takes what was counted for it, so that the next one begins
\* where the counting loop had it.
LEMMA BuildSize ==
    ASSUME FieldTypes, SizeInv, NEW t \in Tag, BuildItem(t)
    PROVE  SizeInv'
  <1>1. /\ phase = "build" /\ phase' = "build" /\ IsFirst(t, todo) /\ t \in todo
        /\ todo' = todo \ {t}
        /\ UNCHANGED <<batch, requests_size, is_writing, sizeVars>>
    BY DEF BuildItem, IsFirst
  <1>2. Tag \subseteq Nat /\ batch \subseteq Tag /\ todo \subseteq Tag
    BY TagAssumption DEF FieldTypes
  <1>3. PICK before \in [Tag -> Nat] : Counted(before) /\ BuiltSoFar(before)
    BY <1>1 DEF SizeInv, Building
  <1>4. Counted(before)'
    BY <1>1, <1>3 DEF Counted, CountedSize, IsFirst, IsLast, Follows, WriteRequestSize,
                      ReadResponseSize
  <1>5. t \in batch /\ \A b \in batch : t <= b => b \in todo
    BY <1>1, <1>3 DEF BuiltSoFar
  <1>6. built' = before[t] + CountedSize(t)
    BY <1>1, <1>3 DEF BuiltSoFar, BuildItem, CountedSize
  <1>7. ASSUME NEW b \in batch, NEW u \in todo', u <= b PROVE b \in todo'
    BY <1>1, <1>2, <1>3, <1>7 DEF BuiltSoFar, IsFirst
  <1>8. ASSUME NEW u \in todo', IsFirst(u, todo)' PROVE built' = before[u]
    <2>1. Follows(u, t)
      BY <1>1, <1>2, <1>5, <1>8 DEF Follows, IsFirst
    <2>2. u \in batch
      BY <1>1, <1>3 DEF BuiltSoFar
    <2> QED BY <1>3, <1>5, <1>6, <1>8, <2>1, <2>2 DEF Counted
  <1>9. ASSUME todo' = {} PROVE built' = requests_size
    <2>1. IsLast(t, batch)
      BY <1>1, <1>2, <1>5, <1>9 DEF IsLast
    <2> QED BY <1>3, <1>5, <1>6, <1>9, <2>1 DEF Counted
  <1>10. BuiltSoFar(before)'
    BY <1>1, <1>3, <1>7, <1>8, <1>9 DEF BuiltSoFar
  <1> QED
    BY <1>1, <1>4, <1>10 DEF SizeInv, Counting, Building, Limited

LEMMA NextSize ==
    ASSUME FieldTypes, Connection, SizeInv, Next
    PROVE  SizeInv'
  <1>1. CASE Connect BY <1>1, OtherSize DEF Connect, SizeInv, Building
  <1>2. CASE CompleteOk BY <1>2, OtherSize DEF CompleteOk, SizeInv, Building
  <1>3. CASE CompleteFails BY <1>3, DisconnectSize DEF CompleteFails
  <1>4. CASE BeginPass BY <1>4, OtherSize DEF BeginPass, SizeInv, Building
  <1>5. CASE EndPass BY <1>5, OtherSize DEF EndPass, SizeInv, Building
  <1>6. CASE ListScanned BY <1>6, OtherSize DEF ListScanned, SizeInv, Building
  \* The building loop begins with the first item, of which nothing is built.
  <1>7. CASE CountDone
    <2>1. PICK before \in [Tag -> Nat] : Counted(before)
      BY <1>7 DEF CountDone, SizeInv, Building
    <2>2. Counted(before)'
      BY <1>7, <2>1 DEF CountDone, Counted, CountedSize, IsFirst, IsLast, Follows,
                        WriteRequestSize, ReadResponseSize
    <2>3. BuiltSoFar(before)'
      BY <1>7, <2>1 DEF CountDone, Counted, BuiltSoFar, IsFirst, SizeInv, Building
    <2> QED
      BY <1>7, <2>2, <2>3 DEF CountDone, SizeInv, Counting, Building, Limited
  <1>8. CASE CountNone BY <1>8, OtherSize DEF CountNone, SizeInv, Building
  <1>9. CASE Send
    BY <1>9 DEF Send, SizeInv, Counting, Building, Limited, BuiltSoFar
  <1>10. CASE PlcAnswers BY <1>10, OtherSize DEF PlcAnswers
  <1>11. CASE ResponseOk BY <1>11, OtherSize DEF ResponseOk
  <1>12. CASE TransferFails BY <1>12, DisconnectSize DEF TransferFails
  <1>13. CASE TransferDone BY <1>13, NothingCounted DEF TransferDone, ClearTransfer
  <1>14. CASE InvalidateDone BY <1>14, OtherSize DEF InvalidateDone, SizeInv, Building
  <1>15. ASSUME NEW l \in ScanList, StartList(l) PROVE SizeInv'
    BY <1>15, NothingCounted
    DEF StartList, SizeInv, Building, Connection, BatchState
  <1>16. ASSUME NEW t \in Tag, CompleteTag(t) PROVE SizeInv'
    BY <1>16, OtherSize DEF CompleteTag, SizeInv, Building
  <1>17. ASSUME NEW t \in Tag, CountTag(t) PROVE SizeInv'
    BY <1>17, CountSize
  <1>18. ASSUME NEW t \in Tag, BuildItem(t) PROVE SizeInv'
    BY <1>18, BuildSize
  <1>19. ASSUME NEW t \in Tag, ReceiveItem(t) PROVE SizeInv'
    BY <1>19, OtherSize
    DEF ReceiveItem, ReceiveWritten, ReceiveIgnored, ReceiveRead, ReceiveCrash,
        HandleItem, ItemHandled
  <1>20. ASSUME NEW t \in Tag, InvalidateTag(t) PROVE SizeInv'
    BY <1>20, OtherSize DEF InvalidateTag, SizeInv, Building
  <1>21. ASSUME NEW t \in Tag, CallCallbacks(t) PROVE SizeInv'
    BY <1>21, SameSize DEF CallCallbacks
  <1>22. CASE drvEtherIP_restart BY <1>22, DisconnectSize DEF drvEtherIP_restart
  <1>23. ASSUME NEW t \in Tag, AddElements(t) PROVE SizeInv'
    BY <1>23, OtherSize DEF AddElements, SizeInv, Building
  <1>24. ASSUME NEW t \in Tag, NEW v \in Value, DeviceWrite(t, v) PROVE SizeInv'
    BY <1>24, SameSize DEF DeviceWrite
  <1> QED
    BY <1>1, <1>2, <1>3, <1>4, <1>5, <1>6, <1>7, <1>8, <1>9, <1>10, <1>11, <1>12,
       <1>13, <1>14, <1>15, <1>16, <1>17, <1>18, <1>19, <1>20, <1>21, <1>22, <1>23,
       <1>24
    DEF Next, ScanStep, TransferStep, OtherStep

-----------------------------------------------------------------------------
(* The theorems *)

\* IInv is FieldTypes, Exchange and Connection.
LEMMA IInvParts == IInv <=> FieldTypes /\ Exchange /\ Connection
  BY DEF IInv, TypeOK, Exchange, Allocated, Connection

\* A stuttering step changes none of the invariants.
LEMMA Stutter ==
    ASSUME UNCHANGED vars
    PROVE  (IInv => IInv') /\ (ListInv => ListInv')
  <1>1. IInv => IInv'
    BY DEF IInv, TypeOK, FieldTypes, Writing, KindKept, NoLostUpdate, Packed,
           AnswersMatch, ConnectionState, NothingValidWhileDown, BatchState,
           ValidIsScanned, Sized
  <1>2. ListInv => ListInv'
    BY DEF ListInv, WalkState, SizesKnown, AllTagsTransferred, Sized
  <1> QED BY <1>1, <1>2

\* The invariant that all safety properties below follow from.
THEOREM Inductive == Spec => []IInv
  <1>1. Init => IInv
    BY InitTypes, InitExchange, InitConnection, IInvParts
  <1>2. IInv /\ [Next]_vars => IInv'
    <2> SUFFICES ASSUME IInv, [Next]_vars PROVE IInv'
      OBVIOUS
    <2>1. CASE Next
      <3>1. FieldTypes /\ Exchange /\ Connection
        BY IInvParts
      <3>2. FieldTypes' /\ Exchange' /\ Connection'
        BY <2>1, <3>1, NextTypes, NextExchange, NextConnection
      <3> QED
        BY <3>2 DEF IInv, TypeOK, Exchange, Allocated, Connection
    <2>2. CASE UNCHANGED vars
      BY <2>2, Stutter
    <2> QED BY <2>1, <2>2
  <1> QED BY <1>1, <1>2, PTL DEF Spec

\* Every variable keeps its type, and data is allocated wherever it is used.
THEOREM TypeCorrect == Spec => []TypeOK
  <1>1. IInv => TypeOK
    BY DEF IInv
  <1> QED BY <1>1, Inductive, PTL

\* process_ScanList takes every answer for what it is the answer to, whatever
\* device support requests between its loops.
THEOREM KindsKept == Spec => []KindKept
  <1>1. IInv => KindKept
    BY DEF IInv
  <1> QED BY <1>1, Inductive, PTL

\* No value that device support wants written gets lost between requests.
THEOREM UpdatesKept == Spec => []NoLostUpdate
  <1>1. IInv => NoLostUpdate
    BY DEF IInv
  <1> QED BY <1>1, Inductive, PTL

\* Without a connection no tag is valid and no write is under way.
THEOREM DownIsInvalid == Spec => []NothingValidWhileDown
  <1>1. IInv => NothingValidWhileDown
    BY DEF IInv
  <1> QED BY <1>1, Inductive, PTL

\* No tag that the scan task skips is valid.
THEOREM ValidAreScanned == Spec => []ValidIsScanned
  <1>1. IInv => ValidIsScanned
    BY DEF IInv
  <1> QED BY <1>1, Inductive, PTL

\* If every tag fits into a request of its own, every scan list is transferred
\* completely.
THEOREM ListsTransferred == EveryTagFits => (Spec => []AllTagsTransferred)
  <1> SUFFICES ASSUME EveryTagFits PROVE Spec => []AllTagsTransferred
    OBVIOUS
  <1>1. Init => IInv /\ ListInv
    BY InitTypes, InitExchange, InitConnection, IInvParts, InitList
  <1>2. IInv /\ ListInv /\ [Next]_vars => ListInv'
    BY NextList, Stutter, IInvParts
  <1>3. ListInv => AllTagsTransferred
    BY DEF ListInv
  <1> QED BY <1>1, <1>2, <1>3, Inductive, PTL DEF Spec

\* However many items there are, the building loop gives them the places that the
\* counting loop counted, the request keeps the limit, and no item but that of a tag
\* that grew is longer than its place (process_ScanList, make_CIP_WriteData).
THEOREM RequestsAsCounted == Spec => []SentAsCounted
  <1>1. Init => SizeInv
    <2> SUFFICES ASSUME Init PROVE SizeInv
      OBVIOUS
    <2> QED BY DEF Init, SizeInv, Counting, Building, Limited
  <1>2. IInv /\ SizeInv /\ [Next]_vars => SizeInv'
    BY NextSize, SameSize, IInvParts
  <1>3. IInv /\ SizeInv => SentAsCounted
    <2> SUFFICES ASSUME FieldTypes, Exchange, Connection, SizeInv, phase = "sent"
                 PROVE  SentAsCounted
      BY IInvParts DEF SentAsCounted
    <2>1. built = requests_size
      BY DEF SizeInv, Building
    <2>2. CIP_MultiRequest_size(Cardinality(batch), built) <= BufferLimit
      <3>1. batch # {}
        BY DEF SizeInv, Limited
      <3> QED BY <2>1, <3>1 DEF SizeInv, Limited
    <2>3. ASSUME NEW t \in batch
          PROVE  /\ t \in StringTag \/ sized[t] = elements[t] => ItemBytes(t) <= ItemRoom(t)
                 /\ t \notin StringTag /\ sized[t] = elements[t]
                       => ItemBytes(t) = ItemRoom(t)
      <3>1. t \in Tag
        BY DEF FieldTypes
      <3>2. CASE request[t].kind = "write"
        \* The text that is written is that of the value in the request.
        <4>1. request[t].value \in Value
          BY <3>1, <3>2 DEF Exchange, Allocated, FieldTypes, Item
        <4> QED
          BY <3>1, <3>2, <4>1, SizesNat, WriteFits DEF ItemBytes, ItemRoom
      <3>3. CASE request[t].kind # "write"
        BY <3>1, <3>3, SizesNat DEF ItemBytes, ItemRoom
      <3> QED BY <3>2, <3>3
    <2> QED BY <2>1, <2>2, <2>3 DEF SentAsCounted
  <1> QED BY <1>1, <1>2, <1>3, Inductive, PTL DEF Spec

\* Only the thread that registers elements and the scan task that reads the tag change
\* what is known of its size.
LEMMA SizesNext ==
    ASSUME FieldTypes, SizesKnown, Next
    PROVE  SizesKnown'
  <1>1. ASSUME NEW t \in Tag, AddElements(t)
        PROVE  SizesKnown'
    BY <1>1 DEF AddElements, SizesKnown, FieldTypes
  <1>2. ASSUME NEW t \in Tag, CompleteTag(t)
        PROVE  SizesKnown'
    BY <1>2 DEF CompleteTag, SizesKnown, FieldTypes
  <1>3. CASE UNCHANGED sizeVars
    BY <1>3 DEF SizesKnown
  <1> QED
    BY <1>1, <1>2, <1>3
    DEF Next, ScanStep, TransferStep, OtherStep, ReceiveItem, DeviceWrite,
        disconnect_PLC, drvEtherIP_restart, InvalidateTag, InvalidateDone, Connect,
        CompleteOk, CompleteFails, BeginPass, EndPass, StartList, ListScanned, CountTag,
        CountDone, CountNone, BuildItem, Send, PlcAnswers, ResponseOk, TransferFails,
        ItemHandled, ReceiveWritten, ReceiveIgnored, ReceiveRead, ReceiveCrash,
        CallCallbacks, TransferDone

\* When there are no strings, and no record registers more elements of a tag than the
\* first one did, the sizes are exact as complete_PLC_ScanList_TagInfos takes them to
\* be: what the runs with a tag that grows and with a string show is all that can differ.
THEOREM FixedTagsAsCounted ==
    ASSUME LastElements = FirstElements, StringTag = {}
    PROVE  Spec => []BuiltAsCounted
  <1>1. Init => SizesKnown
    BY DEF Init, SizesKnown
  <1>2. IInv /\ SizesKnown /\ [Next]_vars => SizesKnown'
    <2>1. CASE Next
      BY <2>1, SizesNext, IInvParts
    <2>2. CASE UNCHANGED vars
      BY <2>2 DEF SizesKnown
    <2> QED BY <2>1, <2>2
  <1>3. IInv /\ SizesKnown /\ SentAsCounted => BuiltAsCounted
    <2> SUFFICES ASSUME FieldTypes, Connection, SizesKnown, SentAsCounted
                 PROVE  BuiltAsCounted
      BY IInvParts
    <2>1. ASSUME NEW t \in batch
          PROVE  sized[t] = elements[t]
      <3>1. t \in Tag /\ sized[t] > 0
        BY DEF Connection, BatchState, Sized
      <3>2. elements[t] = FirstElements[t] /\ sized[t] \in {0, FirstElements[t]}
        BY <3>1 DEF SizesKnown
      <3> QED BY <3>1, <3>2
    <2> QED BY <2>1 DEF SentAsCounted, BuiltAsCounted
  <1> QED BY <1>1, <1>2, <1>3, Inductive, RequestsAsCounted, PTL DEF Spec

\* While a write is owed, what was read from the PLC does not replace the value.
THEOREM DataKept == Spec => OwedDataKept
  <1> DEFINE Kept == \A t \in Tag : Writing(t) /\ data'[t] # data[t]
                       => do_write'[t] /\ UNCHANGED scanVars
  <1>1. IInv /\ [Next]_vars => [Kept]_vars
    <2> SUFFICES ASSUME IInv, Next PROVE Kept
      OBVIOUS
    <2>1. FieldTypes
      BY DEF IInv, TypeOK
    <2>2. ASSUME NEW t \in Tag, NEW v \in Value, DeviceWrite(t, v) PROVE Kept
      BY <2>1, <2>2 DEF DeviceWrite, FieldTypes
    <2>3. ASSUME NEW t \in Tag, ReceiveRead(t) PROVE Kept
      BY <2>1, <2>3 DEF ReceiveRead, Writing, FieldTypes
    <2>4. CASE data' = data
      BY <2>4
    <2> QED
      BY <2>2, <2>3, <2>4
      DEF Next, ScanStep, TransferStep, ReceiveItem, OtherStep, Connect, CompleteOk,
          CompleteFails, BeginPass, EndPass, ListScanned, CountDone, CountNone, Send,
          PlcAnswers, ResponseOk, TransferFails, TransferDone, InvalidateDone,
          StartList, CompleteTag, CountTag, ClaimWrite, BuildItem, ReceiveWritten,
          ReceiveIgnored, ReceiveCrash, InvalidateTag, CallCallbacks,
          drvEtherIP_restart, disconnect_PLC, AddElements
  <1> QED BY <1>1, Inductive, PTL DEF Spec, OwedDataKept

-----------------------------------------------------------------------------
(* TagTransfer implements TagPromise *)

\* Steps that change no tag and no connection are not seen.
LEMMA UnseenStep ==
    ASSUME UNCHANGED <<data, valid, do_write, is_writing, landed, sock>>
    PROVE  UNCHANGED Promise!vars
  BY DEF Promise!vars, Writing

\* The connection goes down, or it was not up.
LEMMA DisconnectStep ==
    ASSUME disconnect_PLC
    PROVE  Promise!Down
  BY DEF disconnect_PLC, Promise!Down, Writing

LEMMA PromiseStep ==
    ASSUME IInv, Next
    PROVE  Promise!Next \/ UNCHANGED Promise!vars
  <1> DEFINE Seen == Promise!Next \/ UNCHANGED Promise!vars
  <1> SUFFICES Seen
    OBVIOUS
  <1> USE DEF Writing
  <1>0. FieldTypes
    BY DEF IInv, TypeOK
  <1>1. CASE Connect
    <2>1. \A t \in Tag : ~valid[t]
      BY <1>1 DEF Connect, IInv, NothingValidWhileDown
    <2> QED BY <1>1, <2>1 DEF Connect, Promise!Next, Promise!Up
  <1>2. CASE PlcAnswers
    <2>1. \A t \in batch : request[t].kind = "write" => is_writing[t]
      BY <1>0, <1>2 DEF PlcAnswers, IInv, KindKept, Packed, FieldTypes
    <2>2. \A t \in Tag : landed'[t] # landed[t] => is_writing[t]
      BY <1>0, <1>2, <2>1 DEF PlcAnswers, FieldTypes
    <2>3. sock
      BY <1>2 DEF PlcAnswers, IInv, ConnectionState
    <2>4. landed' \in [Tag -> Value \union {NoValue}]
      BY <1>0, NextTypes DEF FieldTypes
    <2> QED BY <1>2, <2>2, <2>3, <2>4 DEF PlcAnswers, Promise!Next, Promise!Land
  <1>3. CASE CompleteFails \/ TransferFails \/ drvEtherIP_restart
    BY <1>3, DisconnectStep
    DEF CompleteFails, TransferFails, drvEtherIP_restart, Promise!Next
  <1>4. ASSUME NEW t \in Tag, CountTag(t) PROVE Seen
    <2>1. \A s \in Tag : Writing(s)' = Writing(s)
      BY <1>0, <1>4 DEF CountTag, ClaimWrite, FieldTypes
    <2> QED BY <1>4, <2>1 DEF CountTag, ClaimWrite, Promise!vars
  <1>5. ASSUME NEW t \in Tag, ReceiveWritten(t) PROVE Seen
    <2>1. t \in todo /\ phase = "receive" /\ is_writing[t]
      BY <1>5 DEF ReceiveWritten, HandleItem, IsFirst
    <2>2. request[t].kind = "write" /\ sock
      BY <2>1 DEF IInv, KindKept, Packed, ConnectionState
    <2>3. CASE reply[t].status = "ok" /\ ~do_write[t]
      <3>1. landed[t] = data[t]
        BY <2>1, <2>2, <2>3 DEF IInv, AnswersMatch, NoLostUpdate, Packed
      <3>2. valid' = valid
        BY <1>0, <1>5, <2>3 DEF ReceiveWritten, FieldTypes
      <3>3. [s \in Tag |-> Writing(s)]' = [[s \in Tag |-> Writing(s)] EXCEPT ![t] = FALSE]
        BY <1>0, <1>5, <2>3 DEF ReceiveWritten, FieldTypes
      <3> QED
        BY <1>5, <2>1, <2>2, <3>1, <3>2, <3>3
        DEF ReceiveWritten, ItemHandled, Promise!Next, Promise!Settle
    <2>4. CASE reply[t].status = "ok" /\ do_write[t]
      <3>1. valid' = valid
        BY <1>0, <1>5, <2>4 DEF ReceiveWritten, FieldTypes
      <3>2. [s \in Tag |-> Writing(s)]' = [s \in Tag |-> Writing(s)]
        BY <1>0, <1>5, <2>4 DEF ReceiveWritten, FieldTypes
      <3> QED
        BY <1>5, <2>1, <2>2, <3>1, <3>2
        DEF ReceiveWritten, ItemHandled, Promise!Next, Promise!SettleOlder
    <2>5. CASE reply[t].status # "ok"
      <3>1. valid' = [valid EXCEPT ![t] = FALSE]
        BY <1>0, <1>5, <2>5 DEF ReceiveWritten, FieldTypes
      <3>2. [s \in Tag |-> Writing(s)]' \in
              {[s \in Tag |-> Writing(s)],
               [[s \in Tag |-> Writing(s)] EXCEPT ![t] = FALSE]}
        BY <1>0, <1>5, <2>1 DEF ReceiveWritten, FieldTypes
      <3> QED
        BY <1>5, <2>1, <2>2, <3>1, <3>2
        DEF ReceiveWritten, ItemHandled, Promise!Next, Promise!Refuse
    <2> QED BY <2>3, <2>4, <2>5
  <1>6. ASSUME NEW t \in Tag, ReceiveRead(t) PROVE Seen
    <2>1. t \in todo /\ phase = "receive" /\ ~is_writing[t] /\ ~do_write[t]
      BY <1>6 DEF ReceiveRead, HandleItem, IsFirst
    <2>2. reply[t] \in Replies(request[t]) /\ request[t].kind # "write" /\ sock
      BY <2>1 DEF IInv, KindKept, Packed, AnswersMatch, ConnectionState
    <2>3. CASE reply[t].status = "ok"
      <3>1. reply[t].value \in Value
        BY <2>2, <2>3 DEF Replies
      <3> QED
        BY <1>6, <2>1, <2>2, <2>3, <3>1
        DEF ReceiveRead, ItemHandled, Promise!Next, Promise!Show
    <2>4. CASE reply[t].status # "ok"
      BY <1>6, <2>1, <2>2, <2>4
      DEF ReceiveRead, ItemHandled, Promise!Next, Promise!Blank
    <2> QED BY <2>3, <2>4
  <1>7. ASSUME NEW t \in Tag, InvalidateTag(t) PROVE Seen
    <2>1. ~sock
      BY <1>7 DEF InvalidateTag, IInv, ConnectionState
    <2>2. [s \in Tag |-> Writing(s)]' \in
              {[s \in Tag |-> Writing(s)],
               [[s \in Tag |-> Writing(s)] EXCEPT ![t] = FALSE]}
      BY <1>0, <1>7 DEF InvalidateTag, FieldTypes
    <2> QED BY <1>7, <2>1, <2>2 DEF InvalidateTag, Promise!Next, Promise!Lose
  <1>8. ASSUME NEW t \in Tag, NEW v \in Value, DeviceWrite(t, v) PROVE Seen
    <2>1. [s \in Tag |-> Writing(s)]' = [[s \in Tag |-> Writing(s)] EXCEPT ![t] = TRUE]
      BY <1>0, <1>8 DEF DeviceWrite, FieldTypes
    <2> QED BY <1>8, <2>1 DEF DeviceWrite, Promise!Next, Promise!Request
  <1>9. CASE UNCHANGED <<data, valid, do_write, is_writing, landed, sock>>
    BY <1>9, UnseenStep
  <1> HIDE DEF Seen
  <1> QED
    BY <1>1, <1>2, <1>3, <1>4, <1>5, <1>6, <1>7, <1>8, <1>9
    DEF Next, ScanStep, TransferStep, ReceiveItem, OtherStep, CompleteOk, BeginPass,
        EndPass, ListScanned, CountDone, CountNone, Send, ResponseOk, TransferDone,
        InvalidateDone, StartList, CompleteTag, BuildItem, ReceiveIgnored,
        ItemHandled, ReceiveCrash, CallCallbacks, AddElements

\* The driver keeps its promise to device support about every tag.
THEOREM Refinement == Spec => PromiseKept
  <1>1. Init => Promise!Init
    BY DEF Init, Promise!Init, Writing
  <1>2. IInv /\ [Next]_vars => [Promise!Next]_(Promise!vars)
    <2>1. UNCHANGED vars => UNCHANGED Promise!vars
      BY UnseenStep
    <2> QED BY <2>1, PromiseStep
  <1> QED BY <1>1, <1>2, Inductive, PTL DEF Spec, PromiseKept, Promise!Spec
=============================================================================
