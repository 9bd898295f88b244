------------------------- MODULE OutputRecordProofs -------------------------
(***************************************************************************)
(* Proofs about OutputRecord, for any number of records on any tags, for   *)
(* whatever lists, sizes and values TagTransferProofs allows.              *)
(***************************************************************************)
EXTENDS OutputRecord, TagTransferProofs

USE DEF vars, tagVars, sizeVars, scanVars, bookVars, wireVars, history

-----------------------------------------------------------------------------
(* What a step of the driver means to the records *)

\* The step leaves alone what records see of the tags.
Silent ==
    /\ UNCHANGED <<data, valid, notify>>
    /\ \A t \in Tag : Writing(t)' = Writing(t)

\* The step changes one tag, whose callbacks will be called next; the value
\* only if no write is owed.
Announces(t) ==
    /\ notify = {}
    /\ notify' = {t}
    /\ \A u \in Tag \ {t} :
          /\ data'[u] = data[u]
          /\ valid'[u] = valid[u]
          /\ Writing(u)' = Writing(u)
    /\ Writing(t) => data'[t] = data[t]

\* Steps outside of the loops that call callbacks.
LEMMA SilentStep ==
    ASSUME UNCHANGED <<tagVars, notify>>, NotifyState, UNCHANGED called,
           phase' = phase \/ notify = {}
    PROVE  Silent /\ NotifyState'
  BY DEF Silent, Writing, NotifyState

\* The step that handles one tag.
LEMMA AnnouncingStep ==
    ASSUME NEW t \in Tag, notify = {}, notify' = {t}, NotifyState, UNCHANGED called,
           phase' \in {"receive", "invalidate"}
    PROVE  NotifyState'
  BY DEF NotifyState

\* Other steps of the driver are one or the other.
LEMMA DriverEffect ==
    ASSUME FieldTypes, NotifyState, TransferStep \/ OtherStep, UNCHANGED recordVars
    PROVE  /\ Silent \/ \E t \in Tag : Announces(t)
           /\ NotifyState'
  <1> DEFINE Goal == /\ Silent \/ \E t \in Tag : Announces(t)
                     /\ NotifyState'
  <1> USE SilentStep DEF recordVars
  <1>0. phase \notin {"receive", "invalidate"} => notify = {}
    BY DEF NotifyState
  <1>1. CASE Connect BY <1>0, <1>1 DEF Connect
  <1>2. CASE CompleteOk BY <1>0, <1>2 DEF CompleteOk
  <1>3. CASE CompleteFails BY <1>0, <1>3 DEF CompleteFails, disconnect_PLC
  <1>4. CASE BeginPass BY <1>0, <1>4 DEF BeginPass
  <1>5. CASE EndPass BY <1>0, <1>5 DEF EndPass
  <1>6. CASE ListScanned BY <1>0, <1>6 DEF ListScanned
  <1>7. CASE CountDone BY <1>0, <1>7 DEF CountDone
  <1>8. CASE CountNone BY <1>0, <1>8 DEF CountNone
  <1>9. CASE Send BY <1>0, <1>9 DEF Send
  <1>10. CASE PlcAnswers BY <1>0, <1>10 DEF PlcAnswers
  <1>11. CASE ResponseOk BY <1>0, <1>11 DEF ResponseOk
  <1>12. CASE TransferFails BY <1>12 DEF TransferFails, disconnect_PLC
  <1>13. CASE TransferDone BY <1>13 DEF TransferDone
  <1>14. CASE InvalidateDone BY <1>14 DEF InvalidateDone
  <1>15. ASSUME NEW l \in ScanList, StartList(l) PROVE Goal
    BY <1>0, <1>15 DEF StartList
  <1>16. ASSUME NEW t \in Tag, CompleteTag(t) PROVE Goal
    BY <1>16 DEF CompleteTag
  <1>17. ASSUME NEW t \in Tag, CountTag(t) PROVE Goal
    <2>1. \A u \in Tag : Writing(u)' = Writing(u)
      BY <1>17 DEF CountTag, ClaimWrite, Writing, FieldTypes
    <2>2. UNCHANGED <<data, valid, notify, phase, called>>
      BY <1>17 DEF CountTag, ClaimWrite
    <2> QED BY <2>1, <2>2 DEF Silent, NotifyState
  <1>18. ASSUME NEW t \in Tag, BuildItem(t) PROVE Goal
    BY <1>18 DEF BuildItem
  <1>19. ASSUME NEW t \in Tag, ReceiveWritten(t) PROVE Goal
    <2>1. Announces(t)
      BY <1>19 DEF ReceiveWritten, HandleItem, ItemHandled, Announces, Writing, FieldTypes
    <2>2. NotifyState'
      BY <1>19, AnnouncingStep DEF ReceiveWritten, HandleItem, ItemHandled
    <2> QED BY <2>1, <2>2
  <1>20. ASSUME NEW t \in Tag, ReceiveIgnored(t) PROVE Goal
    <2>1. Announces(t)
      BY <1>20 DEF ReceiveIgnored, HandleItem, ItemHandled, Announces, Writing
    <2>2. NotifyState'
      BY <1>20, AnnouncingStep DEF ReceiveIgnored, HandleItem, ItemHandled
    <2> QED BY <2>1, <2>2
  <1>21. ASSUME NEW t \in Tag, ReceiveRead(t) PROVE Goal
    <2>1. Announces(t)
      BY <1>21 DEF ReceiveRead, HandleItem, ItemHandled, Announces, Writing, FieldTypes
    <2>2. NotifyState'
      BY <1>21, AnnouncingStep DEF ReceiveRead, HandleItem, ItemHandled
    <2> QED BY <2>1, <2>2
  <1>22. ASSUME NEW t \in Tag, ReceiveCrash(t) PROVE Goal
    BY <1>22 DEF ReceiveCrash, HandleItem
  <1>23. ASSUME NEW t \in Tag, InvalidateTag(t) PROVE Goal
    <2>1. Announces(t)
      BY <1>23 DEF InvalidateTag, Announces, Writing, FieldTypes
    <2>2. NotifyState'
      BY <1>23, AnnouncingStep DEF InvalidateTag
    <2> QED BY <2>1, <2>2
  <1>24. CASE drvEtherIP_restart
    BY <1>0, <1>24 DEF drvEtherIP_restart, disconnect_PLC
  <1>25. ASSUME NEW t \in Tag, AddElements(t) PROVE Goal
    BY <1>25 DEF AddElements
  <1> QED
    BY <1>1, <1>2, <1>3, <1>4, <1>5, <1>6, <1>7, <1>8, <1>9, <1>10, <1>11, <1>12,
       <1>13, <1>14, <1>15, <1>16, <1>17, <1>18, <1>19, <1>20, <1>21, <1>22, <1>23,
       <1>24, <1>25
    DEF TransferStep, ReceiveItem, OtherStep

-----------------------------------------------------------------------------
(* Types *)

LEMMA InitRecordInv == RecordInit => FieldTypes /\ RecordInv
  <1> SUFFICES ASSUME RecordInit PROVE FieldTypes /\ RecordInv
    OBVIOUS
  <1>1. FieldTypes
    BY InitTypes DEF RecordInit
  <1>2. notify = {} /\ called = {}
    BY DEF RecordInit, Init
  <1>3. RecordTypeOK
    BY DEF RecordInit, RecordTypeOK
  <1> QED
    BY <1>1, <1>2, <1>3, RecordAssumption
    DEF RecordInit, Init, RecordInv, NotifyState, PactIsOwed, WaitsForItsValue,
        ChangesAreProcessed, Synchronised, Settled

\* A write of a value that the record may not even have keeps the types.
LEMMA WriteTypes ==
    ASSUME FieldTypes, NEW t \in Tag, NEW v \in Value \union {NoValue}, DeviceWrite(t, v)
    PROVE  FieldTypes'
  BY DEF DeviceWrite, FieldTypes

\* Records change the tags by such writes, or not at all.
LEMMA WritesOrNothing ==
    ASSUME NEW r \in Record, NEW v \in Value \union {NoValue}, ao_write(r, v)
    PROVE  DeviceWrite(TagOf[r], v) \/ UNCHANGED vars
  BY DEF ao_write, WriteRequested, WriteAgrees, WriteInvalid

LEMMA RecordStepTypes ==
    ASSUME FieldTypes, RecordTypeOK, RecordNext
    PROVE  FieldTypes'
  <1>1. ASSUME NEW r \in Record, NEW v \in Value \union {NoValue}, ao_write(r, v)
        PROVE  FieldTypes'
    BY <1>1, WritesOrNothing, WriteTypes, RecordAssumption DEF FieldTypes
  <1>2. CASE UNCHANGED vars
    BY <1>2 DEF FieldTypes
  <1>3. ASSUME NEW r \in Record PROVE val[r] \in Value \union {NoValue}
    BY DEF RecordTypeOK
  <1>4. CASE TransferStep \/ OtherStep
    BY <1>4, NextTypes DEF Next, ScanStep
  <1>5. ASSUME NEW r \in Record, RecordCallback(r) PROVE FieldTypes'
    BY <1>1, <1>2, <1>3, <1>5
    DEF RecordCallback, CallbackWritten, CallbackInvalid, CallbackValue, Complete
  <1>6. ASSUME NEW t \in Tag, CallbacksDone(t) PROVE FieldTypes'
    BY <1>6, NextTypes DEF CallbacksDone, Next, ScanStep
  <1>7. ASSUME NEW r \in Record, ScanOnce(r) PROVE FieldTypes'
    BY <1>1, <1>2, <1>3, <1>7 DEF ScanOnce
  <1>8. ASSUME NEW r \in Record, NEW v \in PutValue, Put(r, v) PROVE FieldTypes'
    BY <1>1, <1>8, RecordAssumption DEF Put
  <1>9. ASSUME NEW r \in Record, NEW v \in PutValue, PutActive(r, v) PROVE FieldTypes'
    BY <1>2, <1>9 DEF PutActive
  <1> QED
    BY <1>4, <1>5, <1>6, <1>7, <1>8, <1>9 DEF RecordNext, DriverStep

-----------------------------------------------------------------------------
(* Steps of the driver, which leave the records alone *)

LEMMA DriverRecordInv ==
    ASSUME FieldTypes, RecordInv, TransferStep \/ OtherStep, UNCHANGED recordVars
    PROVE  RecordInv'
  <1> USE DEF recordVars
  <1>1. NotifyState' /\ (Silent \/ \E t \in Tag : Announces(t))
    BY DriverEffect DEF RecordInv
  <1>2. RecordTypeOK' /\ ChangesAreProcessed'
    BY DEF RecordInv, RecordTypeOK, ChangesAreProcessed
  <1>3. CASE Silent
    <2>1. PactIsOwed'
      BY <1>3, RecordAssumption DEF Silent, RecordInv, PactIsOwed, CallbackDue
    <2>2. WaitsForItsValue'
      BY <1>3 DEF Silent, RecordInv, WaitsForItsValue, RecordsOf
    <2>3. Synchronised'
      BY <1>3, RecordAssumption
      DEF Silent, RecordInv, Synchronised, Settled, CallbackDue, RecordsOf
    <2> QED BY <1>1, <1>2, <2>1, <2>2, <2>3 DEF RecordInv
  <1>4. ASSUME NEW t \in Tag, Announces(t) PROVE RecordInv'
    <2>1. called = {}
      BY <1>4 DEF Announces, RecordInv, NotifyState
    \* All records on the tag will be called, and the others see no change.
    <2>2. \A r \in Record : TagOf[r] = t => CallbackDue(r)'
      BY <1>4, <2>1 DEF Announces, CallbackDue
    <2>3. \A r \in Record : ~CallbackDue(r)
      BY <1>4 DEF Announces, CallbackDue
    <2>4. \A r \in Record : TagOf[r] # t =>
            /\ TagOf[r] \in Tag \ {t}
            /\ ~CallbackDue(r)'
      BY <1>4, RecordAssumption DEF Announces, CallbackDue
    <2>5. PactIsOwed'
      BY <1>4, <2>2, <2>3, <2>4 DEF Announces, RecordInv, PactIsOwed
    <2>6. WaitsForItsValue'
      <3> SUFFICES ASSUME NEW r \in Record, pact[r], ~rpro[r], RecordsOf(TagOf[r]) = {r}
                   PROVE  val[r] = data'[TagOf[r]]
        BY DEF WaitsForItsValue, RecordsOf
      <3>1. val[r] = data[TagOf[r]] /\ Writing(TagOf[r])
        BY <2>3 DEF RecordInv, WaitsForItsValue, PactIsOwed
      <3> QED BY <1>4, <2>4, <3>1 DEF Announces
    <2>7. Synchronised'
      <3> SUFFICES ASSUME NEW r \in Record \ Forced, Settled(r)', RecordsOf(TagOf[r]) = {r}
                   PROVE  ~pact[r] /\ val[r] = data'[TagOf[r]] /\ ~invalid[r] /\ ~udf[r]
        BY DEF Synchronised, RecordsOf
      <3>1. TagOf[r] # t
        BY <2>2 DEF Settled
      <3>2. Settled(r) /\ data'[TagOf[r]] = data[TagOf[r]]
        BY <1>4, <2>3, <2>4, <3>1 DEF Announces, Settled
      <3> QED BY <3>2 DEF RecordInv, Synchronised
    <2> QED BY <1>1, <1>2, <2>5, <2>6, <2>7 DEF RecordInv
  <1> QED BY <1>1, <1>3, <1>4

-----------------------------------------------------------------------------
(* Steps of the records *)

\* ao_write, first pass, wherever it is called from: with a value from a put,
\* by scanOnce, or from the callback for a tag that is not valid.
LEMMA WriteRecordInv ==
    ASSUME FieldTypes, RecordInv,
           NEW r \in Record, NEW v \in Value \union {NoValue},
           ~pact[r], ao_write(r, v),
           val' = [val EXCEPT ![r] = v], UNCHANGED <<realTags, rpro>>,
           once' = once \/ once' = once \ {r},
           \/ UNCHANGED called
           \/ called' = called \union {r} /\ TagOf[r] \in notify /\ ~valid[TagOf[r]]
    PROVE  RecordInv'
  <1> DEFINE t == TagOf[r]
  <1>1. t \in Tag /\ TagOf \in [Record -> Tag]
    BY RecordAssumption
  <1>2. /\ UNCHANGED <<valid, is_writing, phase, notify>>
        /\ DeviceWrite(t, v) \/ UNCHANGED <<data, do_write>>
    BY WritesOrNothing DEF DeviceWrite
  <1>3. /\ data' \in [Tag -> Value \union {NoValue}]
        /\ \A u \in Tag \ {t} : data'[u] = data[u] /\ Writing(u)' = Writing(u)
        /\ Writing(t) => Writing(t)'
    BY <1>1, <1>2 DEF DeviceWrite, FieldTypes, Writing
  <1>4. /\ udf' = [udf EXCEPT ![r] = FALSE]
        /\ pact' \in [Record -> BOOLEAN]
        /\ invalid' \in [Record -> BOOLEAN]
        /\ \A s \in Record \ {r} :
              /\ pact'[s] = pact[s]
              /\ invalid'[s] = invalid[s]
              /\ udf'[s] = udf[s]
              /\ val'[s] = val[s]
        /\ val'[r] = v /\ ~udf'[r]
    BY DEF ao_write, WriteRequested, WriteAgrees, WriteInvalid, RecordInv, RecordTypeOK
  \* What became of the record itself.
  <1>5. \/ pact'[r] /\ Writing(t)' /\ data'[t] = v
        \/ ~pact'[r] /\ valid[t] /\ data'[t] = v /\ ~invalid'[r]
        \/ ~pact'[r] /\ ~valid[t]
    BY <1>1 DEF ao_write, WriteRequested, WriteAgrees, WriteInvalid, DeviceWrite, Writing,
                FieldTypes, RecordInv, RecordTypeOK
  <1>6. \A s \in Record \ {r} : (s \in once' <=> s \in once) /\ (s \in called' <=> s \in called)
    OBVIOUS
  <1>7. RecordTypeOK' /\ ChangesAreProcessed'
    <2>1. rval' = [rval EXCEPT ![r] = v]
      BY DEF ao_write
    <2>2. RecordTypeOK'
      BY <1>4, <2>1 DEF RecordInv, RecordTypeOK
    \* The record was processed with its value, and the others stay as they are.
    <2>3. ChangesAreProcessed'
      BY <1>4, <1>6, <2>1 DEF RecordInv, RecordTypeOK, ChangesAreProcessed
    <2> QED BY <2>2, <2>3
  <1>8. NotifyState'
    BY <1>2 DEF RecordInv, NotifyState
  <1>9. PactIsOwed'
    BY <1>1, <1>2, <1>3, <1>4, <1>5, <1>6 DEF RecordInv, PactIsOwed, CallbackDue
  <1>10. WaitsForItsValue'
    BY <1>1, <1>3, <1>4, <1>5 DEF RecordInv, WaitsForItsValue, RecordsOf
  <1>11. Synchronised'
    <2> SUFFICES ASSUME NEW s \in Record \ Forced, Settled(s)', RecordsOf(TagOf[s]) = {s}
                 PROVE  ~pact'[s] /\ val'[s] = data'[TagOf[s]] /\ ~invalid'[s] /\ ~udf'[s]
      BY DEF Synchronised, RecordsOf
    <2>1. CASE s = r
      BY <1>2, <1>4, <1>5, <2>1 DEF Settled
    <2>2. CASE s # r
      <3>1. TagOf[s] \in Tag \ {t}
        BY <1>1, <2>2 DEF RecordsOf
      <3>2. Settled(s)
        BY <1>2, <1>3, <1>6, <2>2, <3>1 DEF Settled, CallbackDue
      <3> QED BY <1>3, <1>4, <2>2, <3>1, <3>2 DEF RecordInv, Synchronised
    <2> QED BY <2>1, <2>2
  <1> QED BY <1>7, <1>8, <1>9, <1>10, <1>11 DEF RecordInv

\* The callback for a write that ended: nobody has changed the value since.
LEMMA CompleteRecordInv ==
    ASSUME RecordInv, NEW r \in Record, CallbackWritten(r)
    PROVE  RecordInv'
  <1> USE DEF CallbackWritten, Callback, Complete
  <1>1. RecordTypeOK' /\ ChangesAreProcessed'
    BY DEF RecordInv, RecordTypeOK, ChangesAreProcessed
  <1>2. NotifyState'
    BY DEF RecordInv, NotifyState
  <1>3. PactIsOwed'
    BY DEF RecordInv, RecordTypeOK, PactIsOwed, CallbackDue, Writing
  <1>4. WaitsForItsValue'
    BY DEF RecordInv, RecordTypeOK, WaitsForItsValue, RecordsOf
  <1>5. Synchronised'
    <2> SUFFICES ASSUME NEW s \in Record \ Forced, Settled(s)', RecordsOf(TagOf[s]) = {s}
                 PROVE  ~pact'[s] /\ val'[s] = data'[TagOf[s]] /\ ~invalid'[s] /\ ~udf'[s]
      BY DEF Synchronised, RecordsOf
    <2>1. CASE s = r
      <3>1. ~rpro[r]
        BY <2>1 DEF Settled, RecordInv, RecordTypeOK
      <3>2. val[r] = data[TagOf[r]] /\ ~udf[r]
        BY <2>1, <3>1 DEF RecordInv, RecordTypeOK, WaitsForItsValue
      <3> QED BY <2>1, <3>2 DEF RecordInv, RecordTypeOK
    <2>2. CASE s # r
      BY <2>2 DEF RecordInv, RecordTypeOK, Synchronised, Settled, CallbackDue, Writing
    <2> QED BY <2>1, <2>2
  <1> QED BY <1>1, <1>2, <1>3, <1>4, <1>5 DEF RecordInv

\* The callback for a valid tag of a record that waits for nothing.
LEMMA ValueRecordInv ==
    ASSUME FieldTypes, RecordInv, NEW r \in Record, CallbackValue(r)
    PROVE  RecordInv'
  <1> USE DEF CallbackValue, Callback
  <1>1. data[TagOf[r]] \in Value \union {NoValue}
    BY RecordAssumption DEF FieldTypes
  <1>2. RecordTypeOK'
    <2>1. \/ ~udf[r] /\ UNCHANGED <<val, udf>> /\ once' = once \union {r}
          \/ /\ val' = [val EXCEPT ![r] = data[TagOf[r]]]
             /\ udf' = [udf EXCEPT ![r] = FALSE]
             /\ once' = once \union {r}
          \/ UNCHANGED <<val, udf, once>>
      OBVIOUS
    <2> QED BY <1>1, <2>1, ZenonT(60) DEF RecordInv, RecordTypeOK
  <1>3. NotifyState'
    BY DEF RecordInv, NotifyState
  <1>4. PactIsOwed'
    BY DEF RecordInv, PactIsOwed, CallbackDue, Writing
  <1>5. \A s \in Record \ {r} :
          val'[s] = val[s] /\ udf'[s] = udf[s] /\ (s \in once' <=> s \in once)
    BY DEF RecordInv, RecordTypeOK
  <1>6. WaitsForItsValue'
    BY <1>5 DEF RecordInv, WaitsForItsValue, RecordsOf
  \* A value taken over from the tag is left to scanOnce.
  <1>7. ChangesAreProcessed'
    <2>1. r \in once' \/ UNCHANGED <<val, once>>
      BY DEF RecordInv, RecordTypeOK
    <2> QED BY <1>5, <2>1 DEF RecordInv, ChangesAreProcessed
  <1>8. Synchronised'
    <2> SUFFICES ASSUME NEW s \in Record \ Forced, Settled(s)', RecordsOf(TagOf[s]) = {s}
                 PROVE  ~pact'[s] /\ val'[s] = data'[TagOf[s]] /\ ~invalid'[s] /\ ~udf'[s]
      BY DEF Synchronised, RecordsOf
    <2>1. CASE s = r
      \* Nothing needed an update, and VAL is what RVAL was made of.
      <3>1. ~NeedsUpdate(r) /\ r \notin once /\ UNCHANGED <<val, udf>>
        BY <2>1 DEF Settled
      <3>2. val[r] = rval[r]
        BY <3>1 DEF RecordInv, ChangesAreProcessed
      <3> QED BY <2>1, <3>1, <3>2 DEF NeedsUpdate, Compared
    <2>2. CASE s # r
      BY <1>5, <2>2 DEF RecordInv, Synchronised, Settled, CallbackDue, Writing
    <2> QED BY <2>1, <2>2
  <1> QED BY <1>2, <1>3, <1>4, <1>6, <1>7, <1>8 DEF RecordInv

\* The scan task goes on once all callbacks of the tag were called.
LEMMA DoneRecordInv ==
    ASSUME RecordInv, NEW t \in Tag, CallbacksDone(t)
    PROVE  RecordInv'
  <1> USE DEF CallbacksDone, CallCallbacks
  <1>1. notify = {t}
    BY DEF RecordInv, NotifyState
  <1>2. \A r \in Record : ~CallbackDue(r) /\ ~CallbackDue(r)'
    BY <1>1 DEF CallbackDue, RecordsOf
  <1>3. RecordTypeOK' /\ ChangesAreProcessed'
    BY DEF RecordInv, RecordTypeOK, ChangesAreProcessed
  <1>4. NotifyState'
    BY DEF RecordInv, NotifyState
  <1>5. PactIsOwed'
    BY <1>2 DEF RecordInv, PactIsOwed, Writing
  <1>6. WaitsForItsValue'
    BY DEF RecordInv, WaitsForItsValue, RecordsOf
  <1>7. Synchronised'
    BY <1>2 DEF RecordInv, Synchronised, Settled, Writing, RecordsOf
  <1> QED BY <1>3, <1>4, <1>5, <1>6, <1>7 DEF RecordInv

\* A put to a record that waits: it will be processed again.
LEMMA ActiveRecordInv ==
    ASSUME RecordInv, NEW r \in Record, NEW v \in PutValue, PutActive(r, v)
    PROVE  RecordInv'
  <1> USE DEF PutActive
  <1>1. RecordTypeOK' /\ ChangesAreProcessed'
    BY RecordAssumption DEF RecordInv, RecordTypeOK, ChangesAreProcessed
  <1>2. NotifyState'
    BY DEF RecordInv, NotifyState
  <1>3. PactIsOwed'
    BY DEF RecordInv, PactIsOwed, CallbackDue, Writing
  <1>4. WaitsForItsValue'
    BY DEF RecordInv, RecordTypeOK, WaitsForItsValue, RecordsOf
  <1>5. Synchronised'
    <2>1. Writing(TagOf[r]) \/ CallbackDue(r)
      BY DEF RecordInv, PactIsOwed
    <2>2. ~Settled(r)'
      BY <2>1 DEF Settled, Writing, CallbackDue
    <2> QED
      BY <2>2
      DEF RecordInv, RecordTypeOK, Synchronised, Settled, CallbackDue, Writing, RecordsOf
  <1> QED BY <1>1, <1>2, <1>3, <1>4, <1>5 DEF RecordInv

LEMMA StepRecordInv ==
    ASSUME FieldTypes, RecordInv, RecordNext
    PROVE  RecordInv'
  <1>1. ASSUME NEW r \in Record
        PROVE  val[r] \in Value \union {NoValue} /\ [val EXCEPT ![r] = val[r]] = val
    BY DEF RecordInv, RecordTypeOK
  <1>2. ASSUME NEW r \in Record, CallbackInvalid(r) PROVE RecordInv'
    BY <1>1, <1>2, WriteRecordInv DEF CallbackInvalid, Callback
  <1>3. ASSUME NEW r \in Record, RecordCallback(r) PROVE RecordInv'
    BY <1>2, <1>3, CompleteRecordInv, ValueRecordInv DEF RecordCallback
  <1>4. ASSUME NEW r \in Record, ScanOnce(r) PROVE RecordInv'
    <2>1. CASE pact[r]
      \* The record is left alone, and is not settled before its callback.
      <3>1. Writing(TagOf[r]) \/ CallbackDue(r)
        BY <2>1 DEF RecordInv, PactIsOwed
      <3>2. ~Settled(r)'
        BY <1>4, <2>1, <3>1 DEF ScanOnce, Settled, Writing, CallbackDue
      <3>3. Synchronised'
        BY <1>4, <2>1, <3>2
        DEF ScanOnce, RecordInv, Synchronised, Settled, CallbackDue, Writing, RecordsOf
      <3> QED
        BY <1>4, <2>1, <3>3
        DEF ScanOnce, RecordInv, RecordTypeOK, NotifyState, PactIsOwed, WaitsForItsValue,
            ChangesAreProcessed, CallbackDue, Writing, RecordsOf
    <2>2. CASE ~pact[r]
      BY <1>1, <1>4, <2>2, WriteRecordInv DEF ScanOnce
    <2> QED BY <2>1, <2>2
  <1>5. ASSUME NEW r \in Record, NEW v \in PutValue, Put(r, v) PROVE RecordInv'
    BY <1>5, WriteRecordInv, RecordAssumption DEF Put
  <1> QED
    BY <1>3, <1>4, <1>5, ActiveRecordInv, DoneRecordInv, DriverRecordInv
    DEF RecordNext, DriverStep

-----------------------------------------------------------------------------
(* Theorems for any records *)

\* Whatever records there are on the tags, with FORCE or without, RecordInv
\* holds in every state.
THEOREM RecordInductive == RecordSpec => [](FieldTypes /\ RecordInv)
  <1>1. RecordInit => FieldTypes /\ RecordInv
    BY InitRecordInv
  <1>2. FieldTypes /\ RecordInv /\ [RecordNext]_allVars => (FieldTypes /\ RecordInv)'
    <2> SUFFICES ASSUME FieldTypes, RecordInv, [RecordNext]_allVars
                 PROVE  FieldTypes' /\ RecordInv'
      OBVIOUS
    <2>1. CASE RecordNext
      BY <2>1, RecordStepTypes, StepRecordInv DEF RecordInv
    <2>2. CASE UNCHANGED allVars
      BY <2>2
      DEF allVars, recordVars, FieldTypes, RecordInv, RecordTypeOK, NotifyState,
          PactIsOwed, WaitsForItsValue, ChangesAreProcessed, Synchronised, Settled,
          CallbackDue, Writing, RecordsOf
    <2> QED BY <2>1, <2>2
  <1> QED BY <1>1, <1>2, PTL DEF RecordSpec

\* Every field of a record has its type, and a record that is undefined was
\* never processed (ao_write, check_ao_callback).
THEOREM RecordTypes == RecordSpec => []RecordTypeOK
  <1>1. RecordInv => RecordTypeOK
    BY DEF RecordInv
  <1> QED BY <1>1, RecordInductive, PTL

\* No record is left active with no write owed and no callback to come, whatever
\* the PLC refuses and whenever the connection is lost (ao_write, check_ao_callback).
THEOREM ActiveAreOwed == RecordSpec => []PactIsOwed
  <1>1. RecordInv => PactIsOwed
    BY DEF RecordInv
  <1> QED BY <1>1, RecordInductive, PTL

\* The only record on a tag and the tag agree once nothing is under way, in
\* whatever order puts, answers and scanOnce came; it may be the tag's value that
\* replaced a put which was not processed yet (ao_write, check_ao_callback).
THEOREM InStep == RecordSpec => []Synchronised
  <1>1. RecordInv => Synchronised
    BY DEF RecordInv
  <1> QED BY <1>1, RecordInductive, PTL

\* No value stays in a record that was not processed with it and that nobody is
\* about to process (check_ao_callback, and a put while the record is active).
THEOREM NoneUnprocessed == RecordSpec => []ChangesAreProcessed
  <1>1. RecordInv => ChangesAreProcessed
    BY DEF RecordInv
  <1> QED BY <1>1, RecordInductive, PTL

-----------------------------------------------------------------------------
(* Records without FORCE use a tag as TagTransfer allows *)

\* ao_write has a value wherever a valid tag lets it write.
LEMMA WriteSet ==
    ASSUME SetBeforeUse, RecordTypeOK, NEW r \in Record, NEW v \in Value \union {NoValue},
           v # NoValue \/ (v = val[r] /\ ~valid[TagOf[r]]),
           ~pact[r], ao_write(r, v),
           val' = [val EXCEPT ![r] = v], UNCHANGED rpro,
           once' = once \/ once' = once \ {r}
    PROVE  SetBeforeUse' /\ [Next]_vars
  <1>1. v \in Value \/ WriteInvalid(r)
    BY DEF ao_write, WriteRequested, WriteAgrees, DeviceWrite
  <1>2. [Next]_vars
    BY <1>1, WritesOrNothing, RecordAssumption DEF Next, WriteInvalid
  <1>3. \A s \in Record \ {r} : pact'[s] = pact[s] /\ val'[s] = val[s]
    BY DEF ao_write, WriteRequested, WriteAgrees, WriteInvalid, RecordTypeOK
  <1>4. val'[r] = v
    BY DEF RecordTypeOK
  <1>5. CASE v # NoValue
    BY <1>2, <1>3, <1>4, <1>5 DEF SetBeforeUse
  <1>6. CASE v = NoValue
    <2>1. ~rpro[r] /\ r \notin once
      BY <1>6 DEF SetBeforeUse
    <2>2. UNCHANGED pact
      BY <1>1, <1>6, TagAssumption DEF WriteInvalid
    <2> QED BY <1>2, <1>3, <2>1, <2>2 DEF SetBeforeUse
  <1> QED BY <1>5, <1>6

LEMMA StepSet ==
    ASSUME Forced = {}, IInv, RecordInv, SetBeforeUse, RecordNext
    PROVE  SetBeforeUse' /\ [Next]_vars
  <1> USE DEF RecordInv
  <1>1. ASSUME NEW r \in Record
        PROVE  val[r] \in Value \union {NoValue} /\ [val EXCEPT ![r] = val[r]] = val
    BY DEF RecordTypeOK
  <1>2. CASE (TransferStep \/ OtherStep) /\ UNCHANGED recordVars
    BY <1>2 DEF recordVars, SetBeforeUse, Next, ScanStep
  <1>3. ASSUME NEW t \in Tag, CallbacksDone(t) PROVE SetBeforeUse' /\ [Next]_vars
    BY <1>3 DEF CallbacksDone, SetBeforeUse, Next, ScanStep
  <1>4. ASSUME NEW r \in Record, CallbackWritten(r) PROVE SetBeforeUse' /\ [Next]_vars
    BY <1>4 DEF CallbackWritten, Complete, SetBeforeUse, RecordTypeOK
  <1>5. ASSUME NEW r \in Record, CallbackInvalid(r) PROVE SetBeforeUse' /\ [Next]_vars
    BY <1>1, <1>5, WriteSet DEF CallbackInvalid
  <1>6. ASSUME NEW r \in Record, CallbackValue(r) PROVE SetBeforeUse' /\ [Next]_vars
    \* Without FORCE, the record takes the value of the tag before scanOnce
    \* processes it.
    <2>1. data[TagOf[r]] # NoValue
      BY <1>6, RecordAssumption DEF CallbackValue, IInv, TypeOK
    <2> QED BY <1>6, <2>1 DEF CallbackValue, SetBeforeUse, RecordTypeOK
  <1>7. ASSUME NEW r \in Record, ScanOnce(r) PROVE SetBeforeUse' /\ [Next]_vars
    <2>1. val[r] # NoValue
      BY <1>7 DEF ScanOnce, SetBeforeUse
    <2>2. CASE pact[r]
      BY <1>7, <2>2 DEF ScanOnce, SetBeforeUse
    <2>3. CASE ~pact[r]
      BY <1>1, <1>7, <2>1, <2>3, WriteSet DEF ScanOnce
    <2> QED BY <2>2, <2>3
  <1>8. ASSUME NEW r \in Record, NEW v \in PutValue, Put(r, v)
        PROVE  SetBeforeUse' /\ [Next]_vars
    <2>1. v \in Value /\ v # NoValue
      BY RecordAssumption, TagAssumption
    <2> QED BY <1>8, <2>1, WriteSet DEF Put
  <1>9. ASSUME NEW r \in Record, NEW v \in PutValue, PutActive(r, v)
        PROVE  SetBeforeUse' /\ [Next]_vars
    <2>1. v # NoValue
      BY RecordAssumption, TagAssumption
    <2> QED BY <1>9, <2>1 DEF PutActive, SetBeforeUse, RecordTypeOK
  <1> QED
    BY <1>2, <1>3, <1>4, <1>5, <1>6, <1>7, <1>8, <1>9
    DEF RecordNext, DriverStep, RecordCallback

LEMMA InitSet == RecordInit => IInv /\ RecordInv /\ SetBeforeUse
  <1>1. Init => IInv
    BY InitTypes, InitExchange, InitConnection, IInvParts
  <1> QED BY <1>1, InitRecordInv DEF RecordInit, SetBeforeUse

\* With records that are not forced, the inductive invariant of the driver
\* holds as well, and each step is one that TagTransfer has.
LEMMA UnforcedStep ==
    ASSUME Forced = {}, IInv, RecordInv, SetBeforeUse, [RecordNext]_allVars
    PROVE  IInv' /\ RecordInv' /\ SetBeforeUse' /\ [Next]_vars
  <1>1. CASE RecordNext
    <2>1. SetBeforeUse' /\ [Next]_vars
      BY <1>1, StepSet
    <2>2. RecordInv'
      BY <1>1, StepRecordInv, IInvParts
    <2>3. FieldTypes /\ Exchange /\ Connection
      BY IInvParts
    <2>4. CASE Next
      <3>1. FieldTypes' /\ Exchange' /\ Connection'
        BY <2>3, <2>4, NextTypes, NextExchange, NextConnection
      <3>2. IInv'
        BY <3>1 DEF IInv, TypeOK, Exchange, Allocated, Connection
      <3> QED BY <2>1, <2>2, <3>2
    <2>5. CASE UNCHANGED vars
      BY <2>1, <2>2, <2>5, Stutter
    <2> QED BY <2>1, <2>4, <2>5
  <1>2. CASE UNCHANGED allVars
    <2>1. UNCHANGED vars /\ UNCHANGED recordVars
      BY <1>2 DEF allVars
    <2>2. IInv'
      BY <2>1, Stutter, IInvParts
    <2>3. RecordInv' /\ SetBeforeUse'
      BY <2>1
      DEF recordVars, RecordInv, RecordTypeOK, NotifyState, PactIsOwed, WaitsForItsValue,
          ChangesAreProcessed, Synchronised, Settled, CallbackDue, Writing, RecordsOf, SetBeforeUse
    <2> QED BY <2>1, <2>2, <2>3
  <1> QED BY <1>1, <1>2

LEMMA UnforcedInductive ==
    ASSUME Forced = {}
    PROVE  RecordSpec => Spec /\ [](IInv /\ RecordInv /\ SetBeforeUse)
  <1> DEFINE J == IInv /\ RecordInv /\ SetBeforeUse
  <1>1. RecordInit => Init /\ J
    BY InitSet DEF RecordInit
  <1>2. J /\ [RecordNext]_allVars => J' /\ [Next]_vars
    BY UnforcedStep
  <1> QED BY <1>1, <1>2, PTL DEF RecordSpec, Spec

\* Records use the tags only as TagTransfer lets any thread use them: all that
\* is proved of the driver holds with the records on it (xxx_write).
THEOREM RecordsUseTransfer == Forced = {} => (RecordSpec => UsesTransfer)
  BY UnforcedInductive DEF UsesTransfer

\* A record without FORCE never writes the value that it had before anybody set
\* it (check_ao_callback, ao_write).
THEOREM OnlySetValuesWritten == RecordSpec => []UnsetNeverWritten
  <1>1. CASE Forced = {}
    <2>1. IInv => UnsetNeverWritten
      BY DEF IInv, TypeOK, UnsetNeverWritten
    <2> QED BY <1>1, <2>1, UnforcedInductive, PTL
  <1>2. CASE Forced # {}
    <2>1. UnsetNeverWritten
      BY <1>2 DEF UnsetNeverWritten
    <2> QED BY <2>1, PTL
  <1> QED BY <1>1, <1>2
=============================================================================
