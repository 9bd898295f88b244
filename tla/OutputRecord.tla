--------------------------- MODULE OutputRecord ---------------------------
(***************************************************************************)
(* Output records (ao; bo, mbbo and the others do the same) on the tags of *)
(* TagTransfer: ao_write and check_ao_callback of devEtherIP.c, between    *)
(* the threads that process records, the thread that serves scanOnce, and  *)
(* the scan task that calls the callbacks.                                 *)
(*                                                                         *)
(* A step that processes a record or runs its callback is one section      *)
(* under the record's lock (dbScanLock).  What EPICS base does is external *)
(* and modelled as the record support of ao, dbPutField and scanOnce do    *)
(* it: processing a record with PACT set completes it, a put to it         *)
(* meanwhile sets RPRO.  Records are Passive, with the default IVOA.       *)
(***************************************************************************)
EXTENDS TagTransfer

CONSTANTS
    Record,     \* output records
    TagOf,      \* the tag that the OUT link of each record names
    Forced,     \* the records with the FORCE flag
    PutValue    \* what operators put into records

ASSUME RecordAssumption ==
    /\ TagOf \in [Record -> Tag]
    /\ Forced \subseteq Record
    /\ PutValue \subseteq Value

VARIABLES
    realTags,   \* the tags that the PLC has as REAL or LREAL
    val,        \* VAL; NoValue while nobody set it
    rval,       \* RVAL: VAL as it was when the record was last processed
    udf,        \* UDF
    invalid,    \* SEVR is INVALID
    pact,       \* PACT: the record waits for the end of its write
    rpro,       \* RPRO: process again when PACT is cleared
    once,       \* records that scanOnce still has to process
    called      \* records whose callback was called for the tag in notify

recordVars == <<realTags, val, rval, udf, invalid, pact, rpro, once, called>>
allVars    == <<vars, recordVars>>

RecordInit ==
    /\ Init
    /\ realTags \in SUBSET Tag
    /\ val = [r \in Record |-> NoValue]
    /\ rval = [r \in Record |-> NoValue]
    /\ udf = [r \in Record |-> TRUE]
    /\ invalid = [r \in Record |-> TRUE]
    /\ pact = [r \in Record |-> FALSE]
    /\ rpro = [r \in Record |-> FALSE]
    /\ once = {}
    /\ called = {}

RecordsOf(t) == {r \in Record : TagOf[r] = t}

-----------------------------------------------------------------------------
(* process() with VAL = v: the record support converts VAL to RVAL and      *)
(* clears UDF, and ao_write in its first pass writes the one or the other   *)

\* Mutant: the value goes into the tag, valid or not.
WriteRequested_Unchecked(r, v) ==
    /\ data[TagOf[r]] # v
    /\ data' = [data EXCEPT ![TagOf[r]] = v]
    /\ do_write' = [do_write EXCEPT ![TagOf[r]] = TRUE]
    /\ pact' = [pact EXCEPT ![r] = TRUE]
    /\ UNCHANGED <<valid, is_writing, sizeVars, scanVars, bookVars, wireVars, history,
                   invalid>>

\* The valid tag has another value: request a write, and wait for its end.
WriteRequested(r, v) ==
    /\ DeviceWrite(TagOf[r], v)
    /\ pact' = [pact EXCEPT ![r] = TRUE]
    /\ UNCHANGED invalid

\* The tag has that value: nothing to write, and the record is fine.
WriteAgrees(r, v) ==
    /\ valid[TagOf[r]]
    /\ data[TagOf[r]] = v
    /\ invalid' = [invalid EXCEPT ![r] = FALSE]
    /\ UNCHANGED <<vars, pact>>

\* lock_data fails: WRITE_ALARM, INVALID.
WriteInvalid(r) ==
    /\ ~valid[TagOf[r]]
    /\ invalid' = [invalid EXCEPT ![r] = TRUE]
    /\ UNCHANGED <<vars, pact>>

ao_write(r, v) ==
    /\ rval' = [rval EXCEPT ![r] = v]
    /\ udf' = [udf EXCEPT ![r] = FALSE]
    /\ WriteRequested(r, v) \/ WriteAgrees(r, v) \/ WriteInvalid(r)

\* Mutant: the put meanwhile is forgotten.
Complete_Forgets(r) ==
    /\ pact' = [pact EXCEPT ![r] = FALSE]
    /\ invalid' = [invalid EXCEPT ![r] = FALSE]
    /\ rpro' = [rpro EXCEPT ![r] = FALSE]
    /\ UNCHANGED <<vars, realTags, val, rval, udf, once>>

\* ao_write, second pass: the record completes without a look at the tag and
\* without a conversion, and the record support has it processed again if there
\* was a put meanwhile.
Complete(r) ==
    /\ pact' = [pact EXCEPT ![r] = FALSE]
    /\ invalid' = [invalid EXCEPT ![r] = FALSE]
    /\ rpro' = [rpro EXCEPT ![r] = FALSE]
    /\ once' = IF rpro[r] THEN once \union {r} ELSE once
    /\ UNCHANGED <<vars, realTags, val, rval, udf>>

-----------------------------------------------------------------------------
(* EPICS base, external *)

\* An operator puts a value: dbPutField sets VAL and processes the record in
\* one go, ...
Put(r, v) ==
    /\ phase # "crashed"
    /\ ~pact[r]
    /\ val' = [val EXCEPT ![r] = v]
    /\ ao_write(r, v)
    /\ UNCHANGED <<realTags, rpro, once, called>>

\* ... or leaves that for later when the record is active.
PutActive(r, v) ==
    /\ phase # "crashed"
    /\ pact[r]
    /\ val' = [val EXCEPT ![r] = v]
    /\ rpro' = [rpro EXCEPT ![r] = TRUE]
    /\ udf' = [udf EXCEPT ![r] = FALSE]
    /\ UNCHANGED <<vars, realTags, rval, invalid, pact, once, called>>

\* The scanOnce thread: dbProcess leaves an active record alone.
ScanOnce(r) ==
    /\ phase # "crashed"
    /\ r \in once
    /\ once' = once \ {r}
    /\ IF pact[r] THEN UNCHANGED <<vars, rval, udf, invalid, pact>> ELSE ao_write(r, val[r])
    /\ UNCHANGED <<realTags, val, rpro, called>>

-----------------------------------------------------------------------------
(* check_ao_callback, called by the scan task for each record of the tag *)

Callback(r) ==
    /\ TagOf[r] \in notify
    /\ r \notin called
    /\ called' = called \union {r}

\* Mutant: check the data before PACT.
CallbackWritten_IfValid(r) ==
    /\ Callback(r)
    /\ pact[r]
    /\ IF valid[TagOf[r]] THEN Complete(r)
       ELSE UNCHANGED <<vars, realTags, val, rval, udf, invalid, pact, rpro, once>>

\* 1) pact set -> this is the "finished the write" callback
CallbackWritten(r) ==
    /\ Callback(r)
    /\ pact[r]
    /\ Complete(r)

\* 2a) disconnected; process record to set WRITE/INVALID
CallbackInvalid(r) ==
    /\ Callback(r)
    /\ ~pact[r]
    /\ ~valid[TagOf[r]]
    /\ ao_write(r, val[r])
    /\ UNCHANGED <<realTags, val, rpro, once>>

\* What the record has of the tag's value: VAL of a REAL tag, otherwise RVAL.
Compared(r) == IF TagOf[r] \in realTags THEN val[r] ELSE rval[r]

\* Mutant: only look at the value, not at UDF and SEVR.
NeedsUpdate_Value(r) == Compared(r) # data[TagOf[r]]

\* 2b) PLC's value # record's value, 2c) record is UDF; or it was INVALID
NeedsUpdate(r) == udf[r] \/ invalid[r] \/ Compared(r) # data[TagOf[r]]

\* Mutant: process the record, but leave VAL as it is.
CallbackValue_KeepsVal(r) ==
    /\ Callback(r)
    /\ ~pact[r]
    /\ valid[TagOf[r]]
    /\ once' = IF NeedsUpdate(r) THEN once \union {r} ELSE once
    /\ UNCHANGED <<vars, realTags, val, rval, udf, invalid, pact, rpro>>

\* Mutant: leave UDF set, so that it takes the value again next time.
CallbackValue_KeepsUdf(r) ==
    /\ Callback(r)
    /\ ~pact[r]
    /\ valid[TagOf[r]]
    /\ once' = IF NeedsUpdate(r) THEN once \union {r} ELSE once
    /\ val' = [val EXCEPT ![r] = data[TagOf[r]]]
    /\ UNCHANGED <<vars, realTags, rval, udf, invalid, pact, rpro>>

\* The value goes to VAL only: RVAL follows when scanOnce processes the record.
\* FORCE keeps VAL, to write it again, once the record is defined.
CallbackValue(r) ==
    /\ Callback(r)
    /\ ~pact[r]
    /\ valid[TagOf[r]]
    /\ IF NeedsUpdate(r)
       THEN /\ once' = once \union {r}
            /\ IF ~udf[r] /\ r \in Forced
               THEN UNCHANGED <<val, udf>>
               ELSE /\ val' = [val EXCEPT ![r] = data[TagOf[r]]]
                    /\ udf' = [udf EXCEPT ![r] = FALSE]
       ELSE UNCHANGED <<val, udf, once>>
    /\ UNCHANGED <<vars, realTags, rval, invalid, pact, rpro>>

\* Mutant: the scan task goes on before it called all callbacks.
CallbacksDone_Early(t) ==
    /\ CallCallbacks(t)
    /\ called' = {}
    /\ UNCHANGED <<realTags, val, rval, udf, invalid, pact, rpro, once>>

CallbacksDone(t) ==
    /\ RecordsOf(t) \subseteq called
    /\ CallCallbacks(t)
    /\ called' = {}
    /\ UNCHANGED <<realTags, val, rval, udf, invalid, pact, rpro, once>>

-----------------------------------------------------------------------------
RecordCallback(r) == CallbackWritten(r) \/ CallbackInvalid(r) \/ CallbackValue(r)

DriverStep ==
    \/ TransferStep /\ UNCHANGED recordVars
    \/ \E r \in Record : RecordCallback(r)
    \/ \E t \in Tag : CallbacksDone(t)

RecordNext ==
    \/ DriverStep
    \/ OtherStep /\ UNCHANGED recordVars
    \/ \E r \in Record :
          \/ ScanOnce(r)
          \/ \E v \in PutValue : Put(r, v) \/ PutActive(r, v)

RecordSpec == RecordInit /\ [][RecordNext]_allVars

RecordFairness ==
    /\ WF_allVars(DriverStep)
    /\ \A l \in ScanList : SF_allVars(BeginPass /\ l \in due' /\ UNCHANGED recordVars)
    /\ \A r \in Record : WF_allVars(ScanOnce(r))

RecordFairSpec == RecordSpec /\ RecordFairness

-----------------------------------------------------------------------------
(* Properties *)

\* Every field has its type, and a record that is still undefined was never
\* processed nor given a value.
RecordTypeOK ==
    /\ realTags \in SUBSET Tag
    /\ val \in [Record -> Value \union {NoValue}]
    /\ rval \in [Record -> Value \union {NoValue}]
    /\ udf \in [Record -> BOOLEAN]
    /\ invalid \in [Record -> BOOLEAN]
    /\ pact \in [Record -> BOOLEAN]
    /\ rpro \in [Record -> BOOLEAN]
    /\ once \in SUBSET Record
    /\ called \in SUBSET Record
    /\ \A r \in Record : udf[r] => val[r] = NoValue /\ ~pact[r] /\ r \notin once

\* A callback for the record is still to come in this round of callbacks.
CallbackDue(r) == TagOf[r] \in notify /\ r \notin called

\* Nothing that could still change the record or the tag is under way.
Settled(r) ==
    /\ valid[TagOf[r]]
    /\ ~Writing(TagOf[r])
    /\ ~CallbackDue(r)
    /\ r \notin once

\* When nothing is under way, the only record on a tag shows what the tag
\* holds and is not in alarm, in whatever order updates of the tag, puts, the
\* ends of writes and scanOnce came (check_ao_callback, ao_write).  Which value
\* that is, it does not say: that of a put to an active record goes when the
\* callback replaces it by the tag's before scanOnce processes the record.  (Two
\* records on a tag may each show their own value until the next read.)
Synchronised ==
    \A r \in Record \ Forced :
        Settled(r) /\ RecordsOf(TagOf[r]) = {r} => ~pact[r] /\ val[r] = data[TagOf[r]] /\ ~invalid[r] /\ ~udf[r]

\* A value that the record was not processed with will be: it came while the
\* record was active, which processes it again when it completes, or the record
\* is queued for scanOnce.  So neither a put nor a value of the PLC stays in VAL
\* with nobody to write, convert or announce it.
ChangesAreProcessed ==
    \A r \in Record : val[r] # rval[r] => IF pact[r] THEN rpro[r] ELSE r \in once

\* A record only waits for a write while one is owed or its callback is still
\* to come: none is left with PACT set and nobody to clear it.
PactIsOwed ==
    \A r \in Record : pact[r] => Writing(TagOf[r]) \/ CallbackDue(r)

\* A record without FORCE never writes the VAL that it had before it got one
\* from the PLC or an operator, although it is processed while disconnected.
UnsetNeverWritten ==
    Forced = {} => \A t \in Tag : Writing(t) => data[t] # NoValue

\* The scan task calls the callbacks of one tag at a time, between the handling
\* of items or the invalidation of tags, and begins with none of them called.
NotifyState ==
    /\ \A t, u \in notify : t = u
    /\ notify # {} => phase \in {"receive", "invalidate"}
    /\ \A r \in called : TagOf[r] \in notify

\* The only record on a tag waits for the write of its value, but for puts that
\* it will process afterwards.
WaitsForItsValue ==
    \A r \in Record :
        pact[r] /\ ~rpro[r] /\ RecordsOf(TagOf[r]) = {r} => val[r] = data[TagOf[r]]

\* The inductive invariant behind the properties above, for any records.
RecordInv ==
    /\ RecordTypeOK
    /\ NotifyState
    /\ PactIsOwed
    /\ WaitsForItsValue
    /\ ChangesAreProcessed
    /\ Synchronised

\* A record without FORCE that writes, or is about to, has a value.
SetBeforeUse ==
    \A r \in Record : pact[r] \/ rpro[r] \/ r \in once => val[r] # NoValue

\* Records use a tag as TagTransfer lets any other thread use it.
UsesTransfer == Spec

\* A record does not stay active forever.
PactEnds == \A r \in Record : pact[r] ~> (~pact[r] \/ phase = "crashed")

\* The process() call for a new value does not cause the record to write: with
\* nobody to put values, no write is ever requested (check_ao_callback).
NoWriteWithoutPut ==
    PutValue = {} => \A t \in Tag : ~Writing(t)

\* After a disconnect the callbacks were called so that records show INVALID
\* (invalidate_PLC_tags), and so they do while none is still to be processed.
InvalidWhileDown ==
    (phase = "idle" /\ ~sock /\ once = {}) => \A r \in Record : invalid[r]
=============================================================================
