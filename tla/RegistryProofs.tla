--------------------------- MODULE RegistryProofs ---------------------------
(* Proofs about Registry, for any PLCs, tags, records and links, and what    *)
(* follows from DataProofs for the data of their tags.                       *)
EXTENDS MCRegistry, DataProofs, TLAPS

(* Who holds which lock, and why. *)
Locking ==
    /\ \A p \in PLC : plcLock[p] = p <=> scan[p] = "pass"
    /\ \A p \in PLC : plcLock[p] \in {Free, p, Shell} \cup Record
    /\ \A p \in PLC : plcLock[p] \in Record => p \in kept
    /\ \A p \in PLC : plcLock[p] = Shell => p \in kept \/ restarting = p
    /\ \A p \in kept : plcLock[p] \in Record \cup {Shell}
    /\ restarting = Free <=> shell # "disconnect"
    /\ restarting # Free => plcLock[restarting] = Shell
    /\ privateLock = Shell <=> shell \in {"loop", "disconnect"}
    /\ privateLock = Stats <=> stats = "loop"
    /\ ~databaseIsReady => shell = "idle" /\ stats = "idle" /\ \A p \in PLC : scan[p] = "off"

(* What a record has of its registration at each step. *)
Registration ==
    \A r \in Record :
        /\ step[r] \in {"new", "find", "add"} => tag[r] = NoTag
        /\ step[r] \in {"add", "callback"} => TagOf(r, link[r]) \in Tag
        /\ tag[r] # NoTag => TagOf(r, link[r]) \in Tag
        /\ tag[r] \in Tag => tag[r] = TagOf(r, link[r])
        /\ \A t \in Tag : r \in callbacks[t] => tag[r] = t /\ step[r] \in {"idle", "delete"}
        /\ step[r] = "idle" /\ tag[r] \in Tag /\ AsksCallback(r)
            => r \in callbacks[tag[r]] \/ PlcOf[tag[r]] \in kept

(* Callbacks are only made while the lock of the PLC is held. *)
Calling ==
    /\ \A p \in PLC : scan[p] # "pass" => due[p] = {}
    /\ shell # "disconnect" => due[Shell] = {}
    /\ \A p \in PLC : \A call \in due[p] :
        call[2] \in callbacks[call[1]] /\ PlcOf[call[1]] = p
    /\ \A call \in due[Shell] :
        call[2] \in callbacks[call[1]] /\ PlcOf[call[1]] = restarting

(* While the IOC runs, one thread at a time holds a lock set.                *)
OneHolder ==
    databaseIsReady =>
        /\ \A r \in Record : step[r] # "new"
        /\ \A r, s \in Record :
            step[r] # "idle" /\ step[s] # "idle" /\ LockSet[r] = LockSet[s] => r = s
        /\ \A r \in Record : step[r] # "idle" /\ LockSet[r] = LockSet[Stats] => stats = "idle"

IInv == Types /\ OneHolder /\ Locking /\ Registration /\ Calling /\ ServesAll
-----------------------------------------------------------------------------
(* What the types of a state say of the link of a record. *)
LEMMA LinkFacts ==
    ASSUME Types, NEW r \in Record
    PROVE  /\ TagOf(r, link[r]) \in Tag \cup {NoTag}
           /\ PeriodOf(r, link[r]) \in Period /\ PeriodOf(r, link[r]) \in Nat \ {0}
           /\ ElementsOf(r, link[r]) \in Nat
           /\ TagOf(r, link[r]) \in Tag => PlcOf[TagOf(r, link[r])] \in PLC
           /\ Self(r) \in Record \cup {Shell}
  BY AnalysedAssumption, PeriodAssumption, TagsAssumption DEF Types, Self

LEMMA CallFacts ==
    ASSUME NEW tags \in SUBSET Tag
    PROVE  /\ Calls(tags) \subseteq Tag \X Record
           /\ \A call \in Calls(tags) : call[1] \in tags /\ call[2] \in callbacks[call[1]]
  BY DEF Calls

(* The steps of records. *)
LEMMA TypeOfRecords ==
    ASSUME Types, NEW r \in Record,
           NewRecord(r) \/ dbPutField(r) \/ del_record(r) \/ drvEtherIP_find_PLC(r)
    PROVE  Types'
<1> USE DEF Types, structure, records, commands, tasks, locks
<1>1. CASE NewRecord(r)
  BY <1>1 DEF NewRecord
<1>2. CASE dbPutField(r)
  BY <1>2 DEF dbPutField
<1>3. CASE del_record(r)
  <2>1. PICK l \in LinksFor[r] : link' = [link EXCEPT ![r] = l]
    BY <1>3 DEF del_record
  <2>2. l \in AllLinks
    BY DEF AllLinks
  <2>3. link' \in [Record -> AllLinks] /\ \A s \in Record : link'[s] \in LinksFor[s]
    BY <2>1, <2>2
  <2>4. callbacks' \in [Tag -> SUBSET Record]
    BY <1>3 DEF del_record
  <2> QED
    BY <1>3, <2>3, <2>4 DEF del_record
<1>4. CASE drvEtherIP_find_PLC(r)
  BY <1>4 DEF drvEtherIP_find_PLC
<1> QED
  BY <1>1, <1>2, <1>3, <1>4

LEMMA TypeOfTags ==
    ASSUME Types, NEW r \in Record, drvEtherIP_add_tag(r)
    PROVE  Types'
<1> USE DEF Types, structure, records, commands, tasks, locks
<1>0. /\ PeriodOf(r, link[r]) \in Period
      /\ ElementsOf(r, link[r]) \in Nat
      /\ PlcOf \in [Tag -> PLC]
  BY LinkFacts, TagsAssumption
<1>1. UNCHANGED <<commands, tasks, locks>>
  BY DEF drvEtherIP_add_tag
<1>2. PICK t \in Tag : NewTag(r, t) \/ KnownTag(r, t) \/ NewTagFails(r, t) \/ KnownTagFails(r, t)
  BY DEF drvEtherIP_add_tag
<1>3. ASSUME PutOnList(r, t)
      PROVE  /\ scanlists' \in [PLC -> SUBSET Period]
             /\ scanlist' \in [Tag -> Period \cup {0}]
             /\ \A u \in Tag : scanlist'[u] # 0 => scanlist'[u] \in scanlists'[PlcOf[u]]
  BY <1>0, <1>3 DEF PutOnList
<1>4. CASE NewTag(r, t)
  BY <1>0, <1>1, <1>3, <1>4 DEF NewTag, Registered
<1>5. CASE KnownTag(r, t)
  <2>1. elements' \in [Tag -> Nat]
    BY <1>0, <1>5 DEF KnownTag, MoreElements, Larger
  <2>2. /\ scanlists' \in [PLC -> SUBSET Period]
        /\ scanlist' \in [Tag -> Period \cup {0}]
        /\ \A u \in Tag : scanlist'[u] # 0 => scanlist'[u] \in scanlists'[PlcOf[u]]
    BY <1>3, <1>5 DEF KnownTag
  <2> QED
    BY <1>1, <1>5, <2>1, <2>2 DEF KnownTag, Registered
<1>6. CASE NewTagFails(r, t)
  <2>1. failures' \in 0 .. MaxFailures
    BY <1>6, FailuresAssumption DEF NewTagFails, Fails
  <2> QED
    BY <1>0, <1>1, <1>6, <2>1 DEF NewTagFails, NotRegistered
<1>7. CASE KnownTagFails(r, t)
  <2>1. failures' \in 0 .. MaxFailures
    BY <1>7, FailuresAssumption DEF KnownTagFails, Fails
  <2> QED
    BY <1>0, <1>1, <1>7, <2>1 DEF KnownTagFails, NotRegistered
<1> QED
  BY <1>2, <1>4, <1>5, <1>6, <1>7

LEMMA TypeOfCallbacks ==
    ASSUME Types, Registration, NEW r \in Record, drvEtherIP_add_callback(r)
    PROVE  Types'
<1> USE DEF Types, structure, records, commands, tasks, locks
<1> DEFINE plc == PlcOf[TagOf(r, link[r])]
<1>1. plc \in PLC /\ Self(r) \in Threads
  BY LinkFacts DEF drvEtherIP_add_callback, Registration, Threads
<1>2. callbacks' \in [Tag -> SUBSET Record]
  BY DEF drvEtherIP_add_callback, AddsCallback
<1>3. plcLock' \in [PLC -> Threads \cup {Free}] /\ kept' \subseteq PLC
  BY <1>1 DEF drvEtherIP_add_callback, AddsCallback
<1>4. failures' \in 0 .. MaxFailures
  BY FailuresAssumption DEF drvEtherIP_add_callback, AddsCallback, Fails
<1> QED
  BY <1>2, <1>3, <1>4 DEF drvEtherIP_add_callback

(* The steps of scan tasks. *)
LEMMA TypeOfPasses ==
    ASSUME Types, NEW p \in PLC, PLC_scan_task(p)
    PROVE  Types'
<1> USE DEF Types, structure, records, commands, tasks, locks
<1>0. /\ p \in Callers /\ p \in Threads
      /\ OnLists(p) \subseteq Tag
  BY DEF Callers, Threads, OnLists, TagsOf
<1>1. CASE BeginPass(p)
  <2>1. PICK lists \in SUBSET scanlists[p] :
          due' = [due EXCEPT ![p] = Calls({t \in OnLists(p) : scanlist[t] \in lists /\ t \in sized'})]
    BY <1>1 DEF BeginPass
  <2>2. due' \in [Callers -> SUBSET (Tag \X Record)]
    <3> DEFINE tags == {t \in OnLists(p) : scanlist[t] \in lists /\ t \in sized'}
    <3>1. Calls(tags) \subseteq Tag \X Record
      BY <1>0, CallFacts
    <3> QED
      BY <1>0, <2>1, <3>1
  <2>3. sized' \subseteq Tag
    BY <1>0, <1>1 DEF BeginPass
  <2> QED
    BY <1>0, <1>1, <2>2, <2>3 DEF BeginPass
<1>2. CASE PassFails(p)
  <2>1. due' \in [Callers -> SUBSET (Tag \X Record)]
    BY <1>0, <1>2, CallFacts DEF PassFails
  <2> QED
    BY <1>2, <2>1 DEF PassFails
<1>3. CASE EndPass(p)
  BY <1>0, <1>3 DEF EndPass, Release
<1>4. CASE \E call \in due[p] : Callback(p, call)
  BY <1>0, <1>4 DEF Callback
<1> QED
  BY <1>1, <1>2, <1>3, <1>4 DEF PLC_scan_task

(* The steps of commands. *)
LEMMA TypeOfCommands ==
    ASSUME Types, Locking,
           \/ \E call \in due[Shell] : Callback(Shell, call)
           \/ drvEtherIP_restart \/ drvEtherIP_reset_statistics \/ Commands
    PROVE  Types'
<1> USE DEF Types, structure, records, commands, tasks, locks
<1>0. Shell \in Callers /\ Shell \in Threads
  BY DEF Callers, Threads
<1>1. CASE \E call \in due[Shell] : Callback(Shell, call)
  BY <1>0, <1>1 DEF Callback
<1>2. CASE Commands
  BY <1>2 DEF Commands, drvEtherIP_define_PLC, drvEtherIP_initHook, CallRestart,
              CallResetStatistics
<1>3. CASE drvEtherIP_reset_statistics
  BY <1>3 DEF drvEtherIP_reset_statistics, LocksForStatistics, ResetsPlc, EndStatistics
<1>4. CASE LocksForRestart \/ EndRestart
  BY <1>4 DEF LocksForRestart, EndRestart
<1>5. ASSUME NEW p \in PLC, RestartsPlc(p)
      PROVE  Types'
  <2>1. due' \in [Callers -> SUBSET (Tag \X Record)]
    <3>1. Calls(OnLists(p)) \subseteq Tag \X Record
      BY CallFacts DEF OnLists, TagsOf
    <3> QED
      BY <1>0, <1>5, <3>1 DEF RestartsPlc, NoCalls
  <2> QED
    BY <1>0, <1>5, <2>1 DEF RestartsPlc
<1>6. CASE LaunchesTask
  <2>1. restarting \in PLC
    BY <1>6 DEF Locking, LaunchesTask
  <2>2. plcLock' \in [PLC -> Threads \cup {Free}]
    BY <1>0, <1>6, <2>1 DEF LaunchesTask, Release
  <2>3. scan' \in [PLC -> {"off", "idle", "pass"}]
    BY <1>6, <2>1 DEF LaunchesTask
  <2>4. todo' \in [{Shell, Stats} -> SUBSET PLC]
    BY <1>6, <2>1 DEF LaunchesTask
  <2> QED
    BY <1>6, <2>2, <2>3, <2>4 DEF LaunchesTask
<1> QED
  BY <1>1, <1>2, <1>3, <1>4, <1>5, <1>6 DEF drvEtherIP_restart
-----------------------------------------------------------------------------
(* A thread that can lock a PLC for a record meets nobody who walks along    *)
(* the callbacks of the PLC's tags.                                          *)
LEMMA NobodyCalls ==
    ASSUME Types, Locking, Calling, NEW r \in Record, NEW t \in Tag,
           CanLock(PlcOf[t], r) \/ CanLock(PlcOf[t], Self(r))
    PROVE  /\ scan[PlcOf[t]] # "pass"
           /\ \A th \in Callers : \A call \in due[th] : call[1] # t
<1> DEFINE plc == PlcOf[t]
<1>1. plc \in PLC
  BY TagsAssumption
<1>2. scan[plc] # "pass"
  BY <1>1, ThreadsAssumption DEF CanLock, Self, Locking
<1>3. \A call \in due[Shell] : call[1] # t
  <2>1. CASE ~databaseIsReady
    BY <2>1 DEF Locking, Calling
  <2>2. CASE databaseIsReady
    <3>1. plcLock[plc] # Shell
      BY <2>2, ThreadsAssumption DEF CanLock, Self
    <3>2. restarting # plc
      BY <1>1, <3>1, ThreadsAssumption DEF Locking
    <3> QED
      BY <3>2 DEF Calling
  <2> QED
    BY <2>1, <2>2
<1>4. \A p \in PLC : \A call \in due[p] : call[1] # t
  BY <1>2 DEF Calling
<1> QED
  BY <1>2, <1>3, <1>4 DEF Callers

(* Steps that leave the locks and what goes with them alone. *)
LEMMA LockingUnchanged ==
    ASSUME Locking,
           UNCHANGED <<plcLock, kept, privateLock, scan, restarting, shell, stats, databaseIsReady>>
    PROVE  Locking'
  BY DEF Locking

LEMMA LockingStep ==
    ASSUME Types, Locking, Registration, [Next]_vars
    PROVE  Locking'
<1> USE DEF structure, records, commands, tasks, locks
<1>1. ASSUME NEW r \in Record,
             \/ NewRecord(r) \/ dbPutField(r)
             \/ del_record(r) \/ drvEtherIP_find_PLC(r) \/ drvEtherIP_add_tag(r)
      PROVE  Locking'
  BY <1>1, LockingUnchanged
     DEF NewRecord, dbPutField, del_record, drvEtherIP_find_PLC, drvEtherIP_add_tag
<1>2. ASSUME NEW r \in Record, drvEtherIP_add_callback(r)
      PROVE  Locking'
  <2> DEFINE plc == PlcOf[TagOf(r, link[r])]
  <2>1. plc \in PLC /\ CanLock(plc, Self(r))
    BY <1>2, LinkFacts DEF drvEtherIP_add_callback, AddsCallback, Registration
  <2>2. UNCHANGED <<privateLock, scan, restarting, shell, stats, databaseIsReady>>
    BY <1>2 DEF drvEtherIP_add_callback
  <2>3. CASE UNCHANGED <<plcLock, kept>>
    BY <2>2, <2>3, LockingUnchanged
  <2>4. CASE plcLock' = [plcLock EXCEPT ![plc] = Self(r)] /\ kept' = kept \cup {plc}
    <3>1. plcLock[plc] # plc /\ Self(r) # plc /\ Self(r) \in Record \cup {Shell}
      BY <2>1, ThreadsAssumption DEF CanLock, Self
    <3>2. restarting = plc => Self(r) = Shell
      BY <2>1, ThreadsAssumption DEF Locking, CanLock
    <3> QED
      BY <2>1, <2>2, <2>4, <3>1, <3>2, ThreadsAssumption DEF Locking, Types
  <2> QED
    BY <1>2, <2>3, <2>4 DEF drvEtherIP_add_callback, AddsCallback
<1>3. ASSUME NEW p \in PLC, BeginPass(p)
      PROVE  Locking'
  <2>1. plcLock[p] = Free
    BY <1>3 DEF BeginPass, CanLock, Locking
  <2>2. p \notin kept /\ restarting # p
    BY <2>1, ThreadsAssumption DEF Locking
  <2> QED
    BY <1>3, <2>1, <2>2, ThreadsAssumption DEF BeginPass, Locking, Types
<1>4. ASSUME NEW p \in PLC, EndPass(p)
      PROVE  Locking'
  <2>1. plcLock[p] = p
    BY <1>4 DEF EndPass, Locking
  <2>2. p \notin kept /\ restarting # p
    BY <2>1, ThreadsAssumption DEF Locking
  <2> QED
    BY <1>4, <2>1, <2>2, ThreadsAssumption DEF EndPass, Release, Locking, Types
<1>5. ASSUME NEW p \in PLC, PassFails(p) \/ \E call \in due[p] : Callback(p, call)
      PROVE  Locking'
  BY <1>5, LockingUnchanged DEF PassFails, Callback
<1>6. CASE \E call \in due[Shell] : Callback(Shell, call)
  BY <1>6, LockingUnchanged DEF Callback
<1>7. CASE LocksForRestart \/ EndRestart
  BY <1>7, ThreadsAssumption DEF LocksForRestart, EndRestart, Locking, Types
<1>8. ASSUME NEW p \in PLC, RestartsPlc(p)
      PROVE  Locking'
  <2>1. restarting = Free /\ plcLock[p] # p /\ p # Free /\ p # Shell
    BY <1>8, ThreadsAssumption DEF RestartsPlc, Locking, CanLock
  <2>2. \A q \in PLC : plcLock'[q] = IF q = p THEN Shell ELSE plcLock[q]
    BY <1>8 DEF RestartsPlc, Types
  <2> QED
    BY <1>8, <2>1, <2>2, ThreadsAssumption DEF RestartsPlc, Locking, Types
<1>9. CASE LaunchesTask
  <2>1. restarting \in PLC /\ plcLock[restarting] = Shell /\ databaseIsReady
    BY <1>9 DEF LaunchesTask, Locking, Types
  <2>2. /\ \A q \in PLC : plcLock'[q] = IF q = restarting /\ q \notin kept THEN Free ELSE plcLock[q]
        /\ \A q \in PLC : scan'[q] = "pass" <=> scan[q] = "pass"
    BY <1>9, <2>1 DEF LaunchesTask, Release, Types
  <2> QED
    BY <1>9, <2>1, <2>2, ThreadsAssumption DEF LaunchesTask, Locking, Types
<1>10. CASE drvEtherIP_reset_statistics
  BY <1>10, ThreadsAssumption
     DEF drvEtherIP_reset_statistics, LocksForStatistics, ResetsPlc, EndStatistics, Locking, Types
<1>11. CASE Commands
  BY <1>11, ThreadsAssumption
     DEF Commands, drvEtherIP_define_PLC, drvEtherIP_initHook, CallRestart, CallResetStatistics,
         Holding, Locking, Types, ShellFree
<1>12. CASE UNCHANGED vars
  BY <1>12, LockingUnchanged DEF vars
<1> QED
  BY <1>1, <1>2, <1>3, <1>4, <1>5, <1>6, <1>7, <1>8, <1>9, <1>10, <1>11, <1>12
     DEF Next, RecordStep, PLC_scan_task, drvEtherIP_restart

LEMMA RegistrationUnchanged ==
    ASSUME Registration, UNCHANGED <<callbacks, kept, link, tag, step>>
    PROVE  Registration'
  BY DEF Registration, AsksCallback

LEMMA RegistrationStep ==
    ASSUME Types, Registration, [Next]_vars
    PROVE  Registration'
<1> USE DEF structure, records, commands, tasks, locks
<1>1. ASSUME NEW r \in Record, NewRecord(r) \/ dbPutField(r) \/ drvEtherIP_find_PLC(r)
      PROVE  Registration'
  <2>1. /\ step' \in [Record -> {"new", "idle", "delete", "find", "add", "callback"}]
        /\ \A s \in Record : s # r => step'[s] = step[s]
        /\ \/ step[r] = "new" /\ step'[r] = "find"
           \/ step[r] = "idle" /\ step'[r] = "delete"
           \/ step[r] = "find" /\ step'[r] = "idle"
           \/ step[r] = "find" /\ step'[r] = "add" /\ TagOf(r, link[r]) \in Tag
        /\ UNCHANGED <<callbacks, kept, link, tag>>
    BY <1>1 DEF NewRecord, dbPutField, drvEtherIP_find_PLC, Known, Holding, Types
  <2>2. NoTag \notin Tag
    BY TagsAssumption
  <2> QED
    BY <2>1, <2>2 DEF Registration, AsksCallback
<1>2. ASSUME NEW r \in Record, del_record(r)
      PROVE  Registration'
  <2>1. /\ \A s \in Record : s # r => step'[s] = step[s] /\ tag'[s] = tag[s] /\ link'[s] = link[s]
        /\ step[r] = "delete" /\ step'[r] = "find" /\ tag'[r] = NoTag
        /\ kept' = kept
    BY <1>2 DEF del_record, Types
  <2>2. \A t \in Tag : callbacks'[t] = IF t = tag[r] THEN callbacks[t] \ {r} ELSE callbacks[t]
    BY <1>2 DEF del_record, Types
  <2>3. \A t \in Tag : r \notin callbacks'[t]
    BY <2>2 DEF Registration
  <2>4. \A t \in Tag, s \in Record : s # r => (s \in callbacks'[t] <=> s \in callbacks[t])
    BY <2>2
  <2> QED
    BY <2>1, <2>3, <2>4, TagsAssumption DEF Registration, AsksCallback, Types
<1>3. ASSUME NEW r \in Record, drvEtherIP_add_tag(r)
      PROVE  Registration'
  <2>1. PICK t \in Tag : NewTag(r, t) \/ KnownTag(r, t) \/ NewTagFails(r, t) \/ KnownTagFails(r, t)
    BY <1>3 DEF drvEtherIP_add_tag
  <2>2. /\ step[r] = "add" /\ tag[r] = NoTag /\ t = TagOf(r, link[r])
        /\ \A u \in Tag : r \notin callbacks[u]
        /\ link' = link /\ kept' = kept
    BY <1>3, <2>1 DEF drvEtherIP_add_tag, NewTag, KnownTag, NewTagFails, KnownTagFails, Adding,
                      Registration
  <2>3. CASE NewTag(r, t) \/ KnownTag(r, t)
    <3>1. /\ \A s \in Record : s # r => step'[s] = step[s] /\ tag'[s] = tag[s]
          /\ step'[r] = "callback" /\ tag'[r] = t /\ callbacks' = callbacks
      BY <2>3 DEF NewTag, KnownTag, Registered, Types
    <3> QED
      BY <2>2, <3>1 DEF Registration, AsksCallback
  <2>4. CASE NewTagFails(r, t)
    <3>1. /\ \A s \in Record : s # r => step'[s] = step[s]
          /\ step'[r] = "idle" /\ tag' = tag /\ callbacks' = callbacks
      BY <2>4 DEF NewTagFails, NotRegistered, Types
    <3> QED
      BY <2>2, <3>1, TagsAssumption DEF Registration, AsksCallback
  <2>5. CASE KnownTagFails(r, t)
    <3>1. /\ \A s \in Record : s # r => step'[s] = step[s]
          /\ step'[r] = "idle"
          /\ \A s \in Record : tag'[s] = IF tag[s] = t THEN Orphan ELSE tag[s]
          /\ \A u \in Tag : callbacks'[u] = IF u = t THEN {} ELSE callbacks[u]
      BY <2>5 DEF KnownTagFails, NotRegistered, Types
    <3>2. tag'[r] = NoTag
      BY <2>2, <3>1, TagsAssumption
    <3> QED
      BY <2>2, <3>1, <3>2, TagsAssumption DEF Registration, AsksCallback
  <2> QED
    BY <2>1, <2>3, <2>4, <2>5
<1>4. ASSUME NEW r \in Record, drvEtherIP_add_callback(r)
      PROVE  Registration'
  <2> DEFINE plc == PlcOf[TagOf(r, link[r])]
  <2>1. /\ \A s \in Record : s # r => step'[s] = step[s]
        /\ step[r] = "callback" /\ step'[r] = "idle"
        /\ tag' = tag /\ link' = link /\ kept \subseteq kept'
    BY <1>4 DEF drvEtherIP_add_callback, AddsCallback, Types
  <2>2. CASE \A t \in Tag : callbacks'[t] = IF t = tag[r] /\ AsksCallback(r)
                                             THEN callbacks[t] \cup {r} ELSE callbacks[t]
    <3>1. \A s \in Record, t \in Tag : s # r => (s \in callbacks'[t] <=> s \in callbacks[t])
      BY <2>2
    <3>2. \A t \in Tag : r \in callbacks'[t] => tag[r] = t
      BY <2>2 DEF Registration
    <3>3. tag[r] \in Tag /\ AsksCallback(r) => r \in callbacks'[tag[r]]
      BY <2>2
    <3> QED
      BY <2>1, <3>1, <3>2, <3>3 DEF Registration, AsksCallback
  <2>3. CASE callbacks' = callbacks /\ plc \in kept'
    BY <2>1, <2>3 DEF Registration, AsksCallback, Types
  <2> QED
    BY <1>4, <2>2, <2>3 DEF drvEtherIP_add_callback, AddsCallback
<1>5. ASSUME NEW p \in PLC, PLC_scan_task(p)
      PROVE  Registration'
  BY <1>5, RegistrationUnchanged DEF PLC_scan_task, BeginPass, PassFails, EndPass, Callback
<1>6. CASE \/ \E call \in due[Shell] : Callback(Shell, call)
           \/ drvEtherIP_restart \/ drvEtherIP_reset_statistics \/ Commands
  BY <1>6, RegistrationUnchanged
     DEF Callback, drvEtherIP_restart, LocksForRestart, RestartsPlc, LaunchesTask, EndRestart,
         drvEtherIP_reset_statistics, LocksForStatistics, ResetsPlc, EndStatistics,
         Commands, drvEtherIP_define_PLC, drvEtherIP_initHook, CallRestart, CallResetStatistics
<1>7. CASE UNCHANGED vars
  BY <1>7, RegistrationUnchanged DEF vars
<1> QED
  BY <1>1, <1>2, <1>3, <1>4, <1>5, <1>6, <1>7 DEF Next, RecordStep

LEMMA CallingStep ==
    ASSUME Types, Locking, Registration, Calling, [Next]_vars
    PROVE  Calling'
<1> USE DEF structure, records, commands, tasks, locks
<1>0. \A p \in PLC : p # Shell
  BY ThreadsAssumption
<1>1. ASSUME UNCHANGED <<due, scan, shell, restarting>>,
             \A t \in Tag : \/ callbacks[t] \subseteq callbacks'[t]
                            \/ \A th \in Callers : \A call \in due[th] : call[1] # t
      PROVE  Calling'
  BY <1>1 DEF Calling, Callers, Types
<1>2. ASSUME NEW r \in Record, RecordStep(r) \/ NewRecord(r) \/ dbPutField(r)
      PROVE  Calling'
  <2>1. UNCHANGED <<due, scan, shell, restarting>>
    BY <1>2 DEF RecordStep, NewRecord, dbPutField, del_record, drvEtherIP_find_PLC,
                drvEtherIP_add_tag, drvEtherIP_add_callback
  <2>2. CASE del_record(r)
    <3>1. ASSUME NEW t \in Tag, t = tag[r]
          PROVE  \A th \in Callers : \A call \in due[th] : call[1] # t
      <4>1. t = TagOf(r, link[r]) /\ CanLock(PlcOf[t], r)
        BY <2>2, <3>1, TagsAssumption DEF del_record, Registration
      <4> QED
        BY <4>1, NobodyCalls
    <3>2. \A t \in Tag : t # tag[r] => callbacks'[t] = callbacks[t]
      BY <2>2 DEF del_record
    <3> QED
      BY <1>1, <2>1, <3>1, <3>2
  <2>3. CASE drvEtherIP_add_tag(r)
    <3>1. PICK t \in Tag : NewTag(r, t) \/ KnownTag(r, t) \/ NewTagFails(r, t) \/ KnownTagFails(r, t)
      BY <2>3 DEF drvEtherIP_add_tag
    <3>2. CanLock(PlcOf[t], Self(r))
      BY <3>1 DEF NewTag, KnownTag, NewTagFails, KnownTagFails, Adding
    <3>3. \A th \in Callers : \A call \in due[th] : call[1] # t
      BY <3>2, NobodyCalls
    <3>4. \A u \in Tag : u # t => callbacks'[u] = callbacks[u]
      BY <3>1 DEF NewTag, KnownTag, NewTagFails, KnownTagFails, Types
    <3> QED
      BY <1>1, <2>1, <3>3, <3>4
  <2>4. CASE drvEtherIP_add_callback(r)
    <3>1. \A t \in Tag : callbacks[t] \subseteq callbacks'[t]
      BY <2>4 DEF drvEtherIP_add_callback, AddsCallback
    <3> QED
      BY <1>1, <2>1, <3>1
  <2>5. CASE NewRecord(r) \/ dbPutField(r) \/ drvEtherIP_find_PLC(r)
    BY <1>1, <2>1, <2>5 DEF NewRecord, dbPutField, drvEtherIP_find_PLC
  <2> QED
    BY <1>2, <2>2, <2>3, <2>4, <2>5 DEF RecordStep
<1>3. ASSUME NEW p \in PLC, BeginPass(p)
      PROVE  Calling'
  <2>1. PICK lists \in SUBSET scanlists[p] :
          due' = [due EXCEPT ![p] = Calls({t \in OnLists(p) : scanlist[t] \in lists /\ t \in sized'})]
    BY <1>3 DEF BeginPass
  <2> DEFINE tags == {t \in OnLists(p) : scanlist[t] \in lists /\ t \in sized'}
  <2>2. /\ tags \subseteq Tag /\ \A t \in tags : PlcOf[t] = p
    BY DEF OnLists, TagsOf
  <2>3. \A call \in Calls(tags) : call[2] \in callbacks[call[1]] /\ PlcOf[call[1]] = p
    BY <2>2, CallFacts
  <2>4. \A th \in Callers : due'[th] = IF th = p THEN Calls(tags) ELSE due[th]
    BY <2>1 DEF Types, Callers
  <2>5. /\ UNCHANGED <<callbacks, shell, restarting>>
        /\ \A q \in PLC : scan'[q] = IF q = p THEN "pass" ELSE scan[q]
    BY <1>3 DEF BeginPass, Types
  <2> HIDE DEF tags
  <2> QED
    BY <1>0, <2>3, <2>4, <2>5 DEF Calling, Callers
<1>4. ASSUME NEW p \in PLC, PassFails(p)
      PROVE  Calling'
  <2>1. \A call \in Calls(OnLists(p)) : call[2] \in callbacks[call[1]] /\ PlcOf[call[1]] = p
    BY CallFacts DEF OnLists, TagsOf
  <2>2. \A th \in Callers : due'[th] = IF th = p THEN Calls(OnLists(p)) ELSE due[th]
    BY <1>4 DEF PassFails, Types, Callers
  <2>3. UNCHANGED <<callbacks, shell, restarting, scan>> /\ scan[p] = "pass"
    BY <1>4 DEF PassFails
  <2> QED
    BY <1>0, <2>1, <2>2, <2>3 DEF Calling, Callers
<1>5. ASSUME NEW p \in PLC, EndPass(p)
      PROVE  Calling'
  BY <1>0, <1>5 DEF EndPass, Calling, Types, NoCalls
<1>6. ASSUME NEW th \in Callers, NEW call \in due[th], Callback(th, call)
      PROVE  Calling'
  <2>1. \A other \in Callers : due'[other] \subseteq due[other]
    BY <1>6 DEF Callback, Types
  <2>2. UNCHANGED <<callbacks, shell, restarting, scan>>
    BY <1>6 DEF Callback
  <2> QED
    BY <2>1, <2>2 DEF Calling, Callers
<1>7. ASSUME NEW p \in PLC, RestartsPlc(p)
      PROVE  Calling'
  <2>1. \A call \in Calls(OnLists(p)) : call[2] \in callbacks[call[1]] /\ PlcOf[call[1]] = p
    BY CallFacts DEF OnLists, TagsOf
  <2>2. /\ \A q \in PLC : due'[q] = due[q]
        /\ due'[Shell] \subseteq Calls(OnLists(p))
    BY <1>0, <1>7 DEF RestartsPlc, Types, Callers, NoCalls
  <2>3. UNCHANGED <<callbacks, scan>> /\ shell' = "disconnect" /\ restarting' = p
    BY <1>7 DEF RestartsPlc
  <2> QED
    BY <2>1, <2>2, <2>3 DEF Calling
<1>8. CASE LaunchesTask
  <2>1. restarting \in PLC /\ due[Shell] = {}
    BY <1>8 DEF LaunchesTask, Locking, Types, NoCalls
  <2>2. \A q \in PLC : scan'[q] = "pass" <=> scan[q] = "pass"
    BY <1>8, <2>1 DEF LaunchesTask, Types
  <2>3. UNCHANGED <<callbacks, due>>
    BY <1>8 DEF LaunchesTask
  <2> QED
    BY <2>1, <2>2, <2>3 DEF Calling
<1>9. CASE LocksForRestart \/ EndRestart \/ CallRestart \/ drvEtherIP_initHook
  BY <1>9 DEF LocksForRestart, EndRestart, CallRestart, drvEtherIP_initHook, Calling, Locking
<1>10. CASE \/ drvEtherIP_reset_statistics \/ CallResetStatistics
            \/ (\E p \in PLC : drvEtherIP_define_PLC(p)) \/ UNCHANGED vars
  BY <1>1, <1>10
     DEF drvEtherIP_reset_statistics, LocksForStatistics, ResetsPlc, EndStatistics,
         drvEtherIP_define_PLC, CallResetStatistics, vars
<1> QED
  BY <1>2, <1>3, <1>4, <1>5, <1>6, <1>7, <1>8, <1>9, <1>10
     DEF Next, PLC_scan_task, drvEtherIP_restart, Commands, Callers

LEMMA ServesUnchanged ==
    ASSUME ServesAll, UNCHANGED <<scanlist, elements, link, tag, failures>>
    PROVE  ServesAll'
  BY DEF ServesAll

LEMMA ServesStep ==
    ASSUME Types, Registration, ServesAll, [Next]_vars
    PROVE  ServesAll'
<1> USE DEF structure, records, commands, tasks, locks
<1>1. ASSUME NEW r \in Record, del_record(r)
      PROVE  ServesAll'
  <2>1. /\ \A s \in Record : s # r => tag'[s] = tag[s] /\ link'[s] = link[s]
        /\ tag'[r] = NoTag
        /\ UNCHANGED <<scanlist, elements, failures>>
    BY <1>1 DEF del_record, Types
  <2> QED
    BY <2>1, TagsAssumption DEF ServesAll
<1>2. ASSUME NEW r \in Record, drvEtherIP_add_tag(r)
      PROVE  ServesAll'
  <2>1. PICK t \in Tag : NewTag(r, t) \/ KnownTag(r, t) \/ NewTagFails(r, t) \/ KnownTagFails(r, t)
    BY <1>2 DEF drvEtherIP_add_tag
  <2>2. /\ link' = link
        /\ \A u \in Tag : u # t => scanlist'[u] = scanlist[u] /\ elements'[u] = elements[u]
    BY <2>1 DEF NewTag, KnownTag, NewTagFails, KnownTagFails, PutOnList, MoreElements, Types
  <2>3. PeriodOf(r, link[r]) \in Nat \ {0} /\ ElementsOf(r, link[r]) \in Nat
    BY LinkFacts
  <2>4. \A s \in Record : tag[s] \in Tag => scanlist[tag[s]] # 0
    BY DEF ServesAll
  <2>5. failures \in Nat
    BY FailuresAssumption DEF Types
  <2>6. CASE NewTag(r, t)
    <3>1. /\ scanlist[t] = 0 /\ failures' = failures
          /\ scanlist'[t] = PeriodOf(r, link[r]) /\ elements'[t] = ElementsOf(r, link[r])
          /\ \A s \in Record : tag'[s] = IF s = r THEN t ELSE tag[s]
      BY <2>6 DEF NewTag, PutOnList, Registered, Types
    <3> QED
      BY <2>2, <2>3, <2>4, <3>1, TagsAssumption DEF ServesAll
  <2>7. CASE KnownTag(r, t)
    <3>1. /\ failures' = failures
          /\ \A s \in Record : tag'[s] = IF s = r THEN t ELSE tag[s]
          /\ scanlist[t] \in Nat \ {0} /\ elements[t] \in Nat
      BY <2>7, PeriodAssumption DEF KnownTag, Registered, Types
    <3>2. /\ scanlist'[t] \in 1 .. PeriodOf(r, link[r])
          /\ scanlist'[t] <= scanlist[t]
      BY <2>3, <2>7, <3>1 DEF KnownTag, PutOnList, Types
    <3>3. /\ elements'[t] \in Nat /\ elements'[t] >= ElementsOf(r, link[r])
          /\ elements'[t] >= elements[t]
      BY <2>3, <2>7, <3>1 DEF KnownTag, MoreElements, Larger, Types
    <3>4. ASSUME NEW s \in Record, s # r, tag[s] = t
          PROVE  /\ scanlist'[t] \in 1 .. PeriodOf(s, link[s])
                 /\ elements'[t] >= ElementsOf(s, link[s])
      <4>1. /\ scanlist[t] \in 1 .. PeriodOf(s, link[s])
            /\ elements[t] >= ElementsOf(s, link[s])
        BY <3>4 DEF ServesAll
      <4>2. PeriodOf(s, link[s]) \in Nat /\ ElementsOf(s, link[s]) \in Nat
        BY LinkFacts
      <4> QED
        BY <3>1, <3>2, <3>3, <4>1, <4>2
    <3> QED
      BY <2>2, <3>1, <3>2, <3>3, <3>4, TagsAssumption DEF ServesAll
  <2>8. CASE NewTagFails(r, t)
    <3>1. failures' = failures + 1 /\ UNCHANGED <<scanlist, elements, tag>>
      BY <2>8 DEF NewTagFails, Fails
    <3> QED
      BY <2>2, <2>5, <3>1 DEF ServesAll
  <2>9. CASE KnownTagFails(r, t)
    <3>1. /\ failures' = failures + 1
          /\ \A s \in Record : tag'[s] = IF tag[s] = t THEN Orphan ELSE tag[s]
      BY <2>9 DEF KnownTagFails, Fails, Types
    <3> QED
      BY <2>2, <2>5, <3>1, TagsAssumption DEF ServesAll
  <2> QED
    BY <2>1, <2>6, <2>7, <2>8, <2>9
<1>3. ASSUME NEW r \in Record, drvEtherIP_add_callback(r)
      PROVE  ServesAll'
  <2>1. UNCHANGED <<scanlist, elements, link, tag>> /\ (failures' = failures \/ failures' = failures + 1)
    BY <1>3 DEF drvEtherIP_add_callback, AddsCallback, Fails
  <2>2. failures \in Nat
    BY FailuresAssumption DEF Types
  <2> QED
    BY <2>1, <2>2 DEF ServesAll
<1>4. ASSUME NEW r \in Record, NewRecord(r) \/ dbPutField(r) \/ drvEtherIP_find_PLC(r)
      PROVE  ServesAll'
  BY <1>4, ServesUnchanged DEF NewRecord, dbPutField, drvEtherIP_find_PLC
<1>5. ASSUME NEW p \in PLC, PLC_scan_task(p)
      PROVE  ServesAll'
  BY <1>5, ServesUnchanged DEF PLC_scan_task, BeginPass, PassFails, EndPass, Callback
<1>6. CASE \/ \E call \in due[Shell] : Callback(Shell, call)
           \/ drvEtherIP_restart \/ drvEtherIP_reset_statistics \/ Commands
  BY <1>6, ServesUnchanged
     DEF Callback, drvEtherIP_restart, LocksForRestart, RestartsPlc, LaunchesTask, EndRestart,
         drvEtherIP_reset_statistics, LocksForStatistics, ResetsPlc, EndStatistics,
         Commands, drvEtherIP_define_PLC, drvEtherIP_initHook, CallRestart, CallResetStatistics
<1>7. CASE UNCHANGED vars
  BY <1>7, ServesUnchanged DEF vars
<1> QED
  BY <1>1, <1>2, <1>3, <1>4, <1>5, <1>6, <1>7 DEF Next, RecordStep
-----------------------------------------------------------------------------
LEMMA Initially == Init => IInv
<1> SUFFICES ASSUME Init PROVE IInv
  OBVIOUS
<1> USE DEF Init
<1>1. Types
  <2>1. 0 \in 0 .. MaxFailures
    BY FailuresAssumption
  <2>2. link \in [Record -> AllLinks] /\ \A r \in Record : link[r] \in LinksFor[r]
    OBVIOUS
  <2> QED
    BY <2>1, <2>2, PeriodAssumption DEF Types, NoCalls
<1>2. Locking
  BY ThreadsAssumption DEF Locking
<1>3. Registration
  BY TagsAssumption DEF Registration
<1>4. Calling
  BY DEF Calling, NoCalls, Callers
<1>5. ServesAll
  BY TagsAssumption DEF ServesAll
<1>6. OneHolder
  BY DEF OneHolder
<1> QED
  BY <1>1, <1>2, <1>3, <1>4, <1>5, <1>6 DEF IInv

LEMMA TypeStep ==
    ASSUME Types, Locking, Registration, [Next]_vars
    PROVE  Types'
<1>1. CASE UNCHANGED vars
  BY <1>1 DEF vars, structure, records, commands, tasks, locks, Types
<1>2. CASE Next
  BY <1>2, TypeOfRecords, TypeOfTags, TypeOfCallbacks, TypeOfPasses, TypeOfCommands
     DEF Next, RecordStep
<1> QED
  BY <1>1, <1>2

(* The threads that take a lock set find nobody there; all others keep or    *)
(* leave theirs.                                                             *)
LEMMA HolderStep ==
    ASSUME Types, Locking, OneHolder, [Next]_vars
    PROVE  OneHolder'
<1> USE DEF structure, records, commands, tasks, locks
<1>1. ASSUME databaseIsReady' = databaseIsReady,
             stats # "idle" \/ stats' = "idle",
             \A r \in Record : \/ step'[r] = step[r] \/ step'[r] = "idle"
                               \/ step[r] \notin {"new", "idle"} /\ step'[r] # "new"
      PROVE  OneHolder'
  BY <1>1 DEF OneHolder
<1>2. ASSUME NEW r \in Record, dbPutField(r)
      PROVE  OneHolder'
  <2>1. /\ \A s \in Record : LockSet[s] = LockSet[r] => step[s] = "idle"
        /\ LockSet[Stats] = LockSet[r] => stats = "idle"
        /\ step' = [step EXCEPT ![r] = "delete"]
        /\ UNCHANGED <<stats, databaseIsReady>>
    BY <1>2 DEF dbPutField, Holding
  <2>2. \A s \in Record : step'[s] = IF s = r THEN "delete" ELSE step[s]
    BY <2>1 DEF Types
  <2> QED
    BY <2>1, <2>2 DEF OneHolder
<1>3. CASE CallResetStatistics
  <2>1. /\ \A s \in Record : LockSet[s] = LockSet[Stats] => step[s] = "idle"
        /\ UNCHANGED <<step, databaseIsReady>>
    BY <1>3 DEF CallResetStatistics, Holding
  <2> QED
    BY <2>1 DEF OneHolder
<1>4. CASE drvEtherIP_initHook
  BY <1>4 DEF drvEtherIP_initHook, OneHolder
<1>5. ASSUME NEW r \in Record, NewRecord(r) \/ RecordStep(r)
      PROVE  OneHolder'
  <2>1. UNCHANGED <<databaseIsReady, stats>>
    BY <1>5 DEF NewRecord, RecordStep, del_record, drvEtherIP_find_PLC, drvEtherIP_add_tag,
                drvEtherIP_add_callback
  <2>2. CASE ~databaseIsReady
    BY <2>1, <2>2 DEF OneHolder
  <2>3. CASE databaseIsReady
    <3>1. /\ \A s \in Record : s # r => step'[s] = step[s]
          /\ step[r] \notin {"new", "idle"} /\ step'[r] # "new"
      BY <1>5, <2>3
         DEF NewRecord, RecordStep, del_record, drvEtherIP_find_PLC, drvEtherIP_add_tag,
             drvEtherIP_add_callback, NewTag, KnownTag, NewTagFails, KnownTagFails, Adding,
             Registered, NotRegistered, Types
    <3> QED
      BY <1>1, <2>1, <3>1
  <2> QED
    BY <2>2, <2>3
<1>6. ASSUME NEW p \in PLC, PLC_scan_task(p)
      PROVE  OneHolder'
  BY <1>1, <1>6 DEF PLC_scan_task, BeginPass, PassFails, EndPass, Callback
<1>7. CASE drvEtherIP_reset_statistics
  BY <1>1, <1>7 DEF drvEtherIP_reset_statistics, LocksForStatistics, ResetsPlc, EndStatistics
<1>8. CASE \/ \E call \in due[Shell] : Callback(Shell, call)
           \/ drvEtherIP_restart \/ CallRestart \/ \E p \in PLC : drvEtherIP_define_PLC(p)
  BY <1>1, <1>8
     DEF Callback, drvEtherIP_restart, LocksForRestart, RestartsPlc, LaunchesTask, EndRestart,
         CallRestart, drvEtherIP_define_PLC
<1>9. CASE UNCHANGED vars
  BY <1>1, <1>9 DEF vars
<1> QED
  BY <1>2, <1>3, <1>4, <1>5, <1>6, <1>7, <1>8, <1>9 DEF Next, Commands

LEMMA Inductive == IInv /\ [Next]_vars => IInv'
  BY TypeStep, HolderStep, LockingStep, RegistrationStep, CallingStep, ServesStep DEF IInv

(* The driver keeps its books and its locks in order, for any number of      *)
(* PLCs, tags and records and any links.                                     *)
THEOREM RegistryInductive == Spec => []IInv
  BY Initially, Inductive, PTL DEF Spec

(* drvEtherIP_add_tag: every tag is on the list of its PLC that its period   *)
(* names. PLC_scan_task, drvEtherIP_restart, drvEtherIP_reset_statistics:    *)
(* scan tasks and commands hold the locks of what they are doing.            *)
THEOREM RegistryTypes == Spec => []TypeOK
<1>1. IInv => TypeOK
  BY DEF IInv, Locking, HoldsLocks, TypeOK
<1> QED
  BY <1>1, RegistryInductive, PTL

(* drvEtherIP_add_tag: all records of a tag get the rate and the elements    *)
(* that they ask for.                                                        *)
THEOREM AllServed == Spec => []ServesAll
<1>1. IInv => ServesAll
  BY DEF IInv
<1> QED
  BY <1>1, RegistryInductive, PTL

(* drvEtherIP_add_callback, drvEtherIP_remove_callback: no callback for a    *)
(* record that has left its tag, none missing.                               *)
THEOREM CallbacksExact == Spec => []CallsItsRecords
<1>1. ASSUME IInv PROVE CallsItsRecords
  <2>1. \A t \in Tag : \A r \in callbacks[t] : tag[r] = t /\ TagOf(r, link[r]) = t
    BY <1>1 DEF IInv, Types, Registration
  <2>2. \A th \in Callers : \A call \in due[th] : call[2] \in callbacks[call[1]]
    BY <1>1 DEF IInv, Calling, Callers
  <2> QED
    BY <1>1, <2>1, <2>2 DEF IInv, Registration, CallsItsRecords
<1> QED
  BY <1>1, RegistryInductive, PTL
-----------------------------------------------------------------------------
LEMMA StructureKept ==
    ASSUME NEW p \in PLC, scanlists'[p] = scanlists[p],
           \A t \in TagsOf(p) : /\ scanlist'[t] = scanlist[t] /\ elements'[t] = elements[t]
                                /\ callbacks'[t] = callbacks[t]
    PROVE  StructureOf(p)' = StructureOf(p)
<1>1. TagsOf(p)' = TagsOf(p)
  BY DEF TagsOf
<1> QED
  BY <1>1 DEF StructureOf

(* The steps that change the structure of a PLC change that of one tag, and  *)
(* need the lock of its PLC, which the scan task holds in a pass.            *)
LEMMA UndisturbedStep ==
    ASSUME IInv, [Next]_vars, NEW p \in PLC, scan[p] = "pass"
    PROVE  StructureOf(p)' = StructureOf(p)
<1> USE DEF structure, records, commands, tasks, locks
<1>1. CASE UNCHANGED <<scanlists, scanlist, elements, callbacks>>
  BY <1>1, StructureKept
<1>2. ASSUME NEW r \in Record, NEW t \in Tag,
             CanLock(PlcOf[t], r) \/ CanLock(PlcOf[t], Self(r))
      PROVE  t \notin TagsOf(p) /\ PlcOf[t] # p /\ PlcOf[t] \in PLC
  BY <1>2, NobodyCalls, TagsAssumption DEF IInv, TagsOf
<1>3. ASSUME NEW r \in Record, del_record(r)
      PROVE  StructureOf(p)' = StructureOf(p)
  <2>1. tag[r] \in Tag => tag[r] \notin TagsOf(p)
    <3> SUFFICES ASSUME tag[r] \in Tag PROVE tag[r] \notin TagsOf(p)
      OBVIOUS
    <3>1. tag[r] = TagOf(r, link[r]) /\ CanLock(PlcOf[tag[r]], r)
      BY <1>3, TagsAssumption DEF del_record, IInv, Registration
    <3> QED
      BY <1>2, <3>1
  <2>2. \A t \in Tag : t # tag[r] => callbacks'[t] = callbacks[t]
    BY <1>3 DEF del_record
  <2>3. UNCHANGED <<scanlists, scanlist, elements>>
    BY <1>3 DEF del_record
  <2> QED
    BY <2>1, <2>2, <2>3, StructureKept DEF TagsOf
<1>4. ASSUME NEW r \in Record, drvEtherIP_add_tag(r)
      PROVE  StructureOf(p)' = StructureOf(p)
  <2>1. PICK t \in Tag : NewTag(r, t) \/ KnownTag(r, t) \/ NewTagFails(r, t) \/ KnownTagFails(r, t)
    BY <1>4 DEF drvEtherIP_add_tag
  <2>2. CanLock(PlcOf[t], Self(r))
    BY <2>1 DEF NewTag, KnownTag, NewTagFails, KnownTagFails, Adding
  <2>3. scanlists'[p] = scanlists[p]
    BY <1>2, <2>1, <2>2 DEF NewTag, KnownTag, NewTagFails, KnownTagFails, PutOnList, IInv, Types
  <2>4. \A u \in Tag : u # t => /\ scanlist'[u] = scanlist[u] /\ elements'[u] = elements[u]
                                /\ callbacks'[u] = callbacks[u]
    BY <2>1 DEF NewTag, KnownTag, NewTagFails, KnownTagFails, PutOnList, MoreElements, IInv, Types
  <2> QED
    BY <1>2, <2>2, <2>3, <2>4, StructureKept DEF TagsOf
<1>5. ASSUME NEW r \in Record, drvEtherIP_add_callback(r)
      PROVE  StructureOf(p)' = StructureOf(p)
  <2>1. UNCHANGED <<scanlists, scanlist, elements>>
    BY <1>5 DEF drvEtherIP_add_callback
  <2>2. \A t \in Tag : t # tag[r] => callbacks'[t] = callbacks[t]
    BY <1>5 DEF drvEtherIP_add_callback, AddsCallback
  <2>3. tag[r] \in Tag => tag[r] \notin TagsOf(p)
    <3> SUFFICES ASSUME tag[r] \in Tag PROVE tag[r] \notin TagsOf(p)
      OBVIOUS
    <3>1. tag[r] = TagOf(r, link[r]) /\ CanLock(PlcOf[tag[r]], Self(r))
      BY <1>5 DEF drvEtherIP_add_callback, AddsCallback, IInv, Registration
    <3> QED
      BY <1>2, <3>1
  <2> QED
    BY <2>1, <2>2, <2>3, StructureKept DEF TagsOf
<1>6. ASSUME NEW r \in Record, NewRecord(r) \/ dbPutField(r) \/ drvEtherIP_find_PLC(r)
      PROVE  UNCHANGED <<scanlists, scanlist, elements, callbacks>>
  BY <1>6 DEF NewRecord, dbPutField, drvEtherIP_find_PLC
<1>7. ASSUME NEW q \in PLC, PLC_scan_task(q)
      PROVE  UNCHANGED <<scanlists, scanlist, elements, callbacks>>
  BY <1>7 DEF PLC_scan_task, BeginPass, PassFails, EndPass, Callback
<1>8. CASE \/ \E call \in due[Shell] : Callback(Shell, call)
           \/ drvEtherIP_restart \/ drvEtherIP_reset_statistics \/ Commands
  BY <1>1, <1>8
     DEF Callback, drvEtherIP_restart, LocksForRestart, RestartsPlc, LaunchesTask, EndRestart,
         drvEtherIP_reset_statistics, LocksForStatistics, ResetsPlc, EndStatistics,
         Commands, drvEtherIP_define_PLC, drvEtherIP_initHook, CallRestart, CallResetStatistics
<1>9. CASE UNCHANGED vars
  BY <1>1, <1>9 DEF vars
<1> QED
  BY <1>1, <1>3, <1>4, <1>5, <1>6, <1>7, <1>8, <1>9 DEF Next, RecordStep

(* PLC_scan_task: whatever it has read of a list or of a tag is still true   *)
(* at the end of its pass.                                                   *)
THEOREM PassesUndisturbed == Spec => PassUndisturbed
<1>1. IInv /\ [Next]_vars => [\A p \in PLC : scan[p] = "pass" => StructureOf(p)' = StructureOf(p)]_vars
  BY UndisturbedStep
<1> QED
  BY <1>1, RegistryInductive, PTL DEF Spec, PassUndisturbed
-----------------------------------------------------------------------------
LEMMA WaitsByThread ==
    /\ \A p \in PLC : WaitsFor(p) = PlcWaits(p)
    /\ \A r \in Record : WaitsFor(r) = RecordWaits(r)
    /\ WaitsFor(Shell) = ShellWaits /\ WaitsFor(Stats) = StatsWaits
  BY ThreadsAssumption DEF WaitsFor

(* The holder of a PLC.lock is in a pass or in a restart, and waits only for *)
(* the records that it calls; the holder of the other lock needs a PLC.lock. *)
(* So nothing closes a circle but the holder of the lock set that a callback *)
(* waits for, while it needs the lock of the PLC itself. If that is the      *)
(* output record of the callback, then it is still in del_record.            *)
LEMMA NoOtherCircle ==
    ASSUME IInv, NEW threads \in SUBSET Threads, Circle(threads),
           \A o \in Output : \A th \in threads \cap Holding(LockSet[o]) :
                th = o /\ step[o] # "delete",
           \A p \in kept : plcLock[p] \notin threads
    PROVE  FALSE
<1> USE DEF IInv
<1>1. ASSUME NEW th \in threads PROVE WaitsFor(th) \cap threads # {}
  BY DEF Circle
<1>2. ASSUME NEW th \in Callers PROVE WaitsForCallback(th) \cap threads = {}
  <2> SUFFICES ASSUME NEW call \in due[th], Blocked(call),
                      NEW holder \in threads \cap Holding(LockSet[call[2]])
               PROVE  FALSE
    BY DEF WaitsForCallback
  <2>1. call[1] \in Tag /\ call[2] \in Record
    BY <1>2 DEF Types
  <2>2. call[2] \in callbacks[call[1]]
    BY <1>2 DEF Calling, Callers
  <2>3. step[call[2]] \in {"idle", "delete"}
    BY <2>1, <2>2 DEF Registration
  <2>4. holder = call[2] /\ step[call[2]] # "delete"
    BY DEF Blocked
  <2>5. step[holder] # "idle"
    BY <2>1, <2>4, ThreadsAssumption DEF Holding
  <2> QED
    BY <2>3, <2>4, <2>5
<1>3. ASSUME NEW p \in PLC PROVE plcLock[p] \notin threads
  <2> SUFFICES ASSUME plcLock[p] \in threads PROVE FALSE
    OBVIOUS
  <2>1. p \notin kept /\ plcLock[p] # Free
    BY ThreadsAssumption DEF Threads
  <2>2. plcLock[p] = p \/ plcLock[p] = Shell
    BY <2>1 DEF Locking
  <2>3. CASE plcLock[p] = p
    <3>1. scan[p] = "pass" /\ WaitsFor(p) = PlcWaits(p)
      BY <2>3, WaitsByThread DEF Locking
    <3> QED
      BY <1>1, <1>2, <2>3, <3>1 DEF PlcWaits, Callers
  <2>4. CASE plcLock[p] = Shell
    <3>1. shell = "disconnect" /\ WaitsFor(Shell) = ShellWaits
      BY <2>1, <2>4, ThreadsAssumption, WaitsByThread DEF Locking
    <3> QED
      BY <1>1, <1>2, <2>4, <3>1 DEF ShellWaits, Callers
  <2> QED
    BY <2>2, <2>3, <2>4
<1>4. ASSUME NEW p \in PLC, NEW th PROVE Holder(p, th) \cap threads = {}
  BY <1>3 DEF Holder
<1>5. ASSUME NEW th \in {Shell, Stats} PROVE WaitsForAll(th) \cap threads = {}
  BY <1>4 DEF WaitsForAll, Types
<1>6. ASSUME Shell \in threads PROVE shell = "call" /\ privateLock \in threads
  <2>1. ShellWaits \cap threads # {}
    BY <1>1, <1>6, WaitsByThread
  <2> QED
    BY <1>2, <1>5, <2>1 DEF ShellWaits, WaitsForPrivate, Types, Callers
<1>7. ASSUME Stats \in threads PROVE stats = "call" /\ privateLock \in threads
  <2>1. StatsWaits \cap threads # {}
    BY <1>1, <1>7, WaitsByThread
  <2> QED
    BY <1>5, <2>1 DEF StatsWaits, WaitsForPrivate, Types
<1>8. privateLock \notin threads
  BY <1>6, <1>7, ThreadsAssumption DEF Locking, Types, Threads
<1>9. ASSUME NEW p \in PLC PROVE p \notin threads
  BY <1>1, <1>2, <1>4, WaitsByThread DEF PlcWaits, Types, Callers
<1>10. ASSUME NEW r \in Record PROVE r \notin threads
  <2> SUFFICES ASSUME r \in threads PROVE FALSE
    OBVIOUS
  <2>1. RecordWaits(r) \cap threads # {}
    BY <1>1, WaitsByThread
  <2>2. WaitsForPrivate(r) \cap threads = {}
    BY <1>8 DEF WaitsForPrivate
  <2>3. step[r] \in {"delete", "add", "callback"} /\ (step[r] = "delete" => tag[r] # NoTag)
    BY <2>1, <2>2 DEF RecordWaits, Types
  <2>4. TagOf(r, link[r]) \in Tag
    BY <2>3 DEF Registration
  <2>5. Holder(PlcOf[TagOf(r, link[r])], r) \cap threads = {}
    BY <1>4, <2>4, TagsAssumption
  <2> QED
    BY <2>1, <2>3, <2>5 DEF RecordWaits
<1> QED
  BY <1>6, <1>7, <1>8, <1>9, <1>10 DEF Circle, Threads

(* The order of the locks in drvEtherIP.c is kept by all threads but those   *)
(* that hold the lock set of an output record (dbScanLock, which callbacks   *)
(* take, too) to change a link or to reset the statistics.                   *)
THEOREM DeadlocksOnlyByLinks == Spec => []OnlyLinksDeadlock
<1>1. ASSUME IInv PROVE OnlyLinksDeadlock
  BY <1>1, NoOtherCircle DEF OnlyLinksDeadlock
<1> QED
  BY <1>1, RegistryInductive, PTL

-----------------------------------------------------------------------------
(* The data of the tags *)

\* Records that share an array only change their own bits (put_bits, get_bits, analyze_link),
\* and those that read bits see what they wrote; the first of several bits is only seen
\* where it is bit 0 of its word.
THEOREM BitsAlwaysOwn == Spec => []BitsAreOwn
  <1>1. BitsAreOwn
    BY AllBitsAreOwn DEF BitsAreOwn
  <1> QED BY <1>1, PTL

\* What a record writes comes back to it, and is not written again (ao_write,
\* check_ao_callback and the others).
THEOREM ValuesAlwaysComeBack == Spec => []ValueComesBack
  <1>1. ValueComesBack
    BY AllValuesComeBack DEF ValueComesBack
  <1> QED BY <1>1, PTL

\* A text stays within its tag, and comes back to a record on its first element (so_write,
\* lso_write).
THEOREM TextsAlwaysComeBack == Spec => []TextComesBack
  <1>1. TextComesBack
    BY AllTextsComeBack DEF TextComesBack
  <1> QED BY <1>1, PTL
=============================================================================
