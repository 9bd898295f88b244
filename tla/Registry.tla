------------------------------ MODULE Registry ------------------------------
(* What the driver knows: PLCs, their scan lists, the tags on them and the   *)
(* callbacks of records, how records register and change, and the locks      *)
(* under which the threads do it:                                            *)
(*   - a scan task for each PLC, which calls back while it holds PLC.lock;   *)
(*   - Shell, the main thread: loads the records, starts the scan tasks, and *)
(*     runs the commands define_PLC and restart;                             *)
(*   - Stats, the thread of a bo record that resets the statistics (or, with *)
(*     a lock set that no record has, any other walk over all PLCs: the      *)
(*     commands dump, list and describe);                                    *)
(*   - for each record the thread that changes its link.                     *)
(* The last two hold the lock of the set of linked records that the record   *)
(* is in; a callback of an output record takes the lock of its set, too.     *)
(* A function that takes one lock and gives it back is one step, possible    *)
(* when the lock is free; locks that are kept over several steps are         *)
(* variables. Mutexes are recursive.                                         *)
EXTENDS Integers, FiniteSets

CONSTANTS
    PLC,          \* names of PLCs, also of their scan tasks
    Tag,          \* names of tags
    PlcOf,        \* the PLC of a tag
    Period,       \* periods of scan lists
    Record,       \* records, also the threads that change their links
    Output,       \* output records
    IoIntr,       \* input records with SCAN = I/O Intr
    LinksFor,     \* of each record, the texts that its link may get
    Analysed,     \* what analyze_link makes of such a text for the record
    LockSet,      \* of each record and of Stats, the set of records it is in
    NoTag,        \* ... which names no PLC and tag, or cannot be parsed
    Orphan,       \* a TagInfo that fell off all lists
    Shell, Stats, Free,
    MaxFailures   \* bound of failing allocations

Threads == PLC \cup Record \cup {Shell, Stats}
AllLinks == UNION {LinksFor[r] : r \in Record}
TagOf(r, l)      == Analysed[r][l].tag
PeriodOf(r, l)   == Analysed[r][l].period
ElementsOf(r, l) == Analysed[r][l].elements

ASSUME TagsAssumption ==
    /\ PlcOf \in [Tag -> PLC]
    /\ NoTag \notin Tag /\ Orphan \notin Tag /\ NoTag # Orphan
ASSUME PeriodAssumption == Period \subseteq Nat \ {0}
ASSUME RecordsAssumption == Output \subseteq Record /\ IoIntr \subseteq Record \ Output
ASSUME AnalysedAssumption ==
    \A r \in Record : \A l \in LinksFor[r] :
        /\ TagOf(r, l) \in Tag \cup {NoTag}
        /\ PeriodOf(r, l) \in Period
        /\ ElementsOf(r, l) \in Nat
ASSUME ThreadsAssumption ==
    /\ PLC \cap Record = {}
    /\ Shell \notin PLC \cup Record \cup {Stats, Free}
    /\ Stats \notin PLC \cup Record \cup {Free}
    /\ Free \notin PLC \cup Record
ASSUME FailuresAssumption == MaxFailures \in Nat

VARIABLES
    PLCs,         \* the PLCs that are defined
    databaseIsReady,
    scan,         \* of each PLC, whether its scan task is off, idle or in a pass
    connected,    \* PLCs with an open connection
    scanlists,    \* periods of the scan lists of each PLC
    scanlist,     \* of each tag, the period of the list it is on; 0 without
    elements,     \* of each tag, how many are read
    sized,        \* tags with sizes of requests: the others are skipped
    callbacks,    \* of each tag, the records to call back
    link,         \* of each record, its text
    tag,          \* of each record, its TagInfo
    step,         \* of each record, how far its registration has come
    shell, stats, \* what these threads do
    todo,         \* of both, the PLCs still to come
    restarting,   \* the PLC that Shell disconnects, or Free
    due,          \* of scan tasks and Shell, the callbacks still to be made
    privateLock, plcLock,   \* who holds drvEtherIP_private.lock, PLC.lock
    kept,         \* PLCs whose lock will never be released
    failures

structure == <<scanlists, scanlist, elements, sized, callbacks>>
records == <<link, tag, step>>
commands == <<PLCs, databaseIsReady, shell, stats, todo, restarting>>
tasks == <<scan, connected, due>>
locks == <<privateLock, plcLock, kept>>
vars == <<structure, records, commands, tasks, locks, failures>>

NoCalls == {}
Callers == PLC \cup {Shell}

Init ==
    /\ PLCs = {} /\ databaseIsReady = FALSE
    /\ scan = [p \in PLC |-> "off"] /\ connected = {}
    /\ scanlists = [p \in PLC |-> {}]
    /\ scanlist = [t \in Tag |-> 0] /\ elements = [t \in Tag |-> 0] /\ sized = {}
    /\ callbacks = [t \in Tag |-> {}]
    /\ link \in {f \in [Record -> AllLinks] : \A r \in Record : f[r] \in LinksFor[r]}
    /\ tag = [r \in Record |-> NoTag]
    /\ step = [r \in Record |-> "new"]
    /\ shell = "idle" /\ stats = "idle" /\ restarting = Free
    /\ todo = [th \in {Shell, Stats} |-> {}]
    /\ due = [th \in Callers |-> NoCalls]
    /\ privateLock = Free /\ plcLock = [p \in PLC |-> Free] /\ kept = {}
    /\ failures = 0

(* Until the database is ready the main thread does everything, one record   *)
(* after the other.                                                          *)
Busy == {r \in Record : step[r] \notin {"new", "idle"}}
Self(r) == IF databaseIsReady THEN r ELSE Shell
ShellFree == shell = "idle" /\ (databaseIsReady \/ Busy = {})

CanLock(p, th) == plcLock[p] \in {Free, th}
Release(p, th) == [plcLock EXCEPT ![p] = IF p \in kept THEN th ELSE Free]

TagsOf(p) == {t \in Tag : PlcOf[t] = p}
Calls(tags) == {call \in tags \X Record : call[2] \in callbacks[call[1]]}
OnLists(p) == {t \in TagsOf(p) : scanlist[t] # 0}

(* EPICS base: the threads that hold a lock set, dbScanLock, from the put to *)
(* a link until the record is added again, or while the record is processed. *)
Holding(set) == {r \in Record : LockSet[r] = set /\ step[r] # "idle"}
                    \cup {th \in {Stats} : LockSet[th] = set /\ stats # "idle"}

(* scan_callback takes no lock; the others take that of their record's set.  *)
Blocked(call) == call[2] \in Output /\ Holding(LockSet[call[2]]) # {}
-----------------------------------------------------------------------------
(* Registering a record. *)

NewRecord(r) ==
    /\ ~databaseIsReady /\ step[r] = "new" /\ Busy = {}
    /\ step' = [step EXCEPT ![r] = "find"]
    /\ UNCHANGED <<structure, link, tag, commands, tasks, locks, failures>>

(* EPICS base: a put to the link of a record. *)
dbPutField(r) ==
    /\ databaseIsReady /\ Holding(LockSet[r]) = {}
    /\ step' = [step EXCEPT ![r] = "delete"]
    /\ UNCHANGED <<structure, link, tag, commands, tasks, locks, failures>>

(* del_record that frees the DevicePrivate of an input only. *)
del_record_KeepsCallback(r) ==
    /\ step[r] = "delete"
    /\ tag' = [tag EXCEPT ![r] = NoTag]
    /\ step' = [step EXCEPT ![r] = "find"]
    /\ \E l \in LinksFor[r] : link' = [link EXCEPT ![r] = l]
    /\ UNCHANGED <<structure, commands, tasks, locks, failures>>

(* The callback is removed under PLC.lock, then the DevicePrivate is freed.  *)
(* EPICS base stores the new text before it adds the record again.           *)
del_record(r) ==
    /\ step[r] = "delete"
    /\ tag[r] # NoTag => CanLock(PlcOf[TagOf(r, link[r])], r)
    /\ callbacks' = [t \in Tag |-> IF t = tag[r] THEN callbacks[t] \ {r} ELSE callbacks[t]]
    /\ tag' = [tag EXCEPT ![r] = NoTag]
    /\ step' = [step EXCEPT ![r] = "find"]
    /\ \E l \in LinksFor[r] : link' = [link EXCEPT ![r] = l]
    /\ UNCHANGED <<scanlists, scanlist, elements, sized, commands, tasks, locks, failures>>

Known(r) == TagOf(r, link[r]) \in Tag /\ PlcOf[TagOf(r, link[r])] \in PLCs

(* The PLC must be known; a link that cannot be parsed ends before.          *)
drvEtherIP_find_PLC(r) ==
    /\ step[r] = "find"
    /\ TagOf(r, link[r]) # NoTag => privateLock = Free
    /\ step' = [step EXCEPT ![r] = IF Known(r) THEN "add" ELSE "idle"]
    /\ UNCHANGED <<structure, link, tag, commands, tasks, locks, failures>>

Larger(m, n) == IF m > n THEN m ELSE n

(* PutOnList that forgets to append a list that is new. *)
PutOnList_Forgets(r, t) ==
    /\ scanlists' = scanlists
    /\ scanlist' = [scanlist EXCEPT ![t] = PeriodOf(r, link[r])]

(* The list gets the tag, and is created if need be. *)
PutOnList(r, t) ==
    /\ scanlists' = [scanlists EXCEPT ![PlcOf[t]] = @ \cup {PeriodOf(r, link[r])}]
    /\ scanlist' = [scanlist EXCEPT ![t] = PeriodOf(r, link[r])]

Registered(r, t) ==
    /\ tag' = [tag EXCEPT ![r] = t]
    /\ step' = [step EXCEPT ![r] = "callback"]

NotRegistered(r) == step' = [step EXCEPT ![r] = "idle"]

Adding(r, t) ==
    /\ step[r] = "add" /\ t = TagOf(r, link[r]) /\ t \in Tag
    /\ CanLock(PlcOf[t], Self(r))

NewTag(r, t) ==
    /\ Adding(r, t) /\ scanlist[t] = 0
    /\ PutOnList(r, t)
    /\ elements' = [elements EXCEPT ![t] = ElementsOf(r, link[r])]
    /\ sized' = sized \ {t}
    /\ Registered(r, t)
    /\ UNCHANGED <<callbacks, failures, link>>

(* MoreElements that takes the number of the record that comes last. *)
MoreElements_Last(r, t) == elements' = [elements EXCEPT ![t] = ElementsOf(r, link[r])]

MoreElements(r, t) == elements' = [elements EXCEPT ![t] = Larger(@, ElementsOf(r, link[r]))]

KnownTag(r, t) ==
    /\ Adding(r, t) /\ scanlist[t] # 0
    /\ IF scanlist[t] > PeriodOf(r, link[r]) THEN PutOnList(r, t)
                                             ELSE UNCHANGED <<scanlists, scanlist>>
    /\ MoreElements(r, t)
    /\ Registered(r, t)
    /\ UNCHANGED <<sized, callbacks, failures, link>>

Fails == failures < MaxFailures /\ failures' = failures + 1

(* No memory for a new tag, or for the list that it should get. *)
NewTagFails(r, t) ==
    /\ Adding(r, t) /\ scanlist[t] = 0 /\ Fails
    /\ \/ scanlists' = scanlists
       \/ scanlists' = [scanlists EXCEPT ![PlcOf[t]] = @ \cup {PeriodOf(r, link[r])}]
    /\ NotRegistered(r)
    /\ UNCHANGED <<scanlist, elements, sized, callbacks, link, tag>>

(* No memory for the faster list: the tag has left its old one already. All  *)
(* its records keep the TagInfo, which no thread will look at any more. The  *)
(* next record that names the tag gets a new one.                            *)
KnownTagFails(r, t) ==
    /\ Adding(r, t) /\ scanlist[t] > PeriodOf(r, link[r])
    /\ PeriodOf(r, link[r]) \notin scanlists[PlcOf[t]] /\ Fails
    /\ scanlist' = [scanlist EXCEPT ![t] = 0]
    /\ callbacks' = [callbacks EXCEPT ![t] = {}]
    /\ sized' = sized \ {t}
    /\ tag' = [x \in Record |-> IF tag[x] = t THEN Orphan ELSE tag[x]]
    /\ NotRegistered(r)
    /\ UNCHANGED <<scanlists, elements, link>>

drvEtherIP_add_tag(r) ==
    /\ \E t \in Tag : NewTag(r, t) \/ KnownTag(r, t) \/ NewTagFails(r, t) \/ KnownTagFails(r, t)
    /\ UNCHANGED <<commands, tasks, locks>>

(* Input records only ask for callbacks with SCAN = I/O Intr. *)
AsksCallback(r) == r \in Output \cup IoIntr

(* drvEtherIP_add_callback without PLC.lock. *)
AddsCallback_Unlocked(r) ==
    /\ callbacks' = [t \in Tag |-> IF t = tag[r] /\ AsksCallback(r) THEN callbacks[t] \cup {r}
                                   ELSE callbacks[t]]
    /\ UNCHANGED <<plcLock, kept, failures>>

(* ... or, when there is no memory for it, the lock is never released. *)
AddsCallback(r) ==
    LET plc == PlcOf[TagOf(r, link[r])]
    IN  /\ CanLock(plc, Self(r))
        /\ \/ /\ callbacks' = [t \in Tag |-> IF t = tag[r] /\ AsksCallback(r)
                                             THEN callbacks[t] \cup {r} ELSE callbacks[t]]
              /\ UNCHANGED <<plcLock, kept, failures>>
           \/ /\ AsksCallback(r) /\ Fails
              /\ plcLock' = [plcLock EXCEPT ![plc] = Self(r)]
              /\ kept' = kept \cup {plc}
              /\ callbacks' = callbacks

drvEtherIP_add_callback(r) ==
    /\ step[r] = "callback"
    /\ AddsCallback(r)
    /\ step' = [step EXCEPT ![r] = "idle"]
    /\ UNCHANGED <<scanlists, scanlist, elements, sized, link, tag, commands, tasks, privateLock>>
-----------------------------------------------------------------------------
(* Calling back, from a scan task or from a restart. *)

Callback(th, call) ==
    /\ call \in due[th] /\ ~Blocked(call)
    /\ due' = [due EXCEPT ![th] = @ \ {call}]
    /\ UNCHANGED <<structure, records, commands, scan, connected, locks, failures>>

(* One pass of the scan task: it connects if need be, which determines the   *)
(* sizes of all tags on lists, and transfers the lists that are due.         *)
BeginPass(p) ==
    /\ scan[p] = "idle" /\ CanLock(p, p)
    /\ plcLock' = [plcLock EXCEPT ![p] = p]
    /\ scan' = [scan EXCEPT ![p] = "pass"]
    /\ connected' = connected \cup {p}
    /\ sized' = IF p \in connected THEN sized ELSE sized \cup OnLists(p)
    /\ \E lists \in SUBSET scanlists[p] :
        due' = [due EXCEPT ![p] = Calls({t \in OnLists(p) : scanlist[t] \in lists /\ t \in sized'})]
    /\ UNCHANGED <<scanlists, scanlist, elements, callbacks, records, commands,
                   privateLock, kept, failures>>

(* A transfer fails: disconnect_PLC tells the records of all tags. *)
PassFails(p) ==
    /\ scan[p] = "pass" /\ p \in connected
    /\ connected' = connected \ {p}
    /\ due' = [due EXCEPT ![p] = Calls(OnLists(p))]
    /\ UNCHANGED <<structure, records, commands, scan, locks, failures>>

EndPass(p) ==
    /\ scan[p] = "pass" /\ due[p] = NoCalls
    /\ plcLock' = Release(p, p)
    /\ scan' = [scan EXCEPT ![p] = "idle"]
    /\ UNCHANGED <<structure, records, commands, connected, due, privateLock, kept, failures>>
-----------------------------------------------------------------------------
(* Commands. *)

drvEtherIP_define_PLC(p) ==
    /\ ShellFree /\ p \notin PLCs /\ privateLock = Free
    /\ PLCs' = PLCs \cup {p}
    /\ UNCHANGED <<structure, records, databaseIsReady, shell, stats, todo, restarting,
                   tasks, locks, failures>>

(* All records are loaded: the scan tasks may start. *)
drvEtherIP_initHook ==
    /\ ~databaseIsReady /\ \A r \in Record : step[r] = "idle"
    /\ databaseIsReady' = TRUE /\ shell' = "call"
    /\ UNCHANGED <<structure, records, PLCs, stats, todo, restarting, tasks, locks, failures>>

CallRestart ==
    /\ databaseIsReady /\ shell = "idle"
    /\ shell' = "call"
    /\ UNCHANGED <<structure, records, PLCs, databaseIsReady, stats, todo, restarting,
                   tasks, locks, failures>>

(* bo_reset_stats, when the record is processed. *)
CallResetStatistics ==
    /\ databaseIsReady /\ Holding(LockSet[Stats]) = {}
    /\ stats' = "call"
    /\ UNCHANGED <<structure, records, PLCs, databaseIsReady, shell, todo, restarting,
                   tasks, locks, failures>>

LocksForRestart ==
    /\ shell = "call" /\ privateLock = Free
    /\ privateLock' = Shell /\ shell' = "loop"
    /\ todo' = [todo EXCEPT ![Shell] = PLCs]
    /\ UNCHANGED <<structure, records, PLCs, databaseIsReady, stats, restarting,
                   tasks, plcLock, kept, failures>>

(* disconnect_PLC; the order of the PLCs is left open. *)
RestartsPlc(p) ==
    /\ shell = "loop" /\ p \in todo[Shell] /\ CanLock(p, Shell)
    /\ plcLock' = [plcLock EXCEPT ![p] = Shell]
    /\ restarting' = p /\ shell' = "disconnect"
    /\ connected' = connected \ {p}
    /\ due' = [due EXCEPT ![Shell] = IF p \in connected THEN Calls(OnLists(p)) ELSE NoCalls]
    /\ UNCHANGED <<structure, records, PLCs, databaseIsReady, stats, todo, scan,
                   privateLock, kept, failures>>

LaunchesTask ==
    /\ shell = "disconnect" /\ due[Shell] = NoCalls
    /\ scan' = [scan EXCEPT ![restarting] = IF @ = "off" THEN "idle" ELSE @]
    /\ plcLock' = Release(restarting, Shell)
    /\ todo' = [todo EXCEPT ![Shell] = @ \ {restarting}]
    /\ shell' = "loop" /\ restarting' = Free
    /\ UNCHANGED <<structure, records, PLCs, databaseIsReady, stats, connected, due,
                   privateLock, kept, failures>>

EndRestart ==
    /\ shell = "loop" /\ todo[Shell] = {}
    /\ privateLock' = Free /\ shell' = "idle"
    /\ UNCHANGED <<structure, records, PLCs, databaseIsReady, stats, todo, restarting,
                   tasks, plcLock, kept, failures>>

drvEtherIP_restart ==
    \/ LocksForRestart
    \/ \E p \in PLC : RestartsPlc(p)
    \/ LaunchesTask \/ EndRestart

(* What it resets matters for the schedule only. *)
LocksForStatistics ==
    /\ stats = "call" /\ privateLock = Free
    /\ privateLock' = Stats /\ stats' = "loop"
    /\ todo' = [todo EXCEPT ![Stats] = PLCs]
    /\ UNCHANGED <<structure, records, PLCs, databaseIsReady, shell, restarting,
                   tasks, plcLock, kept, failures>>

ResetsPlc(p) ==
    /\ stats = "loop" /\ p \in todo[Stats] /\ CanLock(p, Stats)
    /\ todo' = [todo EXCEPT ![Stats] = @ \ {p}]
    /\ UNCHANGED <<structure, records, PLCs, databaseIsReady, shell, stats, restarting,
                   tasks, locks, failures>>

EndStatistics ==
    /\ stats = "loop" /\ todo[Stats] = {}
    /\ privateLock' = Free /\ stats' = "idle"
    /\ UNCHANGED <<structure, records, PLCs, databaseIsReady, shell, todo, restarting,
                   tasks, plcLock, kept, failures>>

drvEtherIP_reset_statistics ==
    LocksForStatistics \/ (\E p \in PLC : ResetsPlc(p)) \/ EndStatistics
-----------------------------------------------------------------------------
RecordStep(r) ==
    del_record(r) \/ drvEtherIP_find_PLC(r) \/ drvEtherIP_add_tag(r) \/ drvEtherIP_add_callback(r)

PLC_scan_task(p) ==
    \/ BeginPass(p) \/ PassFails(p) \/ EndPass(p)
    \/ \E call \in due[p] : Callback(p, call)

Commands ==
    \/ \E p \in PLC : drvEtherIP_define_PLC(p)
    \/ drvEtherIP_initHook \/ CallRestart \/ CallResetStatistics

Next ==
    \/ \E r \in Record : NewRecord(r) \/ dbPutField(r) \/ RecordStep(r)
    \/ \E p \in PLC : PLC_scan_task(p)
    \/ \E call \in due[Shell] : Callback(Shell, call)
    \/ drvEtherIP_restart \/ drvEtherIP_reset_statistics \/ Commands

Spec == Init /\ [][Next]_vars

(* Threads go on, and get a lock that comes free again and again: the scan   *)
(* task sleeps between its passes. Nobody has to change a link or to give a  *)
(* command, no transfer and no allocation has to fail.                       *)
ScanGoesOn(p) ==
    BeginPass(p) \/ EndPass(p) \/ \E call \in due[p] : Callback(p, call)

FairSpec ==
    /\ Spec
    /\ \A p \in PLC : WF_vars(ScanGoesOn(p))
    /\ \A r \in Record : SF_vars(RecordStep(r))
    /\ SF_vars(drvEtherIP_reset_statistics)
    /\ SF_vars(drvEtherIP_restart \/ \E call \in due[Shell] : Callback(Shell, call))
-----------------------------------------------------------------------------
Types ==
    /\ PLCs \subseteq PLC /\ databaseIsReady \in BOOLEAN
    /\ scan \in [PLC -> {"off", "idle", "pass"}]
    /\ connected \subseteq PLC /\ sized \subseteq Tag /\ kept \subseteq PLC
    /\ scanlists \in [PLC -> SUBSET Period]
    /\ scanlist \in [Tag -> Period \cup {0}]
    /\ \A t \in Tag : scanlist[t] # 0 => scanlist[t] \in scanlists[PlcOf[t]]
    /\ elements \in [Tag -> Nat]
    /\ callbacks \in [Tag -> SUBSET Record]
    /\ link \in [Record -> AllLinks] /\ \A r \in Record : link[r] \in LinksFor[r]
    /\ tag \in [Record -> Tag \cup {NoTag, Orphan}]
    /\ step \in [Record -> {"new", "idle", "delete", "find", "add", "callback"}]
    /\ shell \in {"idle", "call", "loop", "disconnect"} /\ stats \in {"idle", "call", "loop"}
    /\ todo \in [{Shell, Stats} -> SUBSET PLC] /\ restarting \in PLC \cup {Free}
    /\ due \in [Callers -> SUBSET (Tag \X Record)]
    /\ privateLock \in {Free, Shell, Stats}
    /\ plcLock \in [PLC -> Threads \cup {Free}]
    /\ failures \in 0 .. MaxFailures

HoldsLocks ==
    /\ \A p \in PLC : scan[p] = "pass" <=> plcLock[p] = p
    /\ shell = "disconnect" <=> restarting # Free
    /\ restarting # Free => plcLock[restarting] = Shell
    /\ shell \in {"loop", "disconnect"} <=> privateLock = Shell
    /\ stats = "loop" <=> privateLock = Stats

(* A tag is on a list of its PLC or on none, and never on two; scan tasks    *)
(* and commands hold the locks that belong to what they are doing: the scan  *)
(* task PLC.lock during its pass, a command drvEtherIP_private.lock while it *)
(* walks over the PLCs, and drvEtherIP_restart the PLC's lock, too, while it *)
(* disconnects it.                                                           *)
TypeOK == Types /\ HoldsLocks

(* A tag is scanned at least as often, and up to as many elements, as every  *)
(* record asks for that was registered with it, however they come and go;    *)
(* a record only loses the scan of its tag when memory runs out              *)
(* (drvEtherIP_add_tag).                                                     *)
ServesAll ==
    \A r \in Record :
        /\ tag[r] \in Tag => /\ scanlist[tag[r]] \in 1 .. PeriodOf(r, link[r])
                             /\ elements[tag[r]] >= ElementsOf(r, link[r])
        /\ tag[r] = Orphan => failures > 0

(* A tag calls back the records whose links name it and no others: whoever   *)
(* is calling finds a DevicePrivate that was not freed or attached to        *)
(* another tag in the meantime (drvEtherIP_add_callback, remove_callback).   *)
CallsItsRecords ==
    /\ \A t \in Tag : \A r \in callbacks[t] : tag[r] = t /\ TagOf(r, link[r]) = t
    /\ \A th \in Callers : \A call \in due[th] : call[2] \in callbacks[call[1]]
    /\ \A r \in Record :
        step[r] = "idle" /\ tag[r] \in Tag /\ AsksCallback(r)
            => r \in callbacks[tag[r]] \/ PlcOf[tag[r]] \in kept

(* While a scan task walks along its lists, nobody changes lists, tags or    *)
(* callbacks of its PLC (the locking rules of drvEtherIP.c).                 *)
StructureOf(p) ==
    <<scanlists[p], [t \in TagsOf(p) |-> <<scanlist[t], elements[t], callbacks[t]>>]>>

PassUndisturbed ==
    [][\A p \in PLC : scan[p] = "pass" => StructureOf(p)' = StructureOf(p)]_vars

(* Whom a thread may have to wait for: the holders of the locks that it      *)
(* needs next. Lists are walked in an order that is left open here, so any   *)
(* callback or PLC still to come may be the next.                            *)
Holder(p, th) == IF CanLock(p, th) THEN {} ELSE {plcLock[p]}

WaitsForCallback(th) == UNION {Holding(LockSet[call[2]]) : call \in {c \in due[th] : Blocked(c)}}

WaitsForPrivate(th) == IF privateLock \in {Free, th} THEN {} ELSE {privateLock}

WaitsForAll(th) == UNION {Holder(p, th) : p \in todo[th]}

RecordWaits(r) ==
    IF ~databaseIsReady \/ step[r] \in {"new", "idle"} THEN {}
    ELSE IF step[r] = "find"
         THEN IF TagOf(r, link[r]) = NoTag THEN {} ELSE WaitsForPrivate(r)
    ELSE IF step[r] = "delete" /\ tag[r] = NoTag THEN {}
    ELSE Holder(PlcOf[TagOf(r, link[r])], r)

PlcWaits(p) ==
    CASE scan[p] = "off"  -> {}
      [] scan[p] = "idle" -> Holder(p, p)
      [] scan[p] = "pass" -> WaitsForCallback(p)

ShellWaits ==
    CASE shell = "idle"       -> {}
      [] shell = "call"       -> WaitsForPrivate(Shell)
      [] shell = "loop"       -> WaitsForAll(Shell)
      [] shell = "disconnect" -> WaitsForCallback(Shell)

StatsWaits ==
    CASE stats = "idle" -> {}
      [] stats = "call" -> WaitsForPrivate(Stats)
      [] stats = "loop" -> WaitsForAll(Stats)

WaitsFor(th) ==
    CASE th \in PLC    -> PlcWaits(th)
      [] th \in Record -> RecordWaits(th)
      [] th = Shell    -> ShellWaits
      [] th = Stats    -> StatsWaits

Circle(threads) ==
    threads # {} /\ \A th \in threads : WaitsFor(th) \cap threads # {}

(* Threads wait for each other for ever only if one of them holds the lock   *)
(* set of an output record, which the order of the locks in drvEtherIP.c     *)
(* does not mention, or has kept a PLC.lock. The former is about to remove   *)
(* the callback of that very record (del_record), or it changes the link of  *)
(* another record of the set, or resets the statistics for one of the set.   *)
OnlyLinksDeadlock ==
    \A threads \in SUBSET {th \in Threads : WaitsFor(th) # {}} :
        Circle(threads) =>
            \/ \E o \in Output : \E th \in threads \cap Holding(LockSet[o]) :
                    th = o => step[o] = "delete"
            \/ \E p \in kept : plcLock[p] \in threads

(* A tag that a record uses is not skipped for ever by a scan task that goes *)
(* on with its passes: a link may be changed while the IOC is running.       *)
Used(t) == \E r \in Record : step[r] = "idle" /\ tag[r] = t

NoTagLeftOut ==
    \A t \in Tag : ~ /\ <>[](Used(t) /\ t \notin sized)
                     /\ []<>(scan[PlcOf[t]] = "pass")
                     /\ []<>(scan[PlcOf[t]] = "idle")
=============================================================================
