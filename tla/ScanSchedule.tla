---------------------------- MODULE ScanSchedule ----------------------------
(***************************************************************************)
(* When the scan task of one PLC scans which list: PLC_scan_task of        *)
(* drvEtherIP.c.  Each round it connects if it has to, walks along the     *)
(* scan lists, scans those that are due, re-schedules them, and sleeps     *)
(* until the next one is due.                                              *)
(*                                                                         *)
(* TagTransfer has the transfers themselves, with any lists due in any     *)
(* round.  Here a transfer is one step that takes some time.  Time is the  *)
(* wall clock, which is never set, and passes in transfers, in attempts to *)
(* connect and in sleep; the task sleeps exactly as long as it asked for.  *)
(***************************************************************************)
EXTENDS Integers

CONSTANTS
    Lists,          \* number of scan lists, which are 1 .. Lists in list order
    Periods,        \* what the periods of the lists may be, no two the same
    Failing,        \* the lists whose transfers may fail
    TransferTimes,  \* how long a transfer may take
    ConnectTimes,   \* how long an attempt to connect may take
    EIP_TIMEOUT,    \* how long to wait after an error
    EIP_MIN_TIMEOUT,\* how long to sleep if there is no list
    MaxDelay,       \* the minute above which a delay is not believed
    Horizon,        \* the model ends at that time
    MaxLate         \* see NotStarved

ScanList == 1 .. Lists

ASSUME ScheduleAssumption ==
    /\ Lists \in Nat
    /\ Periods \subseteq [ScanList -> Nat \ {0}]
    /\ \A p \in Periods : \A k, l \in ScanList : k # l => p[k] # p[l]
    /\ Failing \subseteq ScanList
    /\ TransferTimes \subseteq Nat /\ ConnectTimes \subseteq Nat
    /\ EIP_TIMEOUT \in Nat \ {0} /\ EIP_MIN_TIMEOUT \in Nat \ {0} /\ MaxDelay \in Nat
    /\ Horizon \in Nat /\ MaxLate \in Nat

VARIABLES
    now,             \* the wall clock
    phase,           \* where the scan task is
    connected,       \* connection->sock # 0
    \* ScanList, under PLC.lock
    period,
    scan_time,       \* start of the last scan, 0: none
    scheduled_time,
    \* local variables of PLC_scan_task
    list,
    start_time, next_schedule, reset_next_schedule,
    wake,            \* end of the sleep
    \* history
    promised,        \* scheduled_time without resets of the statistics
    since            \* end of the last attempt to connect that failed, or last reset:
                     \* the later of the two

listVars  == <<period, scan_time, scheduled_time>>
localVars == <<list, start_time, next_schedule, reset_next_schedule>>
history   == <<promised, since>>
vars      == <<now, phase, connected, listVars, localVars, wake, history>>

Phase == {"begin", "pass", "delay", "sleep", "retry", "crashed"}

Init ==
    /\ now = 1
    /\ phase = "begin"
    /\ connected = FALSE
    /\ period \in Periods
    /\ scan_time = [l \in ScanList |-> 0]
    /\ scheduled_time = [l \in ScanList |-> 0]
    /\ list = 1
    /\ start_time = 1
    /\ next_schedule = 0
    /\ reset_next_schedule = TRUE
    /\ wake = 1
    /\ promised = [l \in ScanList |-> 1]
    /\ since = 1

Later(a, b) == IF a < b THEN b ELSE a

\* Time passes, up to the horizon of the model.
Elapse(d) ==
    /\ now + d <= Horizon
    /\ now' = now + d

-----------------------------------------------------------------------------
(* Connect, or stay connected *)

BeginPass ==
    /\ phase = "begin"
    /\ phase' = "pass"
    /\ connected' = TRUE
    /\ \E d \in (IF connected THEN {0} ELSE ConnectTimes) : Elapse(d)
    /\ start_time' = now'
    /\ list' = 1
    /\ reset_next_schedule' = TRUE
    /\ next_schedule' = 0
    /\ UNCHANGED <<listVars, wake, history>>

\* Don't rush since connection takes network bandwidth.
ConnectFails ==
    /\ phase = "begin"
    /\ ~connected
    /\ \E d \in ConnectTimes : Elapse(d)
    /\ wake' = now' + EIP_TIMEOUT
    /\ since' = wake'
    /\ phase' = "retry"
    /\ UNCHANGED <<connected, listVars, localVars, promised>>

-----------------------------------------------------------------------------
(* One list of the pass *)

Due(l) == scheduled_time[l] <= start_time

\* Mutant: the last list that is looked at decides.
EarlierSchedule_Last(l) == scheduled_time'[l]

\* Update time for list that's due next.
EarlierSchedule(l) ==
    IF reset_next_schedule \/ scheduled_time'[l] < next_schedule
    THEN scheduled_time'[l]
    ELSE next_schedule

NextList ==
    /\ next_schedule' = EarlierSchedule(list)
    /\ reset_next_schedule' = FALSE
    /\ list' = list + 1

NotDue ==
    /\ phase = "pass"
    /\ list \in ScanList
    /\ ~Due(list)
    /\ UNCHANGED scheduled_time
    /\ NextList
    /\ UNCHANGED <<now, phase, connected, period, scan_time, start_time, wake, history>>

\* Mutant: catch up on what was missed.
NextScan_CatchUp(l) == scheduled_time[l] + period[l]

\* Re-schedule exactly: relative to the start of this scan.
NextScan(l) == now + period[l]

ScanOk ==
    /\ phase = "pass"
    /\ list \in ScanList
    /\ Due(list)
    /\ \E d \in TransferTimes : Elapse(d)
    /\ scan_time' = [scan_time EXCEPT ![list] = now]
    /\ scheduled_time' = [scheduled_time EXCEPT ![list] = NextScan(list)]
    /\ promised' = [promised EXCEPT ![list] = now + period[list]]
    /\ NextList
    /\ UNCHANGED <<phase, connected, period, start_time, wake, since>>

\* Mutant: try again at once.
NextTry_AtOnce(end_time) == end_time

\* end_time+fixed delay, ignore extra due to error
NextTry(end_time) == end_time + EIP_TIMEOUT

\* Disconnect, and start over with the first list, without a sleep.
ScanFails ==
    /\ phase = "pass"
    /\ list \in Failing
    /\ Due(list)
    /\ \E d \in TransferTimes : Elapse(d)
    /\ scan_time' = [scan_time EXCEPT ![list] = now]
    /\ scheduled_time' = [scheduled_time EXCEPT ![list] = NextTry(now')]
    /\ promised' = [promised EXCEPT ![list] = now' + EIP_TIMEOUT]
    /\ connected' = FALSE
    /\ phase' = "begin"
    /\ UNCHANGED <<period, localVars, wake, since>>

\* PLC.lock is released.
PassDone ==
    /\ phase = "pass"
    /\ list \notin ScanList
    /\ phase' = "delay"
    /\ UNCHANGED <<now, connected, listVars, localVars, wake, history>>

-----------------------------------------------------------------------------
(* Sleep until next turn *)

delay == IF reset_next_schedule THEN EIP_MIN_TIMEOUT ELSE next_schedule - now

Sleep ==
    /\ phase = "delay"
    /\ 0 < delay /\ delay <= MaxDelay
    /\ wake' = now + delay
    /\ phase' = "sleep"
    /\ UNCHANGED <<now, connected, listVars, localVars, history>>

\* Already late: no sleep at all.
Slow ==
    /\ phase = "delay"
    /\ delay <= 0
    /\ phase' = "begin"
    /\ UNCHANGED <<now, connected, listVars, localVars, wake, history>>

\* The message about the problem uses list, which is null behind the loop; where
\* the memory at null is not protected the task goes on and waits.
SchedulingProblem ==
    /\ phase = "delay"
    /\ delay > MaxDelay
    /\ \/ /\ phase' = "crashed"
          /\ UNCHANGED wake
       \/ /\ phase' = "sleep"
          /\ wake' = now + MaxDelay
    /\ UNCHANGED <<now, connected, listVars, localVars, history>>

Wake ==
    /\ phase \in {"sleep", "retry"}
    /\ wake <= Horizon
    /\ now' = wake
    /\ phase' = "begin"
    /\ UNCHANGED <<connected, listVars, localVars, wake, history>>

-----------------------------------------------------------------------------
(* IOC shell: the threads that take PLC.lock between two passes *)

Unlocked == phase \in {"begin", "delay", "sleep", "retry"}

\* Mutant: restart the connection without PLC.lock.
drvEtherIP_restart_Unlocked ==
    /\ connected
    /\ connected' = FALSE
    /\ UNCHANGED <<now, phase, listVars, localVars, wake, history>>

drvEtherIP_restart ==
    /\ Unlocked
    /\ connected
    /\ connected' = FALSE
    /\ UNCHANGED <<now, phase, listVars, localVars, wake, history>>

\* reset_ScanList sets the times of each list to 0.
drvEtherIP_reset_statistics ==
    /\ Unlocked
    /\ scan_time' = [l \in ScanList |-> 0]
    /\ scheduled_time' = [l \in ScanList |-> 0]
    /\ since' = Later(since, now)
    /\ UNCHANGED <<now, phase, connected, period, localVars, wake, promised>>

-----------------------------------------------------------------------------
Next ==
    \/ BeginPass \/ ConnectFails
    \/ NotDue \/ ScanOk \/ ScanFails \/ PassDone
    \/ Sleep \/ Slow \/ SchedulingProblem \/ Wake
    \/ drvEtherIP_restart \/ drvEtherIP_reset_statistics

Spec == Init /\ [][Next]_vars

-----------------------------------------------------------------------------
(* Properties *)

\* Times are times, and the task only walks along the lists while connected,
\* from a time that is not in the future.
TypeOK ==
    /\ now \in Nat /\ start_time \in Nat /\ wake \in Nat /\ next_schedule \in Nat
    /\ phase \in Phase
    /\ connected \in BOOLEAN /\ reset_next_schedule \in BOOLEAN
    /\ period \in Periods
    /\ scan_time \in [ScanList -> Nat]
    /\ scheduled_time \in [ScanList -> Nat]
    /\ promised \in [ScanList -> Nat] /\ since \in Nat
    /\ list \in 1 .. Lists + 1
    /\ phase = "pass" => connected /\ start_time <= now

\* No list is scanned again before its period is over, counted from the start
\* of its last scan, or before the time-out is over after a scan that failed:
\* neither delays nor errors of other lists make it catch up.  Only a reset of
\* the statistics (scan_time is 0 again) starts anew.
PeriodKept ==
    [][\A l \in ScanList :
          scan_time[l] # 0 /\ scan_time'[l] \notin {0, scan_time[l]}
             => scan_time'[l] >= promised[l]]_vars

\* The task does not sleep past the time at which any list is due, whichever
\* lists were scanned in this pass and however long that took.
NoOversleep ==
    phase = "sleep" =>
        \A l \in ScanList : scan_time[l] # 0 => wake <= scheduled_time[l]

\* No list is late by more than MaxLate, since the PLC can be reached and nobody
\* reset the statistics: neither slow nor failing lists keep the others from
\* their turn.
NotStarved == \A l \in ScanList : now <= Later(promised[l], since) + MaxLate

\* How late a list can be if no other list than fails does fail, and if connecting
\* takes less than the time-out: at worst it waits for the others to finish the
\* round in which it comes due, for the lists up to the one that fails and ends
\* the next round, and for the lists before it in the third, without the one that
\* failed. Before each of the last two the task connects again.
OneFails(fails, transfer, connect) ==
    /\ Failing \subseteq {fails}
    /\ \A d \in TransferTimes : d <= transfer
    /\ \A d \in ConnectTimes : d <= connect
    /\ connect < EIP_TIMEOUT
    /\ Lists * transfer + connect <= MaxLate
    /\ (2 * Lists + fails - 3) * transfer + 2 * connect <= MaxLate

\* The inductive invariant behind PeriodKept and NoOversleep: what the walk along
\* the lists knows of those it passed, and what a scan leaves in each.
WalkState ==
    /\ phase \in {"pass", "delay"} =>
          \A l \in ScanList :
             l < list /\ scan_time[l] # 0
                => ~reset_next_schedule /\ next_schedule <= scheduled_time[l]
    /\ phase = "delay" => list = Lists + 1

ScheduledAsPromised ==
    \A l \in ScanList : scan_time[l] # 0 => scheduled_time[l] = promised[l]

IInv == TypeOK /\ WalkState /\ ScheduledAsPromised /\ NoOversleep

\* A delay that looks wrong only leads to a wait of a minute (PLC_scan_task).
DelayHandled == phase # "crashed"
=============================================================================
