------------------------- MODULE ScanScheduleProofs -------------------------
(***************************************************************************)
(* Proofs about ScanSchedule, for any number of lists, any periods and any *)
(* times: when lists are scanned again, and how long the task sleeps.      *)
(***************************************************************************)
EXTENDS ScanSchedule, TLAPS

USE DEF vars, listVars, localVars, history, ScanList

-----------------------------------------------------------------------------
(* Steps *)

\* A time and a duration make a time, which is not earlier.
LEMMA SumNat ==
    ASSUME NEW m \in Nat, NEW n \in Nat
    PROVE  m + n \in Nat /\ m <= m + n
  OBVIOUS

LEMMA SumLess ==
    ASSUME NEW m \in Nat, NEW c \in Nat, NEW d \in Nat, c < d
    PROVE  m + c < m + d
  OBVIOUS

\* Time only goes on.
LEMMA ElapseForward ==
    ASSUME now \in Nat, NEW d \in Nat, Elapse(d)
    PROVE  now' \in Nat /\ now <= now'
  BY DEF Elapse

\* Whatever a scan of the list takes and leaves, its times are those of TypeOK.
LEMMA ScanTimes ==
    ASSUME TypeOK, phase = "pass", list \in ScanList, ScanOk \/ ScanFails
    PROVE  /\ now' \in Nat /\ now <= now'
           /\ scan_time' = [scan_time EXCEPT ![list] = now]
           /\ scheduled_time' \in [ScanList -> Nat]
           /\ promised' \in [ScanList -> Nat]
           /\ scheduled_time'[list] = promised'[list]
           /\ \A l \in ScanList \ {list} :
                 scheduled_time'[l] = scheduled_time[l] /\ promised'[l] = promised[l]
  <1>1. now' \in Nat /\ now <= now'
    BY ElapseForward, ScheduleAssumption DEF TypeOK, ScanOk, ScanFails
  <1>2. period[list] \in Nat /\ EIP_TIMEOUT \in Nat
    BY ScheduleAssumption DEF TypeOK
  <1>3. CASE ScanOk
    BY <1>1, <1>2, <1>3 DEF TypeOK, ScanOk, NextScan
  <1>4. CASE ScanFails
    <2>1. now' + EIP_TIMEOUT \in Nat
      BY <1>1, <1>2, SumNat
    <2> QED BY <1>1, <1>2, <1>4, <2>1 DEF TypeOK, ScanFails, NextTry
  <1> QED BY <1>3, <1>4

\* NextList has the earlier of the times of this list and of those before it.
LEMMA NextListEarlier ==
    ASSUME TypeOK, NextList, list \in ScanList, scheduled_time' \in [ScanList -> Nat]
    PROVE  /\ next_schedule' \in Nat
           /\ next_schedule' <= scheduled_time'[list]
           /\ ~reset_next_schedule => next_schedule' <= next_schedule
           /\ ~reset_next_schedule'
           /\ list' = list + 1
  BY DEF TypeOK, NextList, EarlierSchedule

-----------------------------------------------------------------------------
LEMMA InitInv == Init => IInv
  <1> SUFFICES ASSUME Init PROVE IInv
    OBVIOUS
  <1>1. TypeOK
    <2>1. list \in 1 .. Lists + 1
      BY ScheduleAssumption DEF Init
    <2>2. 0 \in Nat /\ 1 \in Nat
      OBVIOUS
    <2> QED BY <2>1, <2>2 DEF Init, TypeOK, Phase
  <1> QED
    BY <1>1 DEF Init, IInv, WalkState, ScheduledAsPromised, NoOversleep

\* The walk goes on behind a list that was scanned, or was not due.
LEMMA WalkOn ==
    ASSUME IInv, NextList, phase = "pass", phase' = "pass", list \in ScanList,
           scheduled_time' \in [ScanList -> Nat],
           \A l \in ScanList \ {list} : /\ scheduled_time'[l] = scheduled_time[l]
                                        /\ scan_time'[l] = scan_time[l]
    PROVE  WalkState'
  <1>1. /\ next_schedule' \in Nat
        /\ next_schedule' <= scheduled_time'[list]
        /\ ~reset_next_schedule => next_schedule' <= next_schedule
        /\ ~reset_next_schedule'
        /\ list' = list + 1
    BY NextListEarlier DEF IInv
  <1>2. ASSUME NEW l \in ScanList, l < list', scan_time'[l] # 0
        PROVE  next_schedule' <= scheduled_time'[l]
    <2>1. CASE l = list
      BY <1>1, <2>1
    <2>2. CASE l # list
      <3>1. l < list
        BY <1>1, <1>2, <2>2, ScheduleAssumption
      <3>2. ~reset_next_schedule /\ next_schedule <= scheduled_time[l]
        BY <1>2, <2>2, <3>1 DEF IInv, WalkState
      <3>3. next_schedule \in Nat /\ scheduled_time[l] \in Nat
        BY DEF IInv, TypeOK
      <3> QED BY <1>1, <2>2, <3>2, <3>3
    <2> QED BY <2>1, <2>2
  <1> QED BY <1>1, <1>2 DEF WalkState

LEMMA NextInv ==
    ASSUME IInv, Next
    PROVE  IInv'
  <1> USE DEF IInv
  <1>1. CASE BeginPass
    <2>1. now' \in Nat /\ now <= now'
      BY <1>1, ElapseForward, ScheduleAssumption DEF BeginPass, TypeOK
    <2>2. list' \in 1 .. Lists + 1
      BY <1>1, ScheduleAssumption DEF BeginPass
    <2> QED
      BY <1>1, <2>1, <2>2
      DEF BeginPass, TypeOK, Phase, WalkState, ScheduledAsPromised, NoOversleep
  <1>2. CASE ConnectFails
    <2>1. now' \in Nat /\ now <= now'
      BY <1>2, ElapseForward, ScheduleAssumption DEF ConnectFails, TypeOK
    <2>2. wake' \in Nat
      BY <1>2, <2>1, SumNat, ScheduleAssumption DEF ConnectFails
    <2> QED
      BY <1>2, <2>1, <2>2
      DEF ConnectFails, TypeOK, Phase, WalkState, ScheduledAsPromised, NoOversleep
  <1>3. CASE NotDue
    <2>1. WalkState'
      BY <1>3, WalkOn DEF NotDue, TypeOK
    <2>2. TypeOK'
      <3>1. next_schedule' \in Nat /\ list' = list + 1
        BY <1>3, NextListEarlier DEF NotDue, TypeOK
      <3>2. list' \in 1 .. Lists + 1
        BY <1>3, <3>1, ScheduleAssumption DEF NotDue
      <3>3. /\ UNCHANGED <<now, phase, connected, listVars, start_time, wake, history>>
            /\ reset_next_schedule' = FALSE
        BY <1>3 DEF NotDue, NextList
      <3> QED BY <3>1, <3>2, <3>3 DEF TypeOK
    <2> QED BY <1>3, <2>1, <2>2 DEF NotDue, ScheduledAsPromised, NoOversleep
  <1>4. CASE ScanOk
    <2>1. phase = "pass" /\ phase' = "pass" /\ list \in ScanList /\ NextList
      BY <1>4 DEF ScanOk
    <2>2. /\ now' \in Nat /\ now <= now'
          /\ scan_time' = [scan_time EXCEPT ![list] = now]
          /\ scheduled_time' \in [ScanList -> Nat]
          /\ promised' \in [ScanList -> Nat]
          /\ scheduled_time'[list] = promised'[list]
          /\ \A l \in ScanList \ {list} :
                scheduled_time'[l] = scheduled_time[l] /\ promised'[l] = promised[l]
      BY <1>4, <2>1, ScanTimes
    <2>3. \A l \in ScanList \ {list} : scan_time'[l] = scan_time[l]
      BY <2>2 DEF TypeOK
    <2>4. WalkState'
      BY <2>1, <2>2, <2>3, WalkOn
    <2>5. TypeOK'
      <3>1. next_schedule' \in Nat /\ list' \in 1 .. Lists + 1
        BY <2>1, <2>2, NextListEarlier, ScheduleAssumption
      <3>2. start_time' <= now'
        BY <1>4, <2>1, <2>2 DEF ScanOk, TypeOK
      <3>3. scan_time' \in [ScanList -> Nat]
        BY <2>2 DEF TypeOK
      <3> QED BY <1>4, <2>1, <2>2, <3>1, <3>2, <3>3 DEF ScanOk, NextList, TypeOK
    <2>6. ScheduledAsPromised'
      BY <2>2, <2>3 DEF ScheduledAsPromised
    <2> QED BY <2>1, <2>4, <2>5, <2>6 DEF NoOversleep
  <1>5. CASE ScanFails
    <2>1. phase = "pass" /\ phase' = "begin" /\ list \in ScanList
      BY <1>5, ScheduleAssumption DEF ScanFails
    <2>2. /\ now' \in Nat /\ now <= now'
          /\ scan_time' = [scan_time EXCEPT ![list] = now]
          /\ scheduled_time' \in [ScanList -> Nat]
          /\ promised' \in [ScanList -> Nat]
          /\ scheduled_time'[list] = promised'[list]
          /\ \A l \in ScanList \ {list} :
                scheduled_time'[l] = scheduled_time[l] /\ promised'[l] = promised[l]
      BY <1>5, <2>1, ScanTimes
    <2>3. \A l \in ScanList \ {list} : scan_time'[l] = scan_time[l]
      BY <2>2 DEF TypeOK
    <2>4. TypeOK'
      BY <1>5, <2>2, ZenonT(30) DEF ScanFails, TypeOK, Phase
    <2>5. ScheduledAsPromised'
      BY <2>2, <2>3 DEF ScheduledAsPromised
    <2> QED BY <2>1, <2>4, <2>5 DEF WalkState, NoOversleep
  <1>6. CASE PassDone
    <2>1. list = Lists + 1
      BY <1>6, ScheduleAssumption DEF PassDone, TypeOK
    <2> QED
      BY <1>6, <2>1
      DEF PassDone, TypeOK, Phase, WalkState, ScheduledAsPromised, NoOversleep
  <1>7. CASE Sleep
    <2>1. wake' \in Nat
      BY <1>7, ScheduleAssumption DEF Sleep, delay, TypeOK
    <2>2. ASSUME NEW l \in ScanList, scan_time[l] # 0
          PROVE  wake' <= scheduled_time[l]
      <3>1. l < list
        BY <1>7, ScheduleAssumption DEF Sleep, WalkState
      <3>2. ~reset_next_schedule /\ next_schedule <= scheduled_time[l]
        BY <1>7, <2>2, <3>1 DEF Sleep, WalkState
      <3>3. wake' = next_schedule
        BY <1>7, <3>2 DEF Sleep, delay, TypeOK
      <3> QED BY <3>2, <3>3
    <2> QED
      BY <1>7, <2>1, <2>2
      DEF Sleep, TypeOK, Phase, WalkState, ScheduledAsPromised, NoOversleep
  <1>8. CASE Slow
    BY <1>8 DEF Slow, TypeOK, Phase, WalkState, ScheduledAsPromised, NoOversleep
  <1>9. CASE SchedulingProblem
    <2>1. CASE phase' = "crashed" /\ UNCHANGED wake
      BY <1>9, <2>1
      DEF SchedulingProblem, TypeOK, Phase, WalkState, ScheduledAsPromised, NoOversleep
    <2>2. CASE phase' = "sleep" /\ wake' = now + MaxDelay
      <3>1. wake' \in Nat
        BY <2>2, ScheduleAssumption DEF TypeOK
      \* The next list is due after that.
      <3>2. ASSUME NEW l \in ScanList, scan_time[l] # 0
            PROVE  wake' <= scheduled_time[l]
        <4>1. l < list
          BY <1>9, ScheduleAssumption DEF SchedulingProblem, WalkState
        <4>2. ~reset_next_schedule /\ next_schedule <= scheduled_time[l]
          BY <1>9, <3>2, <4>1 DEF SchedulingProblem, WalkState
        <4>3. next_schedule - now > MaxDelay
          BY <1>9, <4>2 DEF SchedulingProblem, delay
        <4> QED
          BY <2>2, <4>2, <4>3, ScheduleAssumption DEF TypeOK
      <3> QED
        BY <1>9, <2>2, <3>1, <3>2
        DEF SchedulingProblem, TypeOK, Phase, WalkState, ScheduledAsPromised,
            NoOversleep
    <2> QED BY <1>9, <2>1, <2>2 DEF SchedulingProblem
  <1>10. CASE Wake
    BY <1>10 DEF Wake, TypeOK, Phase, WalkState, ScheduledAsPromised, NoOversleep
  <1>11. CASE drvEtherIP_restart
    BY <1>11
    DEF drvEtherIP_restart, Unlocked, TypeOK, WalkState, ScheduledAsPromised,
        NoOversleep
  <1>12. CASE drvEtherIP_reset_statistics
    BY <1>12
    DEF drvEtherIP_reset_statistics, Unlocked, Later, TypeOK, WalkState, ScheduledAsPromised,
        NoOversleep
  <1> QED
    BY <1>1, <1>2, <1>3, <1>4, <1>5, <1>6, <1>7, <1>8, <1>9, <1>10, <1>11, <1>12
    DEF Next

-----------------------------------------------------------------------------
(* The theorems *)

\* The invariant of the walk along the lists and of their scheduled times.
THEOREM ScheduleInductive == Spec => []IInv
  <1>1. IInv /\ UNCHANGED vars => IInv'
    BY DEF IInv, TypeOK, WalkState, ScheduledAsPromised, NoOversleep
  <1> QED BY <1>1, InitInv, NextInv, PTL DEF Spec

\* Times are times, and lists are only scanned while connected.
THEOREM ScheduleTypes == Spec => []TypeOK
  <1>1. IInv => TypeOK
    BY DEF IInv
  <1> QED BY <1>1, ScheduleInductive, PTL

\* The task is awake when any list that it scheduled is due.
THEOREM NeverOversleeps == Spec => []NoOversleep
  <1>1. IInv => NoOversleep
    BY DEF IInv
  <1> QED BY <1>1, ScheduleInductive, PTL

\* No list is scanned more often than its period and its errors allow.
THEOREM PeriodsKept == Spec => PeriodKept
  <1> DEFINE Kept == \A l \in ScanList :
                        scan_time[l] # 0 /\ scan_time'[l] \notin {0, scan_time[l]}
                           => scan_time'[l] >= promised[l]
  <1>1. IInv /\ [Next]_vars => [Kept]_vars
    <2> SUFFICES ASSUME IInv, Next PROVE Kept
      OBVIOUS
    <2>1. CASE ScanOk \/ ScanFails
      <3>1. phase = "pass" /\ list \in ScanList /\ Due(list)
        BY <2>1, ScheduleAssumption DEF ScanOk, ScanFails
      <3>2. scan_time' = [scan_time EXCEPT ![list] = now]
        BY <2>1 DEF ScanOk, ScanFails
      <3>3. scan_time[list] # 0 => promised[list] <= now
        BY <3>1 DEF IInv, TypeOK, ScheduledAsPromised, Due
      <3> QED BY <3>1, <3>2, <3>3 DEF IInv, TypeOK
    <2>2. CASE UNCHANGED scan_time
      BY <2>2
    <2>3. CASE drvEtherIP_reset_statistics
      BY <2>3 DEF drvEtherIP_reset_statistics
    <2> QED
      BY <2>1, <2>2, <2>3
      DEF Next, BeginPass, ConnectFails, NotDue, PassDone, Sleep, Slow,
          SchedulingProblem, Wake, drvEtherIP_restart
  <1> QED BY <1>1, ScheduleInductive, PTL DEF Spec, PeriodKept

-----------------------------------------------------------------------------
(* No list is starved.                                                      *)
(*                                                                          *)
(* fails is the list that may fail, a transfer takes up to T and a connect  *)
(* up to C, as in OneFails.                                                 *)

\* The time of k transfers.
Time(k, T) == k * T

LEMMA TimeNat ==
    ASSUME NEW k \in Nat, NEW T \in Nat
    PROVE  Time(k, T) \in Nat
  BY DEF Time

LEMMA TimeOneMore ==
    ASSUME NEW k \in Int, NEW T \in Nat
    PROVE  /\ Time(k, T) \in Int
           /\ Time(k + 1, T) = Time(k, T) + T
  BY DEF Time

LEMMA TimeMonotone ==
    ASSUME NEW j \in Int, NEW k \in Int, j <= k, NEW T \in Nat
    PROVE  Time(j, T) <= Time(k, T)
  <1>1. (k - j) * T >= 0
    OBVIOUS
  <1> QED BY <1>1 DEF Time

\* From when on a list waits for its turn.
Base(l) == Later(promised[l], since)

\* A list does not wait for itself; the first one, which has nobody before it in
\* the next round, may have waited for all of this one, itself included.
Own(l) == IF l = 1 THEN 0 ELSE 1
Round(l) == Lists - Own(l)

\* Before a pass: late by a round, and by the part of one more if that was broken off,
\* after which the list that failed is not due.
BeforePass(l, fails, T, C) ==
    \/ now <= Base(l) + Time(Round(l), T)
    \/ /\ fails < l /\ now + C < scheduled_time[fails]
       /\ now <= Base(l) + Time(Round(l) + fails, T) + C

\* In a pass: by the lists it went to since. A list that is not due at the start of
\* the pass is not late then.
InPass(l, fails, T, C) ==
    /\ l < list => now <= Base(l) + Time(list - 1 - Own(l), T)
    /\ list <= l /\ ~Due(l) => now <= Base(l) + Time(list - 1, T)
    /\ list <= l /\ Due(l) =>
          \/ now <= Base(l) + Time(Round(l) + list - 1, T) + C
          \/ /\ fails < l /\ list <= fails /\ ~Due(fails)
             /\ now <= Base(l) + Time(Round(l) + fails + list - 1, T) + 2 * C
          \/ /\ fails < list
             /\ now <= Base(l) + Time(Round(l) + fails + list - 2, T) + 2 * C

\* A list is not slept over.
TurnOf(l, fails, T, C) ==
    /\ phase = "sleep" => wake <= promised[l]
    /\ phase = "retry" => wake <= since
    /\ phase \in {"delay", "crashed"} => now <= Base(l) + Time(Round(l), T)
    /\ phase = "begin" => BeforePass(l, fails, T, C)
    /\ phase = "pass" => InPass(l, fails, T, C)

\* What it rests on: a list that was reset is due at once, and the time that the walk
\* finds for the next pass is not later than any that was promised, reset or not.
WalkPromised ==
    /\ now # 0
    /\ phase \in {"sleep", "retry"} => now <= wake
    /\ \A l \in ScanList : scan_time[l] = 0 => scheduled_time[l] = 0
    /\ phase \in {"pass", "delay"} =>
          \A l \in ScanList :
             l < list => ~reset_next_schedule /\ next_schedule <= promised[l]

LEMMA InitPromised == Init => WalkPromised
  BY DEF Init, WalkPromised

LEMMA NextPromised ==
    ASSUME IInv, WalkPromised, Next
    PROVE  WalkPromised'
  <1> USE DEF IInv
  <1>1. CASE BeginPass
    <2>1. now' \in Nat /\ now <= now'
      BY <1>1, ElapseForward, ScheduleAssumption DEF BeginPass, TypeOK
    <2> QED BY <1>1, <2>1 DEF BeginPass, WalkPromised, TypeOK
  <1>2. CASE ConnectFails
    <2>1. now' \in Nat /\ now <= now'
      BY <1>2, ElapseForward, ScheduleAssumption DEF ConnectFails, TypeOK
    <2>2. now' <= wake'
      <3>1. EIP_TIMEOUT \in Nat
        BY ScheduleAssumption
      <3>2. wake' = now' + EIP_TIMEOUT
        BY <1>2 DEF ConnectFails
      <3>3. now' + EIP_TIMEOUT \in Nat /\ now' <= now' + EIP_TIMEOUT
        BY <2>1, <3>1, SumNat
      <3> QED BY <3>2, <3>3
    <2>3. now' # 0
      BY <2>1 DEF WalkPromised, TypeOK
    <2> QED BY <1>2, <2>2, <2>3 DEF ConnectFails, WalkPromised
  <1>3. CASE NotDue
    <2>1. phase = "pass" /\ phase' = "pass" /\ list \in ScanList
      BY <1>3 DEF NotDue
    <2>2. /\ next_schedule' \in Nat
          /\ next_schedule' <= scheduled_time[list]
          /\ ~reset_next_schedule => next_schedule' <= next_schedule
          /\ ~reset_next_schedule'
          /\ list' = list + 1
      BY <1>3, NextListEarlier DEF NotDue, TypeOK
    <2>3. scan_time[list] # 0
      BY <1>3, <2>1 DEF NotDue, Due, WalkPromised, TypeOK
    <2>4. next_schedule' <= promised[list]
      BY <2>1, <2>2, <2>3 DEF ScheduledAsPromised
    <2>5. ASSUME NEW l \in ScanList, l < list'
          PROVE  next_schedule' <= promised[l]
      <3>1. CASE l = list
        BY <2>4, <3>1
      <3>2. CASE l < list
        <4>1. ~reset_next_schedule /\ next_schedule <= promised[l]
          BY <2>1, <3>2 DEF WalkPromised
        <4>2. promised[l] \in Nat /\ next_schedule \in Nat
          BY DEF TypeOK
        <4> QED BY <2>2, <4>1, <4>2
      <3> QED BY <2>1, <2>2, <2>5, <3>1, <3>2, ScheduleAssumption
    <2> QED BY <1>3, <2>2, <2>5 DEF NotDue, WalkPromised
  <1>4. CASE ScanOk
    <2>1. phase = "pass" /\ phase' = "pass" /\ list \in ScanList /\ NextList
      BY <1>4 DEF ScanOk
    <2>2. /\ now' \in Nat /\ now <= now'
          /\ scan_time' = [scan_time EXCEPT ![list] = now]
          /\ scheduled_time' \in [ScanList -> Nat]
          /\ promised' \in [ScanList -> Nat]
          /\ scheduled_time'[list] = promised'[list]
          /\ \A l \in ScanList \ {list} :
                scheduled_time'[l] = scheduled_time[l] /\ promised'[l] = promised[l]
      BY <1>4, <2>1, ScanTimes
    <2>3. /\ next_schedule' \in Nat
          /\ next_schedule' <= scheduled_time'[list]
          /\ ~reset_next_schedule => next_schedule' <= next_schedule
          /\ ~reset_next_schedule'
          /\ list' = list + 1
      BY <2>1, <2>2, NextListEarlier
    <2>4. ASSUME NEW l \in ScanList, l < list'
          PROVE  next_schedule' <= promised'[l]
      <3>1. CASE l = list
        BY <2>2, <2>3, <3>1
      <3>2. CASE l < list
        <4>1. ~reset_next_schedule /\ next_schedule <= promised[l]
          BY <2>1, <3>2 DEF WalkPromised
        <4>2. promised[l] \in Nat /\ next_schedule \in Nat /\ promised'[l] = promised[l]
          BY <2>1, <2>2, <3>2, ScheduleAssumption DEF TypeOK
        <4> QED BY <2>3, <4>1, <4>2
      <3> QED BY <2>1, <2>3, <2>4, <3>1, <3>2, ScheduleAssumption
    <2>5. now' # 0
      BY <2>2 DEF WalkPromised, TypeOK
    <2>6. \A l \in ScanList : scan_time'[l] = 0 => scheduled_time'[l] = 0
      BY <2>1, <2>2 DEF WalkPromised, TypeOK
    <2> QED BY <2>1, <2>3, <2>4, <2>5, <2>6 DEF WalkPromised
  <1>5. CASE ScanFails
    <2>1. phase = "pass" /\ phase' = "begin" /\ list \in ScanList
      BY <1>5, ScheduleAssumption DEF ScanFails
    <2>2. /\ now' \in Nat /\ now <= now'
          /\ scan_time' = [scan_time EXCEPT ![list] = now]
          /\ \A l \in ScanList \ {list} : scheduled_time'[l] = scheduled_time[l]
      BY <1>5, <2>1, ScanTimes
    <2>3. \A l \in ScanList : scan_time'[l] = 0 => scheduled_time'[l] = 0
      BY <2>1, <2>2 DEF WalkPromised, TypeOK
    <2> QED BY <2>1, <2>2, <2>3 DEF WalkPromised, TypeOK
  <1>6. CASE Wake
    BY <1>6 DEF Wake, WalkPromised, TypeOK
  <1>7. CASE PassDone
    BY <1>7 DEF PassDone, WalkPromised
  <1>8. CASE drvEtherIP_reset_statistics
    BY <1>8 DEF drvEtherIP_reset_statistics, WalkPromised
  <1>9. CASE Sleep
    <2>1. wake' = now + delay /\ 0 < delay /\ delay \in Int
      BY <1>9, ScheduleAssumption DEF Sleep, delay, TypeOK
    <2> QED BY <1>9, <2>1 DEF Sleep, WalkPromised, TypeOK
  <1>10. CASE SchedulingProblem
    BY <1>10, ScheduleAssumption DEF SchedulingProblem, WalkPromised, TypeOK
  <1>11. CASE Slow \/ drvEtherIP_restart
    BY <1>11 DEF Slow, drvEtherIP_restart, WalkPromised, Unlocked
  <1> QED
    BY <1>1, <1>2, <1>3, <1>4, <1>5, <1>6, <1>7, <1>8, <1>9, <1>10, <1>11 DEF Next

LEMMA BaseNat ==
    ASSUME TypeOK, NEW l \in ScanList
    PROVE  Base(l) \in Nat /\ promised[l] <= Base(l) /\ since <= Base(l)
  BY DEF TypeOK, Base, Later

LEMMA RoundNat ==
    ASSUME NEW l \in ScanList
    PROVE  /\ Round(l) \in Nat /\ Own(l) \in {0, 1}
           /\ Round(l) + Own(l) = Lists
           /\ l = 1 => Own(l) = 0
           /\ l # 1 => Own(l) = 1
           /\ l \in Int /\ 1 <= l /\ l <= Lists
  BY ScheduleAssumption DEF Round, Own

\* One more transfer, and one list further.
LEMMA OneFurther ==
    ASSUME NEW t \in Nat, NEW u \in Nat, NEW b \in Nat, NEW c \in Nat,
           NEW k \in Int, NEW T \in Nat,
           t <= b + Time(k, T) + c, u <= t + T
    PROVE  u <= b + Time(k + 1, T) + c
  <1>1. Time(k, T) \in Int /\ Time(k + 1, T) = Time(k, T) + T
    BY TimeOneMore
  <1> QED BY <1>1

\* Or no time passes.
LEMMA NoLess ==
    ASSUME NEW t \in Nat, NEW b \in Nat, NEW c \in Nat,
           NEW j \in Int, NEW k \in Int, NEW T \in Nat,
           t <= b + Time(j, T) + c, j <= k
    PROVE  t <= b + Time(k, T) + c
  <1>1. Time(j, T) \in Int /\ Time(k, T) \in Int /\ Time(j, T) <= Time(k, T)
    BY TimeOneMore, TimeMonotone
  <1> QED BY <1>1

\* The same without a connect.
LEMMA OneFurtherPlain ==
    ASSUME NEW t \in Nat, NEW u \in Nat, NEW b \in Nat,
           NEW k \in Int, NEW T \in Nat, t <= b + Time(k, T), u <= t + T
    PROVE  u <= b + Time(k + 1, T)
  <1>1. Time(k, T) \in Int /\ Time(k + 1, T) = Time(k, T) + T
    BY TimeOneMore
  <1> QED BY <1>1

LEMMA NoLessPlain ==
    ASSUME NEW t \in Nat, NEW b \in Nat, NEW j \in Int, NEW k \in Int, NEW T \in Nat,
           t <= b + Time(j, T), j <= k
    PROVE  t <= b + Time(k, T)
  <1>1. Time(j, T) \in Int /\ Time(k, T) \in Int /\ Time(j, T) <= Time(k, T)
    BY TimeOneMore, TimeMonotone
  <1> QED BY <1>1

\* Transfers and connects take as long as assumed.
LEMMA TransferTime ==
    ASSUME NEW fails, NEW T \in Nat, NEW C \in Nat, OneFails(fails, T, C),
           TypeOK, ScanOk \/ ScanFails
    PROVE  now' \in Nat /\ now' <= now + T
  <1>1. PICK d \in TransferTimes : now' = now + d
    BY DEF ScanOk, ScanFails, Elapse
  <1>2. d \in Nat /\ d <= T
    BY ScheduleAssumption DEF OneFails
  <1> QED BY <1>1, <1>2 DEF TypeOK

LEMMA ConnectTime ==
    ASSUME NEW fails, NEW T \in Nat, NEW C \in Nat, OneFails(fails, T, C),
           TypeOK, BeginPass
    PROVE  now' \in Nat /\ now <= now' /\ now' <= now + C
  <1>1. PICK d \in ConnectTimes \cup {0} : now' = now + d
    BY DEF BeginPass, Elapse
  <1>2. d \in Nat /\ d <= C
    BY ScheduleAssumption DEF OneFails
  <1> QED BY <1>1, <1>2 DEF TypeOK

\* A list that is not due was promised a time that is still to come.
LEMMA NotDueIsEarly ==
    ASSUME IInv, WalkPromised, NEW l \in ScanList, NEW t \in Nat, t < scheduled_time[l]
    PROVE  t <= Base(l)
  <1>1. scan_time[l] # 0
    BY DEF IInv, TypeOK, WalkPromised
  <1>2. scheduled_time[l] = promised[l] /\ promised[l] \in Nat
    BY <1>1 DEF IInv, TypeOK, ScheduledAsPromised
  <1> QED BY <1>2, BaseNat DEF IInv

-----------------------------------------------------------------------------
(* One lemma for each kind of step *)

LEMMA BeginTurn ==
    ASSUME NEW fails \in ScanList, NEW T \in Nat, NEW C \in Nat, OneFails(fails, T, C),
           IInv, WalkPromised, BeginPass,
           NEW l \in ScanList, TurnOf(l, fails, T, C)
    PROVE  TurnOf(l, fails, T, C)'
  <1>1. now' \in Nat /\ now' <= now + C /\ now \in Nat
    BY ConnectTime DEF IInv, TypeOK
  <1>2. /\ phase' = "pass" /\ list' = 1 /\ start_time' = now'
        /\ scheduled_time' = scheduled_time /\ Base(l)' = Base(l)
    BY DEF BeginPass, Base
  <1>3. Base(l) \in Nat /\ Round(l) \in Nat /\ 1 <= l /\ 1 <= fails
    BY BaseNat, RoundNat DEF IInv
  <1>4. /\ scheduled_time[l] \in Nat /\ scheduled_time[fails] \in Nat
        /\ Time(0, T) \in Nat
    BY TimeNat DEF IInv, TypeOK
  <1>5. BeforePass(l, fails, T, C)
    BY DEF TurnOf, BeginPass
  <1>6. CASE now' < scheduled_time[l]
    <2>1. now' <= Base(l)
      BY <1>1, <1>6, NotDueIsEarly
    <2>2. now' <= Base(l) + Time(1 - 1, T)
      BY <1>1, <1>3, <1>4, <2>1
    <2>3. (list <= l /\ ~Due(l))' /\ ~(l < list)'
      BY <1>1, <1>2, <1>3, <1>4, <1>6 DEF Due
    <2> QED BY <1>2, <2>2, <2>3 DEF TurnOf, InPass
  <1>7. CASE scheduled_time[l] <= now'
    <2>1. CASE now <= Base(l) + Time(Round(l), T)
      <3>1. Time(Round(l), T) \in Nat /\ Round(l) + 1 - 1 = Round(l)
        BY <1>3, TimeNat
      <3>2. now' <= Base(l) + Time(Round(l) + 1 - 1, T) + C
        BY <1>1, <1>3, <2>1, <3>1
      <3> QED BY <1>2, <1>3, <1>7, <3>2 DEF TurnOf, InPass, Due
    <2>2. CASE /\ fails < l /\ now + C < scheduled_time[fails]
               /\ now <= Base(l) + Time(Round(l) + fails, T) + C
      <3>1. now' <= Base(l) + Time(Round(l) + fails + 1 - 1, T) + 2 * C
        <4>1. Round(l) + fails \in Nat /\ Round(l) + fails + 1 - 1 = Round(l) + fails
          BY <1>3, RoundNat
        <4>2. Time(Round(l) + fails, T) \in Nat
          BY <4>1, TimeNat
        <4> QED BY <1>1, <1>3, <2>2, <4>1, <4>2
      <3>2. now' < scheduled_time[fails]
        BY <1>1, <1>4, <2>2
      <3> QED BY <1>1, <1>2, <1>3, <1>4, <1>7, <2>2, <3>1, <3>2 DEF TurnOf, InPass, Due
    <2> QED BY <1>5, <2>1, <2>2 DEF BeforePass
  <1> QED BY <1>1, <1>4, <1>6, <1>7

LEMMA NotDueTurn ==
    ASSUME NEW fails \in ScanList, NEW T \in Nat, NEW C \in Nat, OneFails(fails, T, C),
           IInv, WalkPromised, NotDue,
           NEW l \in ScanList, TurnOf(l, fails, T, C)
    PROVE  TurnOf(l, fails, T, C)'
  <1>1. /\ phase = "pass" /\ phase' = "pass" /\ list' = list + 1 /\ now' = now
        /\ list \in ScanList /\ ~Due(list) /\ Base(l)' = Base(l)
        /\ Due(l)' = Due(l) /\ Due(fails)' = Due(fails)
    BY DEF NotDue, NextList, Base, Due
  <1>2. /\ now \in Nat /\ Base(l) \in Nat /\ Round(l) \in Nat /\ Own(l) \in {0, 1}
        /\ l \in Int /\ list \in Int /\ fails \in Int
    BY <1>1, BaseNat, RoundNat DEF IInv, TypeOK
  <1>3. InPass(l, fails, T, C)
    BY <1>1 DEF TurnOf
  <1>4. ASSUME l < list + 1
        PROVE  now <= Base(l) + Time(list + 1 - 1 - Own(l), T)
    <2>1. CASE l < list
      <3>1. now <= Base(l) + Time(list - 1 - Own(l), T)
        BY <1>3, <2>1 DEF InPass
      <3> QED BY <1>2, <3>1, NoLessPlain
    <2>2. CASE l = list
      <3>1. now <= Base(l) + Time(list - 1, T)
        BY <1>1, <1>2, <1>3, <2>2 DEF InPass
      <3>2. list - 1 <= list + 1 - 1 - Own(l)
        BY <1>2
      <3> QED BY <1>2, <3>1, <3>2, NoLessPlain
    <2> QED BY <1>2, <1>4, <2>1, <2>2
  <1>5. ASSUME list + 1 <= l, ~Due(l)
        PROVE  now <= Base(l) + Time(list + 1 - 1, T)
    <2>1. now <= Base(l) + Time(list - 1, T)
      BY <1>2, <1>3, <1>5 DEF InPass
    <2> QED BY <1>2, <2>1, NoLessPlain
  <1>6. ASSUME list + 1 <= l, Due(l)
        PROVE  \/ now <= Base(l) + Time(Round(l) + (list + 1) - 1, T) + C
               \/ /\ fails < l /\ list + 1 <= fails /\ ~Due(fails)
                  /\ now <= Base(l) + Time(Round(l) + fails + (list + 1) - 1, T) + 2 * C
               \/ /\ fails < list + 1
                  /\ now <= Base(l) + Time(Round(l) + fails + (list + 1) - 2, T) + 2 * C
    <2>0. 2 * C \in Nat
      OBVIOUS
    <2>1. CASE now <= Base(l) + Time(Round(l) + list - 1, T) + C
      BY <1>2, <2>1, NoLess
    <2>2. CASE /\ fails < l /\ list <= fails /\ ~Due(fails)
               /\ now <= Base(l) + Time(Round(l) + fails + list - 1, T) + 2 * C
      <3>1. CASE list = fails
        <4>1. Round(l) + fails + list - 1 <= Round(l) + fails + (list + 1) - 2
          BY <1>2
        <4>2. now <= Base(l) + Time(Round(l) + fails + (list + 1) - 2, T) + 2 * C
          BY <1>2, <2>0, <2>2, <4>1, NoLess
        <4> QED BY <1>2, <3>1, <4>2
      <3>2. CASE list # fails
        <4>1. now <= Base(l) + Time(Round(l) + fails + (list + 1) - 1, T) + 2 * C
          BY <1>2, <2>0, <2>2, NoLess
        <4> QED BY <1>2, <2>2, <3>2, <4>1
      <3> QED BY <3>1, <3>2
    <2>3. CASE /\ fails < list
               /\ now <= Base(l) + Time(Round(l) + fails + list - 2, T) + 2 * C
      <3>1. now <= Base(l) + Time(Round(l) + fails + (list + 1) - 2, T) + 2 * C
        BY <1>2, <2>0, <2>3, NoLess
      <3> QED BY <1>2, <2>3, <3>1
    <2> QED BY <1>2, <1>3, <1>6, <2>1, <2>2, <2>3 DEF InPass
  <1>7. InPass(l, fails, T, C)'
    <2>1. (l < list => now <= Base(l) + Time(list - 1 - Own(l), T))'
      BY <1>1, <1>2, <1>4
    <2>2. (list <= l /\ ~Due(l) => now <= Base(l) + Time(list - 1, T))'
      BY <1>1, <1>5
    <2>3. (list <= l /\ Due(l) =>
              \/ now <= Base(l) + Time(Round(l) + list - 1, T) + C
              \/ /\ fails < l /\ list <= fails /\ ~Due(fails)
                 /\ now <= Base(l) + Time(Round(l) + fails + list - 1, T) + 2 * C
              \/ /\ fails < list
                 /\ now <= Base(l) + Time(Round(l) + fails + list - 2, T) + 2 * C)'
      BY <1>1, <1>6
    <2> QED BY <2>1, <2>2, <2>3 DEF InPass
  <1> QED BY <1>1, <1>7 DEF TurnOf

LEMMA ScanOkTurn ==
    ASSUME NEW fails \in ScanList, NEW T \in Nat, NEW C \in Nat, OneFails(fails, T, C),
           IInv, WalkPromised, ScanOk,
           NEW l \in ScanList, TurnOf(l, fails, T, C)
    PROVE  TurnOf(l, fails, T, C)'
  <1>1. /\ phase = "pass" /\ phase' = "pass" /\ list' = list + 1
        /\ list \in ScanList /\ Due(list) /\ start_time' = start_time /\ since' = since
    BY DEF ScanOk, NextList
  <1>2. /\ now \in Nat /\ now' \in Nat /\ now' <= now + T
        /\ Base(l) \in Nat /\ Round(l) \in Nat /\ Own(l) \in {0, 1}
        /\ l \in Int /\ list \in Int /\ fails \in Int /\ 1 <= l
        /\ l # 1 => Own(l) = 1
        /\ l = 1 => Own(l) = 0
    BY <1>1, BaseNat, RoundNat, TransferTime DEF IInv, TypeOK
  <1>3. InPass(l, fails, T, C)
    BY <1>1 DEF TurnOf
  <1>4. \A k \in ScanList \ {list} :
           scheduled_time'[k] = scheduled_time[k] /\ promised'[k] = promised[k]
    BY <1>1, ScanTimes DEF IInv
  <1>5. CASE l = list
    <2>1. promised'[l] = now + period[l] /\ period[l] \in Nat
      BY <1>1, <1>5, ScheduleAssumption DEF ScanOk, IInv, TypeOK
    <2>2. Base(l)' \in Nat /\ now <= Base(l)'
      BY <1>1, <1>2, <2>1 DEF Base, Later, IInv, TypeOK
    <2>3. now <= Base(l)' + Time(0, T) /\ Time(0, T) = 0
      BY <1>2, <2>2 DEF Time
    <2>4. now' <= Base(l)' + Time(0 + 1, T)
      BY <1>2, <2>2, <2>3, OneFurtherPlain
    <2>5. 0 + 1 <= list + 1 - 1 - Own(l)
      BY <1>2, <1>5
    <2>6. now' <= Base(l)' + Time(list + 1 - 1 - Own(l), T)
      BY <1>2, <2>2, <2>4, <2>5, NoLessPlain
    <2>7. InPass(l, fails, T, C)'
      BY <1>1, <1>2, <1>5, <2>6 DEF InPass
    <2> QED BY <1>1, <2>7 DEF TurnOf
  <1>6. CASE l # list
    <2>1. Base(l)' = Base(l) /\ Due(l)' = Due(l)
      BY <1>1, <1>4, <1>6 DEF Base, Due
    <2>2. list # fails => Due(fails)' = Due(fails)
      BY <1>1, <1>4 DEF Due
    <2>3. ASSUME l < list
          PROVE  now' <= Base(l) + Time(list + 1 - 1 - Own(l), T)
      <3>1. now <= Base(l) + Time(list - 1 - Own(l), T)
        BY <1>3, <2>3 DEF InPass
      <3>2. list - 1 - Own(l) \in Int /\ (list - 1 - Own(l)) + 1 = list + 1 - 1 - Own(l)
        BY <1>2
      <3>3. now' <= Base(l) + Time((list - 1 - Own(l)) + 1, T)
        BY <1>2, <3>1, <3>2, OneFurtherPlain
      <3> QED BY <3>2, <3>3
    <2>4. ASSUME list + 1 <= l, ~Due(l)
          PROVE  now' <= Base(l) + Time(list + 1 - 1, T)
      <3>1. now <= Base(l) + Time(list - 1, T)
        BY <1>2, <1>3, <2>4 DEF InPass
      <3>2. list - 1 \in Int /\ (list - 1) + 1 = list + 1 - 1
        BY <1>2
      <3>3. now' <= Base(l) + Time((list - 1) + 1, T)
        BY <1>2, <3>1, <3>2, OneFurtherPlain
      <3> QED BY <3>2, <3>3
    <2>5. ASSUME list + 1 <= l, Due(l)
          PROVE  \/ now' <= Base(l) + Time(Round(l) + (list + 1) - 1, T) + C
                 \/ /\ fails < l /\ list + 1 <= fails /\ ~Due(fails)
                    /\ now' <= Base(l) + Time(Round(l) + fails + (list + 1) - 1, T) + 2 * C
                 \/ /\ fails < list + 1
                    /\ now' <= Base(l) + Time(Round(l) + fails + (list + 1) - 2, T) + 2 * C
      <3>0. 2 * C \in Nat
        OBVIOUS
      <3>1. CASE now <= Base(l) + Time(Round(l) + list - 1, T) + C
        <4>1. /\ Round(l) + list - 1 \in Int
              /\ (Round(l) + list - 1) + 1 = Round(l) + (list + 1) - 1
          BY <1>2
        <4>2. now' <= Base(l) + Time((Round(l) + list - 1) + 1, T) + C
          BY <1>2, <3>1, <4>1, OneFurther
        <4> QED BY <4>1, <4>2
      <3>2. CASE /\ fails < l /\ list <= fails /\ ~Due(fails)
                 /\ now <= Base(l) + Time(Round(l) + fails + list - 1, T) + 2 * C
        <4>1. /\ Round(l) + fails + list - 1 \in Int
              /\ (Round(l) + fails + list - 1) + 1 = Round(l) + fails + (list + 1) - 1
          BY <1>2
        <4>2. now' <= Base(l) + Time((Round(l) + fails + list - 1) + 1, T) + 2 * C
          BY <1>2, <3>0, <3>2, <4>1, OneFurther
        <4>3. list + 1 <= fails
          BY <1>1, <1>2, <3>2
        <4> QED BY <3>2, <4>1, <4>2, <4>3
      <3>3. CASE /\ fails < list
                 /\ now <= Base(l) + Time(Round(l) + fails + list - 2, T) + 2 * C
        <4>1. /\ Round(l) + fails + list - 2 \in Int
              /\ (Round(l) + fails + list - 2) + 1 = Round(l) + fails + (list + 1) - 2
          BY <1>2
        <4>2. now' <= Base(l) + Time((Round(l) + fails + list - 2) + 1, T) + 2 * C
          BY <1>2, <3>0, <3>3, <4>1, OneFurther
        <4>3. fails < list + 1
          BY <1>2, <3>3
        <4> QED BY <4>1, <4>2, <4>3
      <3> QED BY <1>2, <1>3, <2>5, <3>1, <3>2, <3>3 DEF InPass
    <2>6. list + 1 <= fails => Due(fails)' = Due(fails)
      BY <1>2, <2>2
    <2>7. l < list + 1 => l < list
      BY <1>2, <1>6
    <2>8. InPass(l, fails, T, C)'
      <3>1. (l < list => now <= Base(l) + Time(list - 1 - Own(l), T))'
        BY <1>1, <1>2, <2>1, <2>3, <2>7
      <3>2. (list <= l /\ ~Due(l) => now <= Base(l) + Time(list - 1, T))'
        BY <1>1, <2>1, <2>4
      <3>3. (list <= l /\ Due(l) =>
                \/ now <= Base(l) + Time(Round(l) + list - 1, T) + C
                \/ /\ fails < l /\ list <= fails /\ ~Due(fails)
                   /\ now <= Base(l) + Time(Round(l) + fails + list - 1, T) + 2 * C
                \/ /\ fails < list
                   /\ now <= Base(l) + Time(Round(l) + fails + list - 2, T) + 2 * C)'
        BY <1>1, <2>1, <2>5, <2>6
      <3> QED BY <3>1, <3>2, <3>3 DEF InPass
    <2> QED BY <1>1, <2>8 DEF TurnOf
  <1> QED BY <1>5, <1>6

LEMMA ScanFailsTurn ==
    ASSUME NEW fails \in ScanList, NEW T \in Nat, NEW C \in Nat, OneFails(fails, T, C),
           IInv, WalkPromised, ScanFails,
           NEW l \in ScanList, TurnOf(l, fails, T, C)
    PROVE  TurnOf(l, fails, T, C)'
  <1>1. /\ phase = "pass" /\ phase' = "begin" /\ list = fails /\ list \in ScanList
        /\ Due(list) /\ since' = since
    BY DEF ScanFails, OneFails
  <1>2. /\ now \in Nat /\ now' \in Nat /\ now' <= now + T
        /\ Base(l) \in Nat /\ Round(l) \in Nat /\ Own(l) \in {0, 1}
        /\ Round(l) + Own(l) = Lists
        /\ l \in Int /\ list \in Int /\ 1 <= l /\ 1 <= list /\ l <= Lists /\ list <= Lists
        /\ l # 1 => Own(l) = 1
        /\ Lists \in Nat
    BY <1>1, BaseNat, RoundNat, TransferTime, ScheduleAssumption DEF IInv, TypeOK
  <1>3. InPass(l, fails, T, C)
    BY <1>1 DEF TurnOf
  <1>4. \A k \in ScanList \ {list} :
           scheduled_time'[k] = scheduled_time[k] /\ promised'[k] = promised[k]
    BY <1>1, ScanTimes DEF IInv
  <1>5. EIP_TIMEOUT \in Nat /\ C < EIP_TIMEOUT
    BY ScheduleAssumption DEF OneFails
  <1>6. Time(Round(l), T) \in Nat
    BY <1>2, TimeNat
  <1>7. BeforePass(l, fails, T, C)'
    <2>1. CASE l = list
      <3>1. promised'[l] = now' + EIP_TIMEOUT
        BY <1>1, <2>1 DEF ScanFails, IInv, TypeOK
      <3>2. now' + EIP_TIMEOUT \in Nat /\ now' <= now' + EIP_TIMEOUT
        BY <1>2, <1>5, SumNat
      <3>3. Base(l)' \in Nat /\ now' <= Base(l)'
        BY <1>1, <1>2, <3>1, <3>2 DEF Base, Later, IInv, TypeOK
      <3>4. now' <= Base(l)' + Time(Round(l), T)
        BY <1>2, <1>6, <3>3
      <3> QED BY <3>4 DEF BeforePass
    <2>2. CASE l # list
      <3>1. Base(l)' = Base(l)
        BY <1>1, <1>4, <2>2 DEF Base
      <3>2. ASSUME NEW k \in Int, now <= Base(l) + Time(k, T), k + 1 <= Round(l)
            PROVE  now' <= Base(l) + Time(Round(l), T)
        <4>1. now' <= Base(l) + Time(k + 1, T)
          BY <1>2, <3>2, OneFurtherPlain
        <4> QED BY <1>2, <3>2, <4>1, NoLessPlain
      <3>3. CASE l < list
        <4>1. now <= Base(l) + Time(list - 1 - Own(l), T)
          BY <1>3, <3>3 DEF InPass
        <4>2. list - 1 - Own(l) \in Int /\ (list - 1 - Own(l)) + 1 <= Round(l)
          BY <1>2
        <4> QED BY <3>1, <3>2, <4>1, <4>2 DEF BeforePass
      <3>4. CASE list < l /\ ~Due(l)
        <4>1. now <= Base(l) + Time(list - 1, T)
          BY <1>2, <1>3, <3>4 DEF InPass
        <4>2. list - 1 \in Int /\ (list - 1) + 1 <= Round(l)
          BY <1>2, <3>4
        <4> QED BY <3>1, <3>2, <4>1, <4>2 DEF BeforePass
      <3>5. CASE list < l /\ Due(l)
        <4>1. now <= Base(l) + Time(Round(l) + list - 1, T) + C
          BY <1>1, <1>2, <1>3, <3>5 DEF InPass
        <4>2. /\ Round(l) + list - 1 \in Int
              /\ (Round(l) + list - 1) + 1 = Round(l) + fails
          BY <1>1, <1>2
        <4>3. now' <= Base(l) + Time(Round(l) + fails, T) + C
          BY <1>2, <4>1, <4>2, OneFurther
        <4>4. scheduled_time'[fails] = now' + EIP_TIMEOUT
          BY <1>1 DEF ScanFails, NextTry, IInv, TypeOK
        <4>5. now' + C < now' + EIP_TIMEOUT
          BY <1>2, <1>5, SumLess
        <4> QED BY <1>1, <3>1, <3>5, <4>3, <4>4, <4>5 DEF BeforePass
      <3> QED BY <1>2, <2>2, <3>3, <3>4, <3>5
    <2> QED BY <2>1, <2>2
  <1> QED BY <1>1, <1>7 DEF TurnOf

\* The task goes to sleep, wakes up, or looks at the clock.
LEMMA OtherTurn ==
    ASSUME NEW fails \in ScanList, NEW T \in Nat, NEW C \in Nat, OneFails(fails, T, C),
           IInv, WalkPromised, Next,
           ~BeginPass, ~NotDue, ~ScanOk, ~ScanFails,
           NEW l \in ScanList, TurnOf(l, fails, T, C)
    PROVE  TurnOf(l, fails, T, C)'
  <1>1. /\ now \in Nat /\ wake \in Nat /\ since \in Nat /\ promised[l] \in Nat
        /\ Base(l) \in Nat /\ Round(l) \in Nat /\ Time(Round(l), T) \in Nat
        /\ promised[l] <= Base(l) /\ since <= Base(l)
    BY BaseNat, RoundNat, TimeNat DEF IInv, TypeOK
  <1>2. CASE PassDone
    <2>1. phase = "pass" /\ list = Lists + 1
      BY <1>2, ScheduleAssumption DEF PassDone, IInv, TypeOK
    <2>2. l < list /\ list - 1 - Own(l) = Round(l)
      BY <2>1, ScheduleAssumption DEF Round, Own
    <2>3. now <= Base(l) + Time(Round(l), T)
      BY <2>1, <2>2 DEF TurnOf, InPass
    <2> QED BY <1>2, <2>3 DEF PassDone, TurnOf, Base
  <1>3. CASE Slow
    BY <1>3 DEF Slow, TurnOf, BeforePass, Base
  <1>4. ASSUME phase = "delay"
        PROVE  ~reset_next_schedule /\ next_schedule <= promised[l] /\ next_schedule \in Nat
    <2>1. list = Lists + 1
      BY <1>4 DEF IInv, WalkState
    <2>2. l < list
      BY <2>1, ScheduleAssumption
    <2> QED BY <1>4, <2>2 DEF WalkPromised, IInv, TypeOK
  <1>5. CASE Sleep
    <2>1. wake' = next_schedule
      BY <1>1, <1>4, <1>5 DEF Sleep, delay
    <2> QED BY <1>4, <1>5, <2>1 DEF Sleep, TurnOf
  <1>6. CASE SchedulingProblem
    <2>1. CASE phase' = "sleep" /\ wake' = now + MaxDelay
      <3>1. now + MaxDelay <= promised[l]
        <4>1. next_schedule - now > MaxDelay
          BY <1>4, <1>6 DEF SchedulingProblem, delay
        <4> QED BY <1>1, <1>4, <1>6, <4>1, ScheduleAssumption DEF SchedulingProblem
      <3> QED BY <1>6, <2>1, <3>1 DEF SchedulingProblem, TurnOf
    <2>2. CASE phase' = "crashed"
      BY <1>6, <2>2 DEF SchedulingProblem, TurnOf, Base
    <2> QED BY <1>6, <2>1, <2>2 DEF SchedulingProblem
  <1>7. CASE Wake
    <2>1. wake <= Base(l)
      BY <1>1, <1>7 DEF Wake, TurnOf
    <2>2. wake <= Base(l) + Time(Round(l), T)
      BY <1>1, <2>1
    <2> QED BY <1>7, <2>2 DEF Wake, TurnOf, BeforePass, Base
  <1>8. CASE ConnectFails
    BY <1>8 DEF ConnectFails, TurnOf
  <1>9. CASE drvEtherIP_restart
    BY <1>9 DEF drvEtherIP_restart, Unlocked, TurnOf, BeforePass, Base
  <1>10. CASE drvEtherIP_reset_statistics
    <2>1. /\ phase' = phase /\ phase # "pass" /\ now' = now /\ wake' = wake
          /\ promised' = promised /\ since' = Later(since, now)
      BY <1>10 DEF drvEtherIP_reset_statistics, Unlocked
    <2>2. Base(l)' \in Nat /\ now <= Base(l)' /\ since' \in Nat /\ since <= since'
      BY <1>1, <2>1 DEF Base, Later
    <2>3. now' <= Base(l)' + Time(Round(l), T)
      BY <1>1, <2>1, <2>2
    <2>4. (phase = "retry" => wake <= since)'
      BY <1>1, <2>1, <2>2 DEF TurnOf
    <2> QED BY <2>1, <2>3, <2>4 DEF TurnOf, BeforePass
  <1> QED BY <1>2, <1>3, <1>5, <1>6, <1>7, <1>8, <1>9, <1>10 DEF Next

LEMMA InitTurn ==
    ASSUME NEW fails \in ScanList, NEW T \in Nat, NEW C \in Nat, Init, NEW l \in ScanList
    PROVE  TurnOf(l, fails, T, C)
  <1>1. now <= Base(l)
    BY DEF Init, Base, Later
  <1>2. Base(l) = 1 /\ Time(Round(l), T) \in Nat
    BY RoundNat, TimeNat DEF Init, Base, Later
  <1> QED BY <1>1, <1>2 DEF Init, TurnOf, BeforePass

\* What a list is late by is never more than OneFails allows.
LEMMA TurnNotStarved ==
    ASSUME NEW fails \in ScanList, NEW T \in Nat, NEW C \in Nat, OneFails(fails, T, C),
           IInv, WalkPromised, NEW l \in ScanList, TurnOf(l, fails, T, C)
    PROVE  now <= Base(l) + MaxLate
  <1>1. /\ now \in Nat /\ Base(l) \in Nat /\ Round(l) \in Nat /\ Own(l) \in {0, 1}
        /\ Round(l) + Own(l) = Lists /\ Lists \in Nat /\ MaxLate \in Nat
        /\ l \in Int /\ list \in Int /\ fails \in Int /\ 1 <= l /\ l <= Lists
        /\ 1 <= fails /\ fails <= Lists /\ 1 <= list /\ list <= Lists + 1
        /\ l # 1 => Own(l) = 1
        /\ l = 1 => Own(l) = 0
        /\ promised[l] \in Nat /\ promised[l] <= Base(l)
        /\ since \in Nat /\ since <= Base(l) /\ wake \in Nat
    <2>1. TypeOK /\ Lists \in Nat /\ MaxLate \in Nat
      BY ScheduleAssumption DEF IInv
    <2>2. list \in 1 .. Lists + 1 /\ l \in 1 .. Lists /\ fails \in 1 .. Lists
      BY <2>1 DEF TypeOK
    <2>3. now \in Nat /\ since \in Nat /\ wake \in Nat /\ promised[l] \in Nat
      BY <2>1 DEF TypeOK
    <2> QED BY <2>1, <2>2, <2>3, BaseNat, RoundNat
  <1>2. 2 * C \in Nat
    OBVIOUS
  <1>3. /\ Time(Lists, T) \in Nat /\ Time(Lists, T) + C <= MaxLate
        /\ Time(2 * Lists + fails - 3, T) \in Int
        /\ Time(2 * Lists + fails - 3, T) + 2 * C <= MaxLate
    BY <1>1, TimeNat, TimeOneMore DEF OneFails, Time
  \* Either a round and a connect, ...
  <1>4. ASSUME NEW k \in Int, k <= Lists,
               now <= Base(l) + Time(k, T) + C
        PROVE  now <= Base(l) + MaxLate
    <2>1. now <= Base(l) + Time(Lists, T) + C
      BY <1>1, <1>4, NoLess
    <2> QED BY <1>1, <1>3, <2>1
  \* ... or two, with what is left of a third, and two connects.
  <1>5. ASSUME NEW k \in Int, k <= 2 * Lists + fails - 3,
               now <= Base(l) + Time(k, T) + 2 * C
        PROVE  now <= Base(l) + MaxLate
    <2>1. now <= Base(l) + Time(2 * Lists + fails - 3, T) + 2 * C
      BY <1>1, <1>2, <1>5, NoLess
    <2> QED BY <1>1, <1>3, <2>1
  <1>6. ASSUME NEW k \in Int, now <= Base(l) + Time(k, T)
        PROVE  now <= Base(l) + Time(k, T) + C
    <2>1. Time(k, T) \in Int
      BY TimeOneMore
    <2> QED BY <1>1, <1>6, <2>1
  <1>7. ASSUME NEW k \in Int, now <= Base(l) + Time(k, T) + C
        PROVE  now <= Base(l) + Time(k, T) + 2 * C
    <2>1. Time(k, T) \in Int
      BY TimeOneMore
    <2> QED BY <1>1, <1>7, <2>1
  <1>8. CASE phase \in {"sleep", "retry"}
    BY <1>1, <1>8 DEF TurnOf, WalkPromised
  <1>9. CASE phase \in {"delay", "crashed"}
    <2>1. now <= Base(l) + Time(Round(l), T)
      BY <1>9 DEF TurnOf
    <2>2. Round(l) <= Lists
      BY <1>1
    <2> QED BY <1>1, <1>4, <1>6, <2>1, <2>2
  <1>10. CASE phase = "begin"
    <2>1. CASE now <= Base(l) + Time(Round(l), T)
      <3>1. Round(l) <= Lists
        BY <1>1
      <3> QED BY <1>1, <1>4, <1>6, <2>1, <3>1
    <2>2. CASE fails < l /\ now <= Base(l) + Time(Round(l) + fails, T) + C
      <3>1. Round(l) + fails \in Int /\ Round(l) + fails <= 2 * Lists + fails - 3
        BY <1>1, <2>2
      <3> QED BY <1>5, <1>7, <2>2, <3>1
    <2> QED BY <1>10, <2>1, <2>2 DEF TurnOf, BeforePass
  <1>11. CASE phase = "pass"
    <2>1. InPass(l, fails, T, C)
      BY <1>11 DEF TurnOf
    <2>2. CASE l < list
      <3>1. now <= Base(l) + Time(list - 1 - Own(l), T)
        BY <2>1, <2>2 DEF InPass
      <3>2. list - 1 - Own(l) \in Int /\ list - 1 - Own(l) <= Lists
        BY <1>1
      <3> QED BY <1>4, <1>6, <3>1, <3>2
    <2>3. CASE list <= l /\ ~Due(l)
      <3>1. now <= Base(l) + Time(list - 1, T)
        BY <2>1, <2>3 DEF InPass
      <3>2. list - 1 \in Int /\ list - 1 <= Lists
        BY <1>1
      <3> QED BY <1>4, <1>6, <3>1, <3>2
    <2>4. CASE list <= l /\ Due(l)
      <3>1. CASE now <= Base(l) + Time(Round(l) + list - 1, T) + C
        <4>1. CASE l = 1
          <5>1. Round(l) + list - 1 \in Int /\ Round(l) + list - 1 <= Lists
            BY <1>1, <2>4, <4>1
          <5> QED BY <1>4, <3>1, <5>1
        <4>2. CASE l # 1
          <5>1. /\ Round(l) + list - 1 \in Int
                /\ Round(l) + list - 1 <= 2 * Lists + fails - 3
            BY <1>1, <2>4, <4>2
          <5> QED BY <1>5, <1>7, <3>1, <5>1
        <4> QED BY <4>1, <4>2
      <3>2. CASE /\ fails < l /\ list <= fails
                 /\ now <= Base(l) + Time(Round(l) + fails + list - 1, T) + 2 * C
        <4>1. /\ Round(l) + fails + list - 1 \in Int
              /\ Round(l) + fails + list - 1 <= 2 * Lists + fails - 3
          BY <1>1, <2>4, <3>2
        <4> QED BY <1>5, <3>2, <4>1
      <3>3. CASE /\ fails < list
                 /\ now <= Base(l) + Time(Round(l) + fails + list - 2, T) + 2 * C
        <4>1. /\ Round(l) + fails + list - 2 \in Int
              /\ Round(l) + fails + list - 2 <= 2 * Lists + fails - 3
          BY <1>1, <2>4, <3>3
        <4> QED BY <1>5, <3>3, <4>1
      <3> QED BY <2>1, <2>4, <3>1, <3>2, <3>3 DEF InPass
    <2> QED BY <1>1, <2>2, <2>3, <2>4
  <1> QED BY <1>8, <1>9, <1>10, <1>11 DEF IInv, TypeOK, Phase

-----------------------------------------------------------------------------
\* No list is kept from its turn by the others, as long as one of them may fail and
\* connecting takes less than the time-out after errors: whatever number of lists,
\* periods and durations (PLC_scan_task).
THEOREM NobodyStarved ==
    ASSUME NEW fails \in ScanList, NEW T \in Nat, NEW C \in Nat, OneFails(fails, T, C)
    PROVE  Spec => []NotStarved
  <1> DEFINE Turns == \A l \in ScanList : TurnOf(l, fails, T, C)
  <1>1. Init => WalkPromised /\ Turns
    BY InitPromised, InitTurn
  <1>2. IInv /\ WalkPromised /\ Turns /\ [Next]_vars => (WalkPromised /\ Turns)'
    <2> SUFFICES ASSUME IInv, WalkPromised, Turns, [Next]_vars
                 PROVE  (WalkPromised /\ Turns)'
      OBVIOUS
    <2>1. CASE Next
      <3>1. ASSUME NEW l \in ScanList
            PROVE  TurnOf(l, fails, T, C)'
        BY <2>1, BeginTurn, NotDueTurn, ScanOkTurn, ScanFailsTurn, OtherTurn
      <3> QED BY <2>1, <3>1, NextPromised
    <2>2. CASE UNCHANGED vars
      BY <2>2 DEF WalkPromised, TurnOf, BeforePass, InPass, Base, Due
    <2> QED BY <2>1, <2>2
  <1>3. IInv /\ WalkPromised /\ Turns => NotStarved
    BY TurnNotStarved DEF NotStarved, Base
  <1> HIDE DEF Turns
  <1> QED BY <1>1, <1>2, <1>3, ScheduleInductive, PTL DEF Spec
-----------------------------------------------------------------------------
(* A delay is believed if any list is due soon enough. *)

\* The durations that wait after a pass are not above MaxDelay, which is a minute in
\* the code, and in any set of lists one has a period that is not.
DueSoon ==
    /\ EIP_TIMEOUT <= MaxDelay /\ EIP_MIN_TIMEOUT <= MaxDelay
    /\ Lists # 0 => \A p \in Periods : \E l \in ScanList : p[l] <= MaxDelay

\* What a scan leaves in such a list, and what there is to wait for without lists.
SmallDelays ==
    /\ \A l \in ScanList : period[l] <= MaxDelay => promised[l] <= now + MaxDelay
    /\ phase \in {"pass", "delay"} /\ Lists = 0 => reset_next_schedule
    /\ DelayHandled

LEMMA PromisedSooner ==
    ASSUME NEW m \in Nat, NEW n \in Nat, NEW o \in Nat, NEW d \in Nat, NEW e \in Nat,
           m <= n, d <= e, o <= m + d
    PROVE  o <= n + e
  OBVIOUS

LEMMA SumMonotone ==
    ASSUME NEW m \in Nat, NEW c \in Nat, NEW d \in Nat, c <= d
    PROVE  m + c <= m + d
  OBVIOUS

LEMMA SmallDelaysNext ==
    ASSUME DueSoon, IInv, WalkPromised, SmallDelays, Next
    PROVE  SmallDelays'
  <1> USE DEF IInv
  <1>1. now \in Nat /\ MaxDelay \in Nat /\ EIP_TIMEOUT \in Nat /\ Lists \in Nat
    BY ScheduleAssumption DEF TypeOK
  <1>2. ASSUME now' \in Nat, now <= now', promised' = promised, period' = period,
               NEW l \in ScanList, period[l] <= MaxDelay
        PROVE  promised'[l] <= now' + MaxDelay
    BY <1>1, <1>2, PromisedSooner DEF TypeOK, SmallDelays
  <1>3. CASE BeginPass \/ ConnectFails
    <2>1. now' \in Nat /\ now <= now' /\ promised' = promised /\ period' = period
      BY <1>3, ElapseForward, ScheduleAssumption DEF BeginPass, ConnectFails, TypeOK
    <2>2. \A l \in ScanList : (period[l] <= MaxDelay => promised[l] <= now + MaxDelay)'
      BY <1>2, <2>1
    <2> QED
      BY <1>3, <2>2 DEF BeginPass, ConnectFails, SmallDelays, DelayHandled
  <1>4. CASE ScanOk \/ ScanFails
    <2>1. /\ phase = "pass" /\ list \in ScanList /\ Lists # 0 /\ period' = period
          /\ phase' \in {"pass", "begin"}
      <3>1. /\ phase = "pass" /\ list \in ScanList /\ period' = period
            /\ phase' \in {"pass", "begin"}
        BY <1>4, ScheduleAssumption DEF ScanOk, ScanFails
      <3>2. Lists # 0
        BY <1>1, <3>1
      <3> QED BY <3>1, <3>2
    <2>2. /\ now' \in Nat /\ now <= now'
          /\ promised' \in [ScanList -> Nat]
          /\ \A l \in ScanList \ {list} : promised'[l] = promised[l]
      BY <1>4, <2>1, ScanTimes
    <2>3. ASSUME NEW l \in ScanList, period[l] <= MaxDelay
          PROVE  promised'[l] <= now' + MaxDelay
      <3>1. CASE l # list
        BY <1>1, <2>2, <2>3, <3>1, PromisedSooner, SMTT(30) DEF TypeOK, SmallDelays
      <3>2. CASE l = list /\ ScanOk
        <4>1. promised'[l] = now + period[l] /\ period[l] \in Nat
          BY <3>2, ScheduleAssumption DEF ScanOk, TypeOK
        <4> QED BY <1>1, <2>2, <2>3, <4>1, PromisedSooner
      <3>3. CASE l = list /\ ScanFails
        <4>1. promised'[l] = now' + EIP_TIMEOUT
          BY <3>3 DEF ScanFails, TypeOK
        <4>2. EIP_TIMEOUT <= MaxDelay
          BY DEF DueSoon
        <4>3. now' + EIP_TIMEOUT <= now' + MaxDelay
          BY <1>1, <2>2, <4>2, SumMonotone
        <4> QED BY <4>1, <4>3
      <3> QED BY <1>4, <3>1, <3>2, <3>3
    <2> QED BY <2>1, <2>3 DEF SmallDelays, DelayHandled
  <1>5. CASE SchedulingProblem
    <2>1. phase = "delay" /\ delay > MaxDelay /\ list = Lists + 1
      BY <1>5 DEF SchedulingProblem, WalkState
    <2>2. CASE reset_next_schedule
      BY <1>1, <2>1, <2>2, ScheduleAssumption DEF delay, DueSoon
    <2>3. CASE ~reset_next_schedule
      <3>1. PICK l \in ScanList : period[l] <= MaxDelay
        BY <2>1, <2>3 DEF SmallDelays, DueSoon, TypeOK
      <3>2. l < list
        BY <1>1, <2>1
      <3>3. /\ next_schedule <= promised[l] /\ promised[l] <= now + MaxDelay
            /\ promised[l] \in Nat /\ next_schedule \in Nat
        BY <2>1, <3>1, <3>2 DEF WalkPromised, SmallDelays, TypeOK
      <3>4. delay <= MaxDelay
        BY <1>1, <2>3, <3>3 DEF delay
      <3> QED BY <1>1, <2>1, <2>3, <3>3, <3>4 DEF delay
    <2> QED BY <2>2, <2>3
  <1>6. CASE Wake
    <2>1. now' \in Nat /\ now <= now' /\ promised' = promised /\ period' = period
      BY <1>6 DEF Wake, WalkPromised, TypeOK
    <2>2. \A l \in ScanList : (period[l] <= MaxDelay => promised[l] <= now + MaxDelay)'
      BY <1>2, <2>1
    <2> QED BY <1>6, <2>2 DEF Wake, SmallDelays, DelayHandled
  <1>7. CASE NotDue
    <2>1. Lists # 0 /\ phase' = phase
      BY <1>7, ScheduleAssumption DEF NotDue
    <2> QED BY <1>7, <2>1 DEF NotDue, SmallDelays, DelayHandled
  <1>8. CASE PassDone \/ Sleep \/ Slow \/ drvEtherIP_restart \/ drvEtherIP_reset_statistics
    BY <1>8
    DEF PassDone, Sleep, Slow, drvEtherIP_restart, drvEtherIP_reset_statistics,
        Unlocked, SmallDelays, DelayHandled
  <1> QED BY <1>3, <1>4, <1>5, <1>6, <1>7, <1>8 DEF Next

\* If the wait after errors and some period are at most the minute, a delay never looks
\* wrong, so that the message with the null pointer is not reached: the counterpart of
\* the period of more than a minute that does reach it (PLC_scan_task).
THEOREM ShortDelaysHandled ==
    ASSUME DueSoon
    PROVE  Spec => []DelayHandled
  <1>1. Init => WalkPromised /\ SmallDelays
    <2>1. ASSUME Init PROVE SmallDelays
      BY <2>1, ScheduleAssumption DEF Init, SmallDelays, DelayHandled
    <2> QED BY <2>1, InitPromised
  <1>2. IInv /\ WalkPromised /\ SmallDelays /\ [Next]_vars => (WalkPromised /\ SmallDelays)'
    <2>1. CASE Next
      BY <2>1, NextPromised, SmallDelaysNext
    <2>2. CASE UNCHANGED vars
      BY <2>2 DEF WalkPromised, SmallDelays, DelayHandled
    <2> QED BY <2>1, <2>2
  <1>3. SmallDelays => DelayHandled
    BY DEF SmallDelays
  <1> QED BY <1>1, <1>2, <1>3, ScheduleInductive, PTL DEF Spec
=============================================================================
