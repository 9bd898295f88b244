---------------------------- MODULE TagPromise ----------------------------
(***************************************************************************)
(* What the driver promises to device support about the data of a tag,     *)
(* with no scan task, no lists, no packing and no locks: the abstract      *)
(* specification that TagTransfer implements.                              *)
(*                                                                         *)
(*   - A write that is owed to the PLC is settled only once the PLC took   *)
(*     the newest value that was requested, or refused it.                 *)
(*   - While a write is owed, nothing but a newer write request replaces   *)
(*     the value.                                                          *)
(*   - Values come from the PLC only while the connection is up, and no    *)
(*     value of an earlier connection is shown on a new one.               *)
(***************************************************************************)
CONSTANTS Tag, Value, NoValue

VARIABLES
    data,     \* the value device support sees
    valid,    \* whether it may use the value
    owed,     \* a requested write that the PLC did not confirm
    landed,   \* the value of a write that the PLC took, until that is noticed
    up        \* connected

vars == <<data, valid, owed, landed, up>>

Init ==
    /\ data = [t \in Tag |-> NoValue]
    /\ valid = [t \in Tag |-> FALSE]
    /\ owed = [t \in Tag |-> FALSE]
    /\ landed = [t \in Tag |-> NoValue]
    /\ up = FALSE

\* Device support requests that a valid tag gets another value.
Request(t, v) ==
    /\ valid[t]
    /\ data' = [data EXCEPT ![t] = v]
    /\ owed' = [owed EXCEPT ![t] = TRUE]
    /\ UNCHANGED <<valid, landed, up>>

\* The PLC takes writes of some tags, all of them owed.
Land ==
    /\ up
    /\ landed' \in [Tag -> Value \union {NoValue}]
    /\ \A t \in Tag : landed'[t] # landed[t] => owed[t]
    /\ UNCHANGED <<data, valid, owed, up>>

\* The PLC has the newest value: the write is done.
Settle(t) ==
    /\ up
    /\ owed[t]
    /\ landed[t] = data[t]
    /\ owed' = [owed EXCEPT ![t] = FALSE]
    /\ landed' = [landed EXCEPT ![t] = NoValue]
    /\ UNCHANGED <<data, valid, up>>

\* The PLC took a value, but the write of a newer one is owed.
SettleOlder(t) ==
    /\ up
    /\ owed[t]
    /\ landed' = [landed EXCEPT ![t] = NoValue]
    /\ UNCHANGED <<data, valid, owed, up>>

\* The PLC refused a write.  A newer request stays owed.
Refuse(t) ==
    /\ up
    /\ owed[t]
    /\ valid' = [valid EXCEPT ![t] = FALSE]
    /\ owed' \in {owed, [owed EXCEPT ![t] = FALSE]}
    /\ landed' = [landed EXCEPT ![t] = NoValue]
    /\ UNCHANGED <<data, up>>

\* A value of the PLC is shown, unless that would replace one it is owed.
Show(t, v) ==
    /\ up
    /\ ~owed[t]
    /\ data' = [data EXCEPT ![t] = v]
    /\ valid' = [valid EXCEPT ![t] = TRUE]
    /\ UNCHANGED <<owed, landed, up>>

\* The PLC has no value for the tag.
Blank(t) ==
    /\ up
    /\ ~owed[t]
    /\ valid' = [valid EXCEPT ![t] = FALSE]
    /\ UNCHANGED <<data, owed, landed, up>>

\* Which writes the PLC took is not known any more.
Down ==
    /\ up' = FALSE
    /\ landed' = [t \in Tag |-> NoValue]
    /\ UNCHANGED <<data, valid, owed>>

\* After the connection is lost, each tag gets invalid, and the writes under
\* way are given up.
Lose(t) ==
    /\ ~up
    /\ valid' = [valid EXCEPT ![t] = FALSE]
    /\ owed' \in {owed, [owed EXCEPT ![t] = FALSE]}
    /\ UNCHANGED <<data, landed, up>>

Up ==
    /\ \A t \in Tag : ~valid[t]
    /\ up' = TRUE
    /\ UNCHANGED <<data, valid, owed, landed>>

Next ==
    \/ Land \/ Down \/ Up
    \/ \E t \in Tag : Settle(t) \/ SettleOlder(t) \/ Refuse(t) \/ Blank(t) \/ Lose(t)
    \/ \E t \in Tag, v \in Value : Request(t, v) \/ Show(t, v)

Spec == Init /\ [][Next]_vars
=============================================================================
