--------------------------- MODULE SessionPromise ---------------------------
(* What a connection to a PLC promises to the driver, whatever happens on    *)
(* the wire: it is opened, registers a session, and from then on a request   *)
(* either gets the answer the PLC gave to this very request, or fails.       *)
(* Session implements it.                                                    *)
CONSTANTS Requests,  \* what can be asked
          Nothing    \* no request, no answer

VARIABLES phase,     \* "closed", "opening" or "open"
          pending,   \* the request that waits for its answer
          result     \* the request whose answer the caller has got

promised == <<phase, pending, result>>

Init == phase = "closed" /\ pending = Nothing /\ result = Nothing

(* A new connection starts without a session. *)
Open == /\ phase = "closed" /\ phase' = "opening"
        /\ pending' = Nothing /\ result' = Nothing

Ask == /\ phase # "closed"
       /\ pending = Nothing /\ pending' \in Requests
       /\ result' = Nothing
       /\ UNCHANGED phase

(* The caller gets the answer to what it asked; the answer to the            *)
(* registration opens the session.                                           *)
Answer == /\ pending # Nothing
          /\ result' = pending /\ pending' = Nothing
          /\ \/ UNCHANGED phase
             \/ phase = "opening" /\ phase' = "open"

(* The caller gets nothing, and may keep or close the connection. *)
Fail == /\ pending' = Nothing /\ result' = Nothing
        /\ phase' \in {phase, "closed"}

Next == Open \/ Ask \/ Answer \/ Fail

Spec == Init /\ [][Next]_promised
=============================================================================
