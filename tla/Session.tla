------------------------------- MODULE Session -------------------------------
(* One TCP connection to a PLC and the transactions on it, ether_ip.c and    *)
(* its callers in drvEtherIP.c: EIP_startup with ListServices,               *)
(* RegisterSession and the identity of the target, the reads that size the   *)
(* tags, the multi-requests of the scan, and the shell commands that list    *)
(* tags and describe types. PLC.lock lets one of these run at a time.        *)
(*                                                                           *)
(* TCP neither loses nor reorders bytes, but the PLC may answer late, in any *)
(* order or not at all, while the client waits only for a time-out. The      *)
(* bytes of a late answer are then what the next transaction reads first,    *)
(* and a read takes what is there: it may swallow the answer that follows,   *)
(* or a piece of it. Only the transaction ID tells whose answer it is.       *)
EXTENDS Naturals, Sequences, FiniteSets

CONSTANTS Ids,          \* transaction IDs
          NTags,        \* number of tags of the PLC, in the order of its lists
          Sessions,     \* session handles that the PLC gives
          NoSession,    \* handle of a connection without session: calloc's 0
          NoRequest,    \* nothing is being waited for
          ListParts,    \* bound: replies of which a list of tags is made up
          MaxLate,      \* bound: requests that are still to be answered late
          MaxCommands   \* bound: shell commands

ASSUME SessionAssumption ==
    /\ NTags \in Nat /\ ListParts \in Nat /\ MaxLate \in Nat /\ MaxCommands \in Nat
    /\ NoSession \notin Sessions

VARIABLES sock,         \* EIPConnection.sock is open
          session,      \* EIPConnection.session
          doing,        \* the function that uses the connection, or "idle"
          step,         \* its position: which attribute, tag, part or phase
          waiting,      \* the request whose answer it waits for
          result,       \* the request to which the answer it got belongs
          size,         \* the tag from whose answer the sizes of a tag are
          asked,        \* requests that the PLC has not answered yet
          stream,       \* what is to be read from the socket, in order
          plcSession,   \* the session the PLC has for this connection
          commands      \* number of shell commands so far

client == <<session, doing, step, waiting, result, size>>
wire   == <<asked, stream>>
vars   == <<sock, client, wire, plcSession, commands>>

Tags == 1 .. NTags

(* vendor, device type, revision, serial number and name *)
Attributes == 1 .. 5

(* The functions that make one request after the other. *)
Kinds == {"services", "register", "attribute", "read", "multi", "list", "describe"}

Request == [id : Ids, kind : Kinds, step : Nat, session : Sessions \cup {NoSession}]

ASSUME NoRequestAssumption == NoRequest \notin Request

(* An answer carries the ID of the request it answers, a status, and the     *)
(* session of the connection it came on. Torn is what is left of an answer   *)
(* of which a piece was read before: it does not look like any answer.       *)
Torn == [torn |-> TRUE]
Reply(r, status, s) == [torn |-> FALSE, to |-> r, status |-> status, session |-> s]
Replies == {Torn} \cup
    [torn : {FALSE}, to : Request, status : {"good", "partial", "error"},
     session : Sessions \cup {NoSession}]

Init == /\ sock = FALSE /\ session = NoSession
        /\ doing = "idle" /\ step = 0
        /\ waiting = NoRequest /\ result = NoRequest
        /\ size = [t \in Tags |-> 0]
        /\ asked = {} /\ stream = <<>>
        /\ plcSession = NoSession /\ commands = 0
-----------------------------------------------------------------------------
(* Building blocks of the transactions. *)

(* IDs of answers that can still come on this connection. *)
OutstandingIds ==
    {r.id : r \in asked} \cup
    {stream[i].to.id : i \in {j \in 1 .. Len(stream) : ~stream[j].torn}}

Goto(function, position) == doing' = function /\ step' = position

Idle == Goto("idle", 0)

(* The connection stays, with what is left on the wire. *)
Keep(late, left) == asked' = late /\ stream' = left /\ UNCHANGED sock

(* EIP_disconnect: answers that come later go nowhere. *)
EIP_disconnect == asked' = {} /\ stream' = <<>> /\ sock' = FALSE

(* disconnect_PLC: EIP_shutdown unregisters the session, for which there is  *)
(* no answer, and closes the socket; session keeps its last value.           *)
disconnect_PLC == EIP_disconnect

(* The answer is for the request the caller made: the function's own checks  *)
(* of command, service and status, and the transaction ID.                   *)
SameService(r, reply) ==
    /\ reply.to.kind = r.kind
    /\ r.kind = "describe" => reply.to.step = r.step

(* Mutant: the ID is not compared. *)
Accepts_AnyId(r, reply) ==
    ~reply.torn /\ SameService(r, reply) /\ reply.status # "error"

Accepts(r, reply) ==
    /\ ~reply.torn
    /\ SameService(r, reply)
    /\ reply.status = "good" \/ (reply.status = "partial" /\ r.kind = "list")
    /\ reply.to.id = r.id
-----------------------------------------------------------------------------
(* What each function does with the outcome of its transaction: ok, or no    *)
(* usable answer. late and left are the wire after it.                       *)

EIP_list_services(ok, late, left) ==
    /\ doing = "services"
    /\ IF ok THEN Goto("register", 0) /\ Keep(late, left)
             ELSE Idle /\ EIP_disconnect
    /\ UNCHANGED <<session, size>>

(* Mutant: startup goes on when the registration failed. *)
EIP_register_session_GoesOn(ok, reply, late, left) ==
    /\ doing = "register"
    /\ session' = IF ok THEN reply.session ELSE session
    /\ Goto("attribute", 1) /\ Keep(late, left)
    /\ UNCHANGED size

(* The session is taken from any good answer to a registration, before the   *)
(* ID is compared.                                                           *)
EIP_register_session(ok, reply, late, left) ==
    /\ doing = "register"
    /\ session' = IF ~reply.torn /\ reply.to.kind = "register" /\ reply.status = "good"
                  THEN reply.session ELSE session
    /\ IF ok THEN Goto("attribute", 1) /\ Keep(late, left)
             ELSE Idle /\ EIP_disconnect
    /\ UNCHANGED size

(* After the identity, whether it is known or not: sizing the tags. *)
StartSizing == IF NTags = 0 THEN Idle ELSE Goto("read", 1)

(* Mutant: one attribute too many. *)
EIP_check_interface_Beyond(ok, late, left) ==
    /\ doing = "attribute"
    /\ IF ok /\ step <= 5 THEN Goto("attribute", step + 1) ELSE StartSizing
    /\ Keep(late, left)
    /\ UNCHANGED <<session, size>>

(* The first attribute that cannot be read ends the check, and the failure   *)
(* is ignored: the connection stays.                                         *)
EIP_check_interface(ok, late, left) ==
    /\ doing = "attribute"
    /\ IF ok /\ step < 5 THEN Goto("attribute", step + 1) ELSE StartSizing
    /\ Keep(late, left)
    /\ UNCHANGED <<session, size>>

(* Mutant: the sizes are kept although the answer is for another request. *)
complete_PLC_ScanList_TagInfos_KeepsSize(ok, reply, late, left) ==
    /\ doing = "read"
    /\ size' = [size EXCEPT ![step] = IF ~reply.torn /\ reply.to.kind = "read"
                                      THEN reply.to.step ELSE 0]
    /\ \/ step < NTags /\ Goto("read", step + 1) /\ Keep(late, left)
       \/ step = NTags /\ Idle /\ Keep(late, left)
    /\ UNCHANGED session

(* EIP_read_tag hands out the size of any answer, its caller forgets it when *)
(* the read failed. After the last tag the connection is good if any tag     *)
(* could be read.                                                            *)
complete_PLC_ScanList_TagInfos(ok, reply, late, left) ==
    /\ doing = "read"
    /\ size' = [size EXCEPT ![step] = IF ok THEN reply.to.step ELSE 0]
    /\ \/ step < NTags /\ Goto("read", step + 1) /\ Keep(late, left)
       \/ /\ step = NTags
          /\ Idle
          /\ IF \E t \in Tags : size'[t] # 0 THEN Keep(late, left) ELSE disconnect_PLC
    /\ UNCHANGED session

(* Mutant: the scan goes on with the connection it has. *)
process_ScanList_Stays(ok, late, left) ==
    /\ doing = "multi"
    /\ Idle
    /\ Keep(late, left)
    /\ UNCHANGED <<session, size>>

(* Without a good answer to its multi-request the scan drops the connection. *)
process_ScanList(ok, late, left) ==
    /\ doing = "multi"
    /\ Idle
    /\ IF ok THEN Keep(late, left) ELSE disconnect_PLC
    /\ UNCHANGED <<session, size>>

(* The commands of the shell end at the first failure and leave the          *)
(* connection as it is.                                                      *)
EIP_list_tags(ok, reply, late, left) ==
    /\ doing = "list"
    /\ IF ok /\ reply.status = "partial" THEN Goto("list", step + 1) ELSE Idle
    /\ Keep(late, left)
    /\ UNCHANGED <<session, size>>

EIP_describe_type(ok, late, left) ==
    /\ doing = "describe"
    /\ IF ok /\ step = 1 THEN Goto("describe", 2) ELSE Idle
    /\ Keep(late, left)
    /\ UNCHANGED <<session, size>>

Conclude(ok, reply, late, left) ==
    /\ waiting' = NoRequest
    /\ result' = IF ok THEN reply.to ELSE NoRequest
    /\ \/ EIP_list_services(ok, late, left)
       \/ EIP_register_session(ok, reply, late, left)
       \/ EIP_check_interface(ok, late, left)
       \/ complete_PLC_ScanList_TagInfos(ok, reply, late, left)
       \/ process_ScanList(ok, late, left)
       \/ EIP_list_tags(ok, reply, late, left)
       \/ EIP_describe_type(ok, late, left)
    /\ UNCHANGED <<plcSession, commands>>
-----------------------------------------------------------------------------
(* The transactions. *)

(* generateTransactionId, the header with the session, and the send. The     *)
(* counter is shared by all PLCs and comes round after 2^31 requests: an ID  *)
(* for which an answer may still come on this connection is not given again. *)
Send ==
    /\ sock /\ doing # "idle" /\ waiting = NoRequest
    /\ \E id \in Ids \ OutstandingIds :
        LET r == [id |-> id, kind |-> doing, step |-> step, session |-> session]
        IN  waiting' = r /\ asked' = asked \cup {r}
    /\ result' = NoRequest
    /\ UNCHANGED <<sock, session, doing, step, size, stream, plcSession, commands>>

(* Always when the socket is closed: list and describe do not look at it. *)
SendFails ==
    /\ doing # "idle" /\ waiting = NoRequest
    /\ Conclude(FALSE, Torn, asked, stream)

(* EIP_read_connection_buffer: the first answer in the socket is used, and   *)
(* what follows it may be read along with it, as a whole or in part.         *)
ReadsTo(n, torn) ==
    LET rest == SubSeq(stream, n + 1, Len(stream))
    IN  IF torn THEN [rest EXCEPT ![1] = Torn] ELSE rest

Read ==
    /\ waiting # NoRequest
    /\ \E n \in 1 .. Len(stream), torn \in BOOLEAN :
        /\ torn => n < Len(stream)
        /\ Conclude(Accepts(waiting, stream[1]), stream[1], asked, ReadsTo(n, torn))

(* Nothing came in time: the answer comes later or never. *)
TimeOut ==
    /\ waiting # NoRequest /\ stream = <<>>
    /\ \/ Cardinality(asked) <= MaxLate /\ Conclude(FALSE, Torn, asked, <<>>)
       \/ Conclude(FALSE, Torn, asked \ {waiting}, <<>>)

(* A piece of an answer came in time, the rest comes later. *)
TimeOutInside ==
    /\ waiting # NoRequest /\ stream = <<>>
    /\ \E r \in asked : Conclude(FALSE, Torn, asked \ {r}, <<Torn>>)
-----------------------------------------------------------------------------
(* The users of the connection, each under PLC.lock. *)

(* assert_PLC_connect, EIP_startup: a new connection has no session yet.     *)
(* When the TCP connection cannot be made, nothing changes.                  *)
EIP_startup ==
    /\ doing = "idle" /\ ~sock
    /\ sock' = TRUE /\ Goto("services", 0)
    /\ plcSession' = NoSession
    /\ result' = NoRequest
    /\ UNCHANGED <<session, waiting, size, wire, commands>>

(* The scan has something to send as soon as one tag has its sizes. *)
StartScan ==
    /\ doing = "idle" /\ sock
    /\ \E t \in Tags : size[t] # 0
    /\ Goto("multi", 0)
    /\ UNCHANGED <<sock, session, waiting, result, size, wire, plcSession, commands>>

(* drvEtherIP_list, drvEtherIP_describe: whether connected or not. *)
StartCommand ==
    /\ doing = "idle" /\ commands < MaxCommands
    /\ commands' = commands + 1
    /\ Goto("list", 1) \/ Goto("describe", 1)
    /\ UNCHANGED <<sock, session, waiting, result, size, wire, plcSession>>

drvEtherIP_restart ==
    /\ doing = "idle" /\ sock /\ commands < MaxCommands
    /\ commands' = commands + 1
    /\ disconnect_PLC
    /\ result' = NoRequest
    /\ UNCHANGED <<session, doing, step, waiting, size, plcSession>>
-----------------------------------------------------------------------------
(* The PLC answers any request, good only if it knows the session. *)
PlcAnswers ==
    \E r \in asked, status \in {"good", "partial", "error"} :
        /\ status = "partial" => r.kind = "list" /\ r.step < ListParts
        /\ status # "error" => r.kind \in {"services", "register"} \/ r.session = plcSession
        /\ asked' = asked \ {r}
        /\ IF r.kind = "register" /\ status = "good"
           THEN plcSession' \in Sessions \ {session, plcSession}
           ELSE UNCHANGED plcSession
        /\ stream' = Append(stream, Reply(r, status, plcSession'))
        /\ UNCHANGED <<sock, client, commands>>
-----------------------------------------------------------------------------
Transaction == Send \/ SendFails \/ Read \/ TimeOut \/ TimeOutInside

Next == \/ Send \/ SendFails \/ Read \/ TimeOut \/ TimeOutInside
        \/ EIP_startup \/ StartScan \/ StartCommand \/ drvEtherIP_restart
        \/ PlcAnswers

Spec == Init /\ [][Next]_vars

(* Whoever has PLC.lock goes on: a read ends by its time-out at the latest.  *)
(* The scan task comes round as long as the IOC runs. Nothing is assumed of  *)
(* the PLC and of the users of the shell.                                    *)
FairSpec == Spec /\ WF_vars(Transaction) /\ WF_vars(StartScan)
-----------------------------------------------------------------------------
(* Every variable stays in its range, and the wire within its bounds. *)
TypeOK ==
    /\ sock \in BOOLEAN
    /\ session \in Sessions \cup {NoSession}
    /\ plcSession \in Sessions \cup {NoSession}
    /\ doing \in Kinds \cup {"idle"}
    /\ step \in Nat
    /\ doing = "attribute" => step \in Attributes
    /\ doing = "read" => step \in Tags
    /\ doing = "describe" => step \in {1, 2}
    /\ waiting \in Request \cup {NoRequest}
    /\ result \in Request \cup {NoRequest}
    /\ size \in [Tags -> Nat]
    /\ asked \subseteq Request
    /\ stream \in Seq(Replies)
    /\ commands \in 0 .. MaxCommands

(* Of all that may still be read from the socket, late answers and leftovers *)
(* of the same service included, a transaction accepts the answer to its own *)
(* request only (the comparisons of transaction IDs in ether_ip.c).          *)
AnswerIsOwn ==
    waiting # NoRequest =>
        \A i \in 1 .. Len(stream) :
            Accepts(waiting, stream[i]) => stream[i].to = waiting

(* Once EIP_startup has registered, every request carries the session that   *)
(* the PLC has for this very connection, and none that is left from before.  *)
SessionKnown ==
    sock /\ doing \notin {"services", "register"} =>
        session = plcSession /\ plcSession # NoSession

(* A tag's sizes come from the answer for this tag and never from that for   *)
(* another one, although EIP_read_tag hands out the size before it compares  *)
(* the IDs: packing a multi-request relies on them.                          *)
SizesAreOwn == \A t \in Tags : size[t] \in {0, t}

(* Nothing is to be read but the answer that is waited for. *)
InStep == \A i \in 1 .. Len(stream) : ~stream[i].torn /\ stream[i].to = waiting

(* After a late answer or a torn one all further answers are one behind. It  *)
(* does not stay so: the scan drops the connection (process_ScanList), also  *)
(* when a shell command or the ignored identity check was what lost step.    *)
Resync == ~InStep ~> InStep

(* The connection keeps the promise of SessionPromise. *)
Promise == INSTANCE SessionPromise WITH
    Requests <- Request,
    Nothing  <- NoRequest,
    phase    <- IF ~sock THEN "closed"
                ELSE IF doing \in {"services", "register"} THEN "opening" ELSE "open",
    pending  <- waiting,
    result   <- result
PromiseKept == Promise!Spec
=============================================================================
