---------------------------- MODULE SessionProofs ----------------------------
(* Every transaction gets its own answer, for any number of tags, IDs and    *)
(* late answers. What makes the argument inductive is Own, that no other     *)
(* message of the connection has the ID that is waited for, and              *)
(* Registration, that the one answer to the registration is on the wire only *)
(* while it is waited for: afterwards the PLC's session cannot change.       *)
EXTENDS MCSession, MessageProofs, SequenceTheorems, TLAPS

(* A closed connection is quiet: only the shell commands may be about to use *)
(* it.                                                                       *)
Closed == ~sock => /\ asked = {} /\ stream = <<>> /\ waiting = NoRequest
                   /\ doing \in {"idle", "list", "describe"}

(* The request was made by the function that is at work. *)
Doing == waiting # NoRequest => waiting.kind = doing /\ waiting.step = step

Own == waiting # NoRequest =>
    /\ \A r \in asked : r.id = waiting.id => r = waiting
    /\ \A i \in 1 .. Len(stream) :
        ~stream[i].torn /\ stream[i].to.id = waiting.id => stream[i].to = waiting

IsRegistration(reply) == ~reply.torn /\ reply.to.kind = "register"

Registration ==
    /\ \A r \in asked : r.kind = "register" => doing = "register" /\ waiting = r
    /\ \A i \in 1 .. Len(stream) : IsRegistration(stream[i]) =>
        /\ doing = "register" /\ waiting = stream[i].to
        /\ stream[i].to \notin asked
        /\ stream[i].status = "good" =>
            stream[i].session = plcSession /\ plcSession # NoSession
        /\ \A j \in 1 .. Len(stream) : IsRegistration(stream[j]) => j = i

IInv == /\ TypeOK /\ Closed /\ Doing /\ Own /\ Registration
        /\ SessionKnown /\ SizesAreOwn

(* What a transaction may leave on the wire and what it may have accepted,   *)
(* as far as the invariant is concerned.                                     *)
Leaves(ok, reply, late, left) ==
    /\ ok \in BOOLEAN /\ reply \in Replies
    /\ late \subseteq asked /\ left \in Seq(Replies)
    /\ \A i \in 1 .. Len(left) :
        left[i].torn \/ \E j \in 1 .. Len(stream) : left[i] = stream[j]
    /\ ~sock => left = <<>>
    /\ ok => /\ waiting # NoRequest /\ ~reply.torn /\ reply.to = waiting
             /\ doing = "register" =>
                    /\ reply.status = "good" /\ reply.to.kind = "register"
                    /\ reply.session = plcSession /\ plcSession # NoSession
                    /\ \A i \in 1 .. Len(left) : ~IsRegistration(left[i])
                    /\ \A r \in late : r.kind # "register"

(* Nothing is left of a registration that was not accepted, or of one that   *)
(* never was.                                                                *)
LEMMA NoRegistrationLeft ==
    ASSUME IInv, NEW ok, NEW reply, NEW late, NEW left,
           Leaves(ok, reply, late, left), ok \/ doing # "register"
    PROVE  /\ \A i \in 1 .. Len(left) : ~IsRegistration(left[i])
           /\ \A r \in late : r.kind # "register"
<1>1. CASE doing = "register"
  BY <1>1 DEF Leaves
<1>2. CASE doing # "register"
  BY <1>2 DEF Leaves, IInv, Registration, IsRegistration
<1> QED BY <1>1, <1>2

(* The end of a transaction, in any of the functions, keeps the invariant.   *)
(* The connection is kept with what is left, or closed and quiet.            *)
LEMMA ConcludeKeeps ==
    ASSUME IInv, NEW ok, NEW reply, NEW late, NEW left,
           Leaves(ok, reply, late, left), Conclude(ok, reply, late, left),
           doing # "idle"
    PROVE  IInv'
<1> USE SessionAssumption, NoRequestAssumption
<1>1. /\ waiting' = NoRequest /\ plcSession' = plcSession /\ commands' = commands
      /\ result' = IF ok THEN reply.to ELSE NoRequest
  BY DEF Conclude
<1>2. /\ doing' \in Kinds \cup {"idle"} /\ step' \in Nat
      /\ doing' = "attribute" => step' \in Attributes
      /\ doing' = "read" => step' \in Tags
      /\ doing' = "describe" => step' \in {1, 2}
      /\ doing' = "services" => FALSE
      /\ doing' = "register" => ok /\ doing = "services"
      /\ ~sock' => doing' \in {"idle", "list", "describe"}
  <2>1. CASE EIP_list_services(ok, late, left)
    BY <2>1 DEF EIP_list_services, Goto, Idle, Keep, EIP_disconnect, Kinds, IInv, Closed, TypeOK
  <2>2. CASE EIP_register_session(ok, reply, late, left)
    BY <2>2 DEF EIP_register_session, Goto, Idle, Keep, EIP_disconnect, Kinds, IInv, Closed, TypeOK, Attributes
  <2>3. CASE EIP_check_interface(ok, late, left)
    BY <2>3 DEF EIP_check_interface, StartSizing, Goto, Idle, Keep, EIP_disconnect, Kinds, IInv, Closed, TypeOK, Attributes, Tags
  <2>4. CASE complete_PLC_ScanList_TagInfos(ok, reply, late, left)
    BY <2>4 DEF complete_PLC_ScanList_TagInfos, Goto, Idle, Keep, disconnect_PLC, EIP_disconnect, Kinds, IInv, Closed, TypeOK, Tags
  <2>5. CASE process_ScanList(ok, late, left)
    BY <2>5 DEF process_ScanList, Goto, Idle, Kinds
  <2>6. CASE EIP_list_tags(ok, reply, late, left)
    BY <2>6 DEF EIP_list_tags, Goto, Idle, Kinds, IInv, TypeOK
  <2>7. CASE EIP_describe_type(ok, late, left)
    BY <2>7 DEF EIP_describe_type, Goto, Idle, Kinds, IInv, TypeOK
  <2> QED BY <2>1, <2>2, <2>3, <2>4, <2>5, <2>6, <2>7 DEF Conclude
<1>3. \/ asked' = late /\ stream' = left /\ sock' = sock /\ (ok \/ doing # "register")
      \/ asked' = {} /\ stream' = <<>> /\ sock' = FALSE
  BY DEF Conclude, EIP_list_services, EIP_register_session, EIP_check_interface,
         complete_PLC_ScanList_TagInfos, process_ScanList, EIP_list_tags,
         EIP_describe_type, Keep, disconnect_PLC, EIP_disconnect
<1>4. /\ session' \in Sessions \cup {NoSession}
      /\ session' = session \/ (doing = "register" /\ ~reply.torn /\ session' = reply.session)
      /\ doing = "register" /\ ok => session' = reply.session
  <2>1. ~reply.torn => reply.session \in Sessions \cup {NoSession}
    <3>1. CASE reply = Torn
      BY <3>1 DEF Torn
    <3>2. CASE reply # Torn
      BY <3>2 DEF Leaves, Replies
    <3> QED BY <3>1, <3>2
  <2> QED BY <2>1 DEF Conclude, EIP_list_services, EIP_register_session, EIP_check_interface,
         complete_PLC_ScanList_TagInfos, process_ScanList, EIP_list_tags,
         EIP_describe_type, IInv, TypeOK, Leaves
<1>5. size' \in [Tags -> Nat] /\ SizesAreOwn'
  <2>1. CASE complete_PLC_ScanList_TagInfos(ok, reply, late, left)
    <3>1. ok => reply.to.step = step
      BY <2>1 DEF Leaves, IInv, Doing
    <3>2. size' = [size EXCEPT ![step] = IF ok THEN step ELSE 0] /\ step \in Tags
      BY <2>1, <3>1 DEF complete_PLC_ScanList_TagInfos, IInv, TypeOK
    <3> QED BY <3>2 DEF IInv, TypeOK, SizesAreOwn, Tags
  <2>2. CASE size' = size
    BY <2>2 DEF IInv, TypeOK, SizesAreOwn
  <2> QED BY <2>1, <2>2 DEF Conclude, EIP_list_services, EIP_register_session,
         EIP_check_interface, process_ScanList, EIP_list_tags, EIP_describe_type
<1>6. TypeOK'
  <2>1. sock' \in BOOLEAN /\ asked' \subseteq Request /\ stream' \in Seq(Replies)
    <3>1. CASE asked' = late /\ stream' = left /\ sock' = sock
      BY <3>1 DEF Leaves, IInv, TypeOK
    <3>2. CASE asked' = {} /\ stream' = <<>> /\ sock' = FALSE
      BY <3>2, EmptySeq
    <3> QED BY <1>3, <3>1, <3>2
  <2>2. result' \in Request \cup {NoRequest}
    <3>1. waiting \in Request \cup {NoRequest}
      BY DEF IInv, TypeOK
    <3>2. CASE ok
      BY <1>1, <3>1, <3>2 DEF Leaves
    <3>3. CASE ~ok
      BY <1>1, <3>3
    <3> QED BY <3>2, <3>3
  <2> QED BY <1>1, <1>2, <1>4, <1>5, <2>1, <2>2 DEF IInv, TypeOK
<1>7. Closed'
  <2>1. CASE sock' = sock /\ asked' = late /\ stream' = left
    BY <1>1, <1>2, <2>1 DEF Closed, IInv, Leaves
  <2>2. CASE asked' = {} /\ stream' = <<>> /\ sock' = FALSE
    BY <1>1, <1>2, <2>2 DEF Closed
  <2> QED BY <1>3, <2>1, <2>2
<1>8. Doing' /\ Own'
  BY <1>1 DEF Doing, Own
<1>9. Registration'
  <2>1. CASE asked' = late /\ stream' = left /\ (ok \/ doing # "register")
    BY <2>1, NoRegistrationLeft DEF Registration, IsRegistration
  <2>2. CASE asked' = {} /\ stream' = <<>> /\ sock' = FALSE
    BY <2>2 DEF Registration
  <2> QED BY <1>3, <2>1, <2>2
<1>10. SessionKnown'
  <2> SUFFICES ASSUME sock', doing' \notin {"services", "register"}
               PROVE  session' = plcSession' /\ plcSession' # NoSession
    BY DEF SessionKnown
  <2>1. sock /\ (ok \/ doing # "register")
    BY <1>3
  <2>2. CASE doing = "register"
    BY <1>1, <1>4, <2>1, <2>2 DEF Leaves
  <2>3. CASE doing = "services"
    BY <2>3 DEF Conclude, EIP_list_services, EIP_register_session, EIP_check_interface,
         complete_PLC_ScanList_TagInfos, process_ScanList, EIP_list_tags,
         EIP_describe_type, Goto, EIP_disconnect
  <2>4. CASE doing \notin {"services", "register"}
    BY <1>1, <1>4, <2>1, <2>4 DEF IInv, SessionKnown
  <2> QED BY <2>2, <2>3, <2>4
<1> QED BY <1>5, <1>6, <1>7, <1>8, <1>9, <1>10 DEF IInv

(* Without a function at work nothing is waited for, and no registration is  *)
(* on the wire.                                                              *)
LEMMA IdleIsQuiet ==
    ASSUME IInv, doing = "idle"
    PROVE  /\ waiting = NoRequest
           /\ \A r \in asked : r.kind # "register"
           /\ \A i \in 1 .. Len(stream) : ~IsRegistration(stream[i])
<1>1. waiting \in Request => waiting.kind \in Kinds
  BY DEF Request
<1> QED BY <1>1 DEF IInv, TypeOK, Doing, Kinds, Registration

(* A function that waits for an answer is at work, on an open connection.    *)
LEMMA WaitingIsBusy ==
    ASSUME IInv, waiting # NoRequest
    PROVE  sock /\ doing # "idle" /\ waiting \in Request
BY IdleIsQuiet DEF IInv, TypeOK, Closed

LEMMA SendKeeps == ASSUME IInv, Send PROVE IInv'
<1> USE SessionAssumption, NoRequestAssumption
<1>1. PICK id \in Ids \ OutstandingIds :
        LET r == [id |-> id, kind |-> doing, step |-> step, session |-> session]
        IN  waiting' = r /\ asked' = asked \cup {r}
  BY DEF Send
<1> DEFINE r == [id |-> id, kind |-> doing, step |-> step, session |-> session]
<1>2. /\ sock /\ doing # "idle" /\ waiting = NoRequest /\ result' = NoRequest
      /\ waiting' = r /\ asked' = asked \cup {r}
      /\ UNCHANGED <<sock, session, doing, step, size, stream, plcSession, commands>>
  BY <1>1 DEF Send
<1>3. r \in Request /\ r.id = id /\ r.kind = doing /\ r.step = step
  BY <1>2 DEF IInv, TypeOK, Request
<1>4. /\ \A q \in asked : q.id # id
      /\ \A i \in 1 .. Len(stream) : ~stream[i].torn => stream[i].to.id # id
  BY DEF OutstandingIds
<1>5. /\ \A q \in asked : q.kind # "register"
      /\ \A i \in 1 .. Len(stream) : ~IsRegistration(stream[i])
  <2>1. \A q \in asked : q # NoRequest
    BY DEF IInv, TypeOK
  <2>2. ASSUME NEW i \in 1 .. Len(stream), ~stream[i].torn PROVE stream[i].to # NoRequest
    <3>1. stream[i] \in Replies /\ stream[i] # Torn
      BY <2>2 DEF IInv, TypeOK, Torn
    <3> QED BY <3>1 DEF Replies
  <2> QED BY <1>2, <2>1, <2>2 DEF IInv, Registration, IsRegistration
<1> HIDE DEF r
<1>6. TypeOK'
  BY <1>2, <1>3 DEF IInv, TypeOK
<1>7. Closed' /\ SessionKnown' /\ SizesAreOwn'
  BY <1>2 DEF IInv, Closed, SessionKnown, SizesAreOwn
<1>8. Doing' /\ Own'
  BY <1>2, <1>3, <1>4 DEF Doing, Own
<1>9. Registration'
  BY <1>2, <1>3, <1>5 DEF Registration, IsRegistration
<1> QED BY <1>6, <1>7, <1>8, <1>9 DEF IInv

LEMMA TornIsReply == Torn \in Replies /\ Torn.torn = TRUE
BY DEF Replies, Torn

(* A transaction that ends without an answer. *)
LEMMA FailureLeaves ==
    ASSUME IInv, NEW late \in SUBSET asked, NEW left,
           left = stream \/ left = <<>> \/ (left = <<Torn>> /\ sock)
    PROVE  Leaves(FALSE, Torn, late, left)
<1>1. left \in Seq(Replies)
  <2>1. stream \in Seq(Replies) /\ <<>> \in Seq(Replies) /\ <<Torn>> \in Seq(Replies)
    BY TornIsReply, EmptySeq DEF IInv, TypeOK
  <2> QED BY <2>1
<1>2. ASSUME NEW i \in 1 .. Len(left)
      PROVE  left[i].torn \/ \E j \in 1 .. Len(stream) : left[i] = stream[j]
  BY <1>2, TornIsReply
<1> QED BY <1>1, <1>2, TornIsReply DEF Leaves, IInv, Closed

LEMMA SendFailsKeeps == ASSUME IInv, SendFails PROVE IInv'
<1>1. Leaves(FALSE, Torn, asked, stream)
  BY FailureLeaves
<1> QED BY <1>1, ConcludeKeeps DEF SendFails

LEMMA TimeOutKeeps == ASSUME IInv, TimeOut PROVE IInv'
<1>1. doing # "idle"
  BY WaitingIsBusy DEF TimeOut
<1>2. Leaves(FALSE, Torn, asked, <<>>) /\ Leaves(FALSE, Torn, asked \ {waiting}, <<>>)
  BY FailureLeaves
<1> QED BY <1>1, <1>2, ConcludeKeeps DEF TimeOut

LEMMA TimeOutInsideKeeps == ASSUME IInv, TimeOutInside PROVE IInv'
<1>1. PICK r \in asked : Conclude(FALSE, Torn, asked \ {r}, <<Torn>>)
  BY DEF TimeOutInside
<1>2. doing # "idle" /\ sock
  BY WaitingIsBusy DEF TimeOutInside
<1>3. Leaves(FALSE, Torn, asked \ {r}, <<Torn>>)
  BY <1>2, FailureLeaves
<1> QED BY <1>1, <1>2, <1>3, ConcludeKeeps

(* What stays in the socket after a read: the end of what was there, with    *)
(* its first message perhaps torn.                                           *)
LEMMA ReadsToRest ==
    ASSUME IInv, NEW n \in 1 .. Len(stream), NEW torn \in BOOLEAN, torn => n < Len(stream)
    PROVE  /\ ReadsTo(n, torn) \in Seq(Replies)
           /\ Len(ReadsTo(n, torn)) = Len(stream) - n
           /\ \A i \in 1 .. Len(ReadsTo(n, torn)) :
                ReadsTo(n, torn)[i].torn \/ ReadsTo(n, torn)[i] = stream[n + i]
<1> DEFINE rest == SubSeq(stream, n + 1, Len(stream))
<1>1. stream \in Seq(Replies) /\ Len(stream) \in Nat
  BY DEF IInv, TypeOK
<1>2. /\ rest \in Seq(Replies) /\ Len(rest) = Len(stream) - n
      /\ \A i \in 1 .. Len(rest) : rest[i] = stream[n + i]
  <2>1. \A i \in n + 1 .. Len(stream) : stream[i] \in Replies
    BY <1>1
  <2> QED BY <1>1, <2>1, SubSeqProperties
<1>3. CASE ~torn
  BY <1>2, <1>3 DEF ReadsTo
<1>4. CASE torn
  <2>1. 1 \in 1 .. Len(rest)
    BY <1>1, <1>2, <1>4
  <2> HIDE DEF rest
  <2>2. /\ [rest EXCEPT ![1] = Torn] \in Seq(Replies)
        /\ Len([rest EXCEPT ![1] = Torn]) = Len(rest)
        /\ \A j \in 1 .. Len(rest) :
            [rest EXCEPT ![1] = Torn][j] = IF j = 1 THEN Torn ELSE rest[j]
    BY <1>2, <2>1, TornIsReply, ExceptSeq
  <2>3. ReadsTo(n, torn) = [rest EXCEPT ![1] = Torn]
    BY <1>4 DEF ReadsTo, rest
  <2> QED BY <1>2, <2>2, <2>3, TornIsReply
<1> QED BY <1>3, <1>4

(* Whatever a read accepts is the answer to the request that waits. *)
LEMMA ReadLeaves ==
    ASSUME IInv, waiting # NoRequest,
           NEW n \in 1 .. Len(stream), NEW torn \in BOOLEAN, torn => n < Len(stream)
    PROVE  Leaves(Accepts(waiting, stream[1]), stream[1], asked, ReadsTo(n, torn))
<1> DEFINE left == ReadsTo(n, torn)
           ok == Accepts(waiting, stream[1])
<1>1. 1 \in 1 .. Len(stream) /\ stream[1] \in Replies /\ Len(stream) \in Nat
  BY DEF IInv, TypeOK
<1>2. /\ left \in Seq(Replies) /\ Len(left) = Len(stream) - n
      /\ \A i \in 1 .. Len(left) : left[i].torn \/ left[i] = stream[n + i]
  BY ReadsToRest
<1> HIDE DEF left
<1>3. \A i \in 1 .. Len(left) : n + i \in 1 .. Len(stream)
  BY <1>1, <1>2
<1>4. ok => ~stream[1].torn /\ stream[1].to = waiting
  BY <1>1 DEF Accepts, IInv, Own
<1>5. ASSUME ok, doing = "register"
      PROVE  /\ stream[1].status = "good" /\ stream[1].to.kind = "register"
             /\ stream[1].session = plcSession /\ plcSession # NoSession
             /\ \A i \in 1 .. Len(left) : ~IsRegistration(left[i])
             /\ \A r \in asked : r.kind # "register"
  <2>1. waiting.kind = "register" /\ IsRegistration(stream[1]) /\ stream[1].status = "good"
    BY <1>4, <1>5 DEF IInv, Doing, IsRegistration, Accepts
  <2>2. \A i \in 1 .. Len(left) : ~IsRegistration(left[i])
    <3> SUFFICES ASSUME NEW i \in 1 .. Len(left), IsRegistration(left[i]) PROVE FALSE
      OBVIOUS
    <3>1. left[i] = stream[n + i] /\ n + i \in 1 .. Len(stream)
      BY <1>2, <1>3 DEF IsRegistration
    <3>2. n + i = 1
      BY <1>1, <2>1, <3>1 DEF IInv, Registration
    <3> QED BY <1>1, <1>2, <3>2
  <2> QED BY <1>1, <1>4, <2>1, <2>2 DEF IInv, Registration, IsRegistration
<1>6. ok \in BOOLEAN
  BY DEF Accepts
<1> HIDE DEF ok
<1>7. sock
  BY WaitingIsBusy
<1>8. Leaves(ok, stream[1], asked, left)
  BY <1>1, <1>2, <1>3, <1>4, <1>5, <1>6, <1>7 DEF Leaves
<1> QED BY <1>8 DEF ok, left

LEMMA ReadKeeps == ASSUME IInv, Read PROVE IInv'
<1>1. PICK n \in 1 .. Len(stream), torn \in BOOLEAN :
        /\ torn => n < Len(stream)
        /\ Conclude(Accepts(waiting, stream[1]), stream[1], asked, ReadsTo(n, torn))
  BY DEF Read
<1>2. waiting # NoRequest /\ doing # "idle"
  BY WaitingIsBusy DEF Read
<1>3. Leaves(Accepts(waiting, stream[1]), stream[1], asked, ReadsTo(n, torn))
  BY <1>1, <1>2, ReadLeaves
<1> QED BY <1>1, <1>2, <1>3, ConcludeKeeps

LEMMA EIP_startupKeeps == ASSUME IInv, EIP_startup PROVE IInv'
<1>1. /\ waiting = NoRequest /\ asked = {} /\ stream = <<>>
      /\ doing' = "services" /\ step' = 0 /\ sock' = TRUE /\ result' = NoRequest
      /\ plcSession' = NoSession
      /\ UNCHANGED <<session, waiting, size, asked, stream, commands>>
  BY IdleIsQuiet DEF EIP_startup, Goto, wire, IInv, Closed
<1>2. TypeOK'
  BY <1>1 DEF IInv, TypeOK, Kinds
<1> QED BY <1>1, <1>2 DEF IInv, Closed, Doing, Own, Registration, SessionKnown, SizesAreOwn

LEMMA StartKeeps ==
    ASSUME IInv, StartScan \/ StartCommand
    PROVE  IInv'
<1>1. /\ doing = "idle" /\ waiting = NoRequest
      /\ doing' \in {"multi", "list", "describe"} /\ step' \in {0, 1}
      /\ doing' = "describe" => step' = 1
      /\ doing' = "multi" => sock
      /\ commands' \in 0 .. MaxCommands
      /\ UNCHANGED <<sock, session, waiting, result, size, asked, stream, plcSession>>
  BY IdleIsQuiet, SessionAssumption
     DEF StartScan, StartCommand, Goto, wire, IInv, TypeOK
<1>2. TypeOK'
  BY <1>1 DEF IInv, TypeOK, Kinds
<1>3. Registration'
  BY <1>1, IdleIsQuiet DEF Registration, IsRegistration
<1> QED BY <1>1, <1>2, <1>3 DEF IInv, Closed, Doing, Own, SessionKnown, SizesAreOwn

LEMMA RestartKeeps == ASSUME IInv, drvEtherIP_restart PROVE IInv'
<1>1. /\ doing = "idle" /\ waiting = NoRequest
      /\ asked' = {} /\ stream' = <<>> /\ sock' = FALSE /\ result' = NoRequest
      /\ commands' \in 0 .. MaxCommands
      /\ UNCHANGED <<session, doing, step, waiting, size, plcSession>>
  BY IdleIsQuiet, SessionAssumption
     DEF drvEtherIP_restart, disconnect_PLC, EIP_disconnect, IInv, TypeOK
<1>2. TypeOK'
  BY <1>1, EmptySeq DEF IInv, TypeOK
<1> QED BY <1>1, <1>2 DEF IInv, Closed, Doing, Own, Registration, SessionKnown, SizesAreOwn

(* The PLC gives a session only in answer to a registration, and there is    *)
(* but one.                                                                  *)
LEMMA PlcAnswersKeeps == ASSUME IInv, PlcAnswers PROVE IInv'
<1>1. PICK r \in asked, status \in {"good", "partial", "error"} :
        /\ asked' = asked \ {r}
        /\ IF r.kind = "register" /\ status = "good"
           THEN plcSession' \in Sessions \ {session, plcSession}
           ELSE plcSession' = plcSession
        /\ stream' = Append(stream, Reply(r, status, plcSession'))
        /\ UNCHANGED <<sock, session, doing, step, waiting, result, size, commands>>
  BY DEF PlcAnswers, client
<1> DEFINE new == Reply(r, status, plcSession')
<1>2. r \in Request /\ plcSession' \in Sessions \cup {NoSession}
  BY <1>1 DEF IInv, TypeOK
<1>3. /\ new \in Replies
      /\ ~new.torn /\ new.to = r /\ new.status = status /\ new.session = plcSession'
  BY <1>2 DEF Reply, Replies
<1> HIDE DEF new
<1>4. /\ stream' \in Seq(Replies) /\ Len(stream') = Len(stream) + 1
      /\ \A i \in 1 .. Len(stream) : stream'[i] = stream[i]
      /\ stream'[Len(stream) + 1] = new
      /\ Len(stream) \in Nat
  BY <1>1, <1>3, AppendProperties DEF IInv, TypeOK, new
<1>5. \A i \in 1 .. Len(stream') : i = Len(stream) + 1 \/ i \in 1 .. Len(stream)
  BY <1>4
<1>6. TypeOK'
  BY <1>1, <1>2, <1>4 DEF IInv, TypeOK
<1>7. sock
  BY <1>1 DEF IInv, Closed
<1>8. Own'
  BY <1>1, <1>3, <1>4, <1>5 DEF IInv, Own
<1>9. r.kind = "register" =>
        /\ doing = "register" /\ waiting = r
        /\ \A i \in 1 .. Len(stream) : ~IsRegistration(stream[i])
  BY <1>1 DEF IInv, Registration
<1>10. r.kind # "register" => plcSession' = plcSession /\ ~IsRegistration(new)
  BY <1>1, <1>3 DEF IsRegistration
<1>11. Registration'
  <2>1. \A q \in asked' : q.kind = "register" => doing' = "register" /\ waiting' = q
    BY <1>1 DEF IInv, Registration
  <2>2. CASE r.kind = "register"
    BY <1>1, <1>2, <1>3, <1>4, <1>5, <1>9, <2>1, <2>2, SessionAssumption
       DEF Registration, IsRegistration, IInv, TypeOK
  <2>3. CASE r.kind # "register"
    BY <1>1, <1>3, <1>4, <1>5, <1>10, <2>1, <2>3
       DEF Registration, IsRegistration, IInv
  <2> QED BY <2>2, <2>3
<1>12. SessionKnown'
  BY <1>1, <1>9 DEF IInv, SessionKnown
<1>13. Closed' /\ Doing' /\ SizesAreOwn'
  BY <1>1, <1>7 DEF IInv, Closed, Doing, SizesAreOwn
<1> QED BY <1>6, <1>8, <1>11, <1>12, <1>13 DEF IInv

(* The invariant of the connection. *)
THEOREM SessionInductive == Spec => []IInv
<1>1. Init => IInv
  <2> SUFFICES ASSUME Init PROVE IInv
    OBVIOUS
  <2>1. stream \in Seq(Replies) /\ Len(stream) = 0
    <3>1. <<>> \in Seq(Replies) /\ Len(<<>>) = 0
      BY EmptySeq
    <3> QED BY <3>1 DEF Init
  <2>2. size \in [Tags -> Nat] /\ SizesAreOwn
    BY DEF Init, SizesAreOwn
  <2>3. TypeOK
    <3>1. /\ sock = FALSE /\ session = NoSession /\ doing = "idle" /\ step = 0
          /\ waiting = NoRequest /\ result = NoRequest /\ asked = {}
          /\ plcSession = NoSession /\ commands = 0
      BY DEF Init
    <3>2. 0 \in 0 .. MaxCommands
      BY SessionAssumption
    <3>3. {} \subseteq Request /\ FALSE \in BOOLEAN
      OBVIOUS
    <3> QED BY <3>1, <3>2, <3>3, <2>1, <2>2 DEF TypeOK, Kinds
  <2> QED BY <2>1, <2>2, <2>3 DEF Init, IInv, Closed, Doing, Own, Registration, SessionKnown
<1>2. IInv /\ [Next]_vars => IInv'
  <2> SUFFICES ASSUME IInv, [Next]_vars PROVE IInv'
    OBVIOUS
  <2>1. CASE UNCHANGED vars
    BY <2>1 DEF vars, client, wire, IInv, TypeOK, Closed, Doing, Own, Registration,
                IsRegistration, SessionKnown, SizesAreOwn
  <2>2. CASE Next
    BY <2>2, SendKeeps, SendFailsKeeps, ReadKeeps, TimeOutKeeps, TimeOutInsideKeeps,
       EIP_startupKeeps, StartKeeps, RestartKeeps, PlcAnswersKeeps DEF Next
  <2> QED BY <2>1, <2>2
<1> QED BY <1>1, <1>2, PTL DEF Spec

(* Every variable keeps its type: positions stay in the range that the       *)
(* functions walk through (EIP_check_interface, complete_PLC_...).           *)
THEOREM SessionTypes == Spec => []TypeOK
<1>1. IInv => TypeOK
  BY DEF IInv
<1> QED BY <1>1, SessionInductive, PTL

(* The header of every request after EIP_register_session carries the        *)
(* session that the PLC gave to this connection.                             *)
THEOREM SessionsKnown == Spec => []SessionKnown
<1>1. IInv => SessionKnown
  BY DEF IInv
<1> QED BY <1>1, SessionInductive, PTL

(* No tag is sized from the answer for another one (EIP_read_tag).           *)
THEOREM SizesOwn == Spec => []SizesAreOwn
<1>1. IInv => SizesAreOwn
  BY DEF IInv
<1> QED BY <1>1, SessionInductive, PTL

(* Whatever late answer is to be read next, only the own one is accepted     *)
(* (the comparisons of transaction IDs).                                     *)
THEOREM AnswersOwn == Spec => []AnswerIsOwn
<1>1. IInv => AnswerIsOwn
  BY DEF IInv, Own, AnswerIsOwn, Accepts
<1> QED BY <1>1, SessionInductive, PTL
-----------------------------------------------------------------------------
(* The connection implements SessionPromise. A step that ends a transaction  *)
(* maps to Answer when its answer was accepted, and to Fail otherwise.       *)
phase == IF ~sock THEN "closed"
         ELSE IF doing \in {"services", "register"} THEN "opening" ELSE "open"

LEMMA ConcludeMaps ==
    ASSUME IInv, NEW ok, NEW reply, NEW late, NEW left,
           Leaves(ok, reply, late, left), Conclude(ok, reply, late, left),
           doing # "idle"
    PROVE  Promise!Answer \/ Promise!Fail
<1>1. waiting' = NoRequest /\ result' = IF ok THEN reply.to ELSE NoRequest
  BY DEF Conclude
<1>2. CASE ~ok
  <2>1. phase' \in {phase, "closed"}
    BY <1>2 DEF phase, Conclude, EIP_list_services, EIP_register_session,
         EIP_check_interface, StartSizing, complete_PLC_ScanList_TagInfos,
         process_ScanList, EIP_list_tags, EIP_describe_type, Goto, Idle, Keep,
         disconnect_PLC, EIP_disconnect
  <2> QED BY <1>1, <1>2, <2>1 DEF Promise!Fail, phase
<1>3. CASE ok
  <2>1. waiting # NoRequest /\ reply.to = waiting /\ sock
    BY <1>3, WaitingIsBusy DEF Leaves
  <2>2. phase' = phase \/ (phase = "opening" /\ phase' = "open")
    <3>1. CASE complete_PLC_ScanList_TagInfos(ok, reply, late, left)
      <4>1. step \in Tags /\ reply.to.step = step /\ doing = "read"
        BY <2>1, <3>1 DEF complete_PLC_ScanList_TagInfos, IInv, TypeOK, Doing
      <4>2. size' = [size EXCEPT ![step] = step] /\ size \in [Tags -> Nat]
        BY <1>3, <3>1, <4>1 DEF complete_PLC_ScanList_TagInfos, IInv, TypeOK
      <4>3. \E t \in Tags : size'[t] # 0
        BY <4>1, <4>2 DEF Tags
      <4> QED BY <2>1, <3>1, <4>1, <4>3
              DEF phase, complete_PLC_ScanList_TagInfos, Goto, Idle, Keep
    <3>2. CASE ~complete_PLC_ScanList_TagInfos(ok, reply, late, left)
      BY <1>3, <2>1, <3>2 DEF phase, Conclude, EIP_list_services, EIP_register_session,
         EIP_check_interface, StartSizing, process_ScanList, EIP_list_tags,
         EIP_describe_type, Goto, Idle, Keep
    <3> QED BY <3>1, <3>2
  <2> QED BY <1>1, <1>3, <2>1, <2>2 DEF Promise!Answer, phase
<1>4. ok \in BOOLEAN
  BY DEF Leaves
<1> QED BY <1>2, <1>3, <1>4

(* Every request gets the answer to itself or fails, whatever happens on the *)
(* wire.                                                                     *)
THEOREM SessionRefines == Spec => PromiseKept
<1>1. Init => Promise!Init
  BY DEF Init, Promise!Init
<1>2. IInv /\ [Next]_vars => [Promise!Next]_(Promise!promised)
  <2> SUFFICES ASSUME IInv, [Next]_vars
               PROVE  Promise!Next \/ UNCHANGED Promise!promised
    OBVIOUS
  <2>1. CASE Send
    <3>1. waiting' \in Request
      <4>1. IInv'
        BY <2>1, SendKeeps
      <4>2. waiting' # NoRequest
        <5>1. PICK id \in Ids \ OutstandingIds :
                waiting' = [id |-> id, kind |-> doing, step |-> step, session |-> session]
          BY <2>1 DEF Send
        <5>2. doing \in Kinds
          BY <2>1 DEF Send, IInv, TypeOK
        <5> QED BY <5>1, <5>2, NoRequestAssumption DEF Request, IInv, TypeOK
      <4> QED BY <4>1, <4>2 DEF IInv, TypeOK
    <3>2. Promise!Ask
      BY <2>1, <3>1 DEF Send, Promise!Ask
    <3> QED BY <3>2 DEF Promise!Next
  <2>2. CASE SendFails
    <3>1. Leaves(FALSE, Torn, asked, stream)
      BY FailureLeaves
    <3> QED BY <2>2, <3>1, ConcludeMaps DEF SendFails, Promise!Next
  <2>3. CASE Read
    <3>1. PICK n \in 1 .. Len(stream), torn \in BOOLEAN :
            /\ torn => n < Len(stream)
            /\ Conclude(Accepts(waiting, stream[1]), stream[1], asked, ReadsTo(n, torn))
      BY <2>3 DEF Read
    <3>2. waiting # NoRequest /\ doing # "idle"
      BY <2>3, WaitingIsBusy DEF Read
    <3>3. Leaves(Accepts(waiting, stream[1]), stream[1], asked, ReadsTo(n, torn))
      BY <3>1, <3>2, ReadLeaves
    <3> QED BY <3>1, <3>2, <3>3, ConcludeMaps DEF Promise!Next
  <2>4. CASE TimeOut
    <3>1. Leaves(FALSE, Torn, asked, <<>>) /\ Leaves(FALSE, Torn, asked \ {waiting}, <<>>)
      BY FailureLeaves
    <3>2. doing # "idle"
      BY <2>4, WaitingIsBusy DEF TimeOut
    <3> QED BY <2>4, <3>1, <3>2, ConcludeMaps DEF TimeOut, Promise!Next
  <2>5. CASE TimeOutInside
    <3>1. PICK r \in asked : Conclude(FALSE, Torn, asked \ {r}, <<Torn>>)
      BY <2>5 DEF TimeOutInside
    <3>2. doing # "idle" /\ sock
      BY <2>5, WaitingIsBusy DEF TimeOutInside
    <3>3. Leaves(FALSE, Torn, asked \ {r}, <<Torn>>)
      BY <3>2, FailureLeaves
    <3> QED BY <3>1, <3>2, <3>3, ConcludeMaps DEF Promise!Next
  <2>6. CASE EIP_startup
    BY <2>6, IdleIsQuiet DEF EIP_startup, Goto, Promise!Next, Promise!Open
  <2>7. CASE StartScan \/ StartCommand
    BY <2>7 DEF StartScan, StartCommand, Goto, Promise!promised
  <2>8. CASE drvEtherIP_restart
    BY <2>8, IdleIsQuiet
       DEF drvEtherIP_restart, disconnect_PLC, EIP_disconnect, Promise!Next, Promise!Fail
  <2>9. CASE PlcAnswers
    BY <2>9 DEF PlcAnswers, client, Promise!promised
  <2>10. CASE UNCHANGED vars
    BY <2>10 DEF vars, client, Promise!promised
  <2> QED BY <2>1, <2>2, <2>3, <2>4, <2>5, <2>6, <2>7, <2>8, <2>9, <2>10 DEF Next
<1> QED BY <1>1, <1>2, SessionInductive, PTL DEF Spec, PromiseKept, Promise!Spec-----------------------------------------------------------------------------
(* The messages of a run: what is evaluated for some of them there follows   *)
(* from what holds for all.                                                  *)

LEMMA AlwaysRight ==
    /\ TagReadsBackHolds => (Spec => []TagReadsBack)
    /\ PathNamesTagHolds => (Spec => []PathNamesTag)
    /\ RequestsApartHolds => (Spec => []RequestsApart)
    /\ RepliesApartHolds => (Spec => []RepliesApart)
    /\ FrameHoldsRequestHolds => (Spec => []FrameHoldsRequest)
    /\ WriteStaysInsideHolds => (Spec => []WriteStaysInside)
  <1>1. ASSUME TagReadsBackHolds PROVE Spec => []TagReadsBack
    <2>1. TagReadsBack
      BY <1>1 DEF TagReadsBack
    <2> QED BY <2>1, PTL
  <1>2. ASSUME PathNamesTagHolds PROVE Spec => []PathNamesTag
    <2>1. PathNamesTag
      BY <1>2 DEF PathNamesTag
    <2> QED BY <2>1, PTL
  <1>3. ASSUME RequestsApartHolds PROVE Spec => []RequestsApart
    <2>1. RequestsApart
      BY <1>3 DEF RequestsApart
    <2> QED BY <2>1, PTL
  <1>4. ASSUME RepliesApartHolds PROVE Spec => []RepliesApart
    <2>1. RepliesApart
      BY <1>4 DEF RepliesApart
    <2> QED BY <2>1, PTL
  <1>5. ASSUME FrameHoldsRequestHolds PROVE Spec => []FrameHoldsRequest
    <2>1. FrameHoldsRequest
      BY <1>5 DEF FrameHoldsRequest
    <2> QED BY <2>1, PTL
  <1>6. ASSUME WriteStaysInsideHolds PROVE Spec => []WriteStaysInside
    <2>1. WriteStaysInside
      BY <1>6 DEF WriteStaysInside
    <2> QED BY <2>1, PTL
  <1> QED BY <1>1, <1>2, <1>3, <1>4, <1>5, <1>6

LEMMA ItemsAre ==
    ASSUME NEW item \in Items
    PROVE  item \in Bytes /\ Len(item) \in 0 .. 3
  <1>1. 1 \in Byte /\ 2 \in Byte /\ 3 \in Byte /\ 4 \in Byte /\ 5 \in Byte /\ 6 \in Byte
    BY DEF Byte
  <1> DEFINE a == <<1>>
             b == <<2, 3>>
             c == <<4, 5, 6>>
  <1>2. a \in Bytes /\ b \in Bytes /\ c \in Bytes
    BY <1>1 DEF Bytes
  <1>3. Len(a) = 1 /\ Len(b) = 2 /\ Len(c) = 3
    OBVIOUS
  <1>4. item = a \/ item = b \/ item = c
    BY DEF Items
  <1> HIDE DEF a, b, c
  <1> QED BY <1>2, <1>3, <1>4

LEMMA AtMost ==
    ASSUME NEW x \in Nat, NEW y \in Nat, NEW a \in 0 .. x, NEW b \in 0 .. y
    PROVE  a + b \in 0 .. x + y
  OBVIOUS

LEMMA ItemListsAre ==
    ASSUME NEW parts \in ItemLists
    PROVE  /\ parts \in Seq(Bytes) /\ Len(parts) \in 1 .. 3 /\ parts # <<>>
           /\ Begin(parts)[Len(parts)] \in 0 .. 9
  <1> DEFINE at == Begin(parts)
             n == Len(parts)
  <1>1. PICK m \in 1 .. 3 : parts \in [1 .. m -> Items]
    BY DEF ItemLists
  <1>2. m \in Nat /\ parts \in [1 .. m -> Bytes]
    BY <1>1, ItemsAre
  <1>3. parts \in Seq(Bytes) /\ n = m
    BY <1>2, FunctionIsSeq
  <1>4. \A i \in 1 .. n : Len(parts[i]) \in 0 .. 3
    BY <1>1, <1>3, ItemsAre
  <1>5. parts # <<>> /\ n \in 1 .. 3
    BY <1>1, <1>3
  <1>6. at[0] = 0 /\ \A i \in 1 .. n : at[i] = at[i - 1] + Len(parts[i])
    <2>1. Ends(at, parts)
      BY <1>3, BeginEnds
    <2> QED BY <2>1 DEF Ends
  <1> HIDE DEF at, n
  <1>7. at[1] \in 0 .. 3
    <2>1. 1 \in 1 .. n /\ 1 - 1 = 0
      BY <1>5
    <2>2. at[1] = 0 + Len(parts[1]) /\ Len(parts[1]) \in 0 .. 3
      BY <1>4, <1>6, <2>1
    <2> QED BY <2>2
  <1>8. n >= 2 => at[2] \in 0 .. 6
    <2>1. SUFFICES ASSUME n >= 2 PROVE at[2] \in 0 .. 6
      OBVIOUS
    <2>2. 2 \in 1 .. n /\ 2 - 1 = 1
      BY <1>5, <2>1
    <2>3. at[2] = at[1] + Len(parts[2]) /\ Len(parts[2]) \in 0 .. 3
      BY <1>4, <1>6, <2>2
    <2>4. at[1] \in 0 .. 3 /\ 3 + 3 = 6
      BY <1>7
    <2>5. at[1] + Len(parts[2]) \in 0 .. 3 + 3
      BY <2>3, <2>4, AtMost
    <2> QED BY <2>3, <2>4, <2>5
  <1>9. n >= 3 => at[3] \in 0 .. 9
    <2>1. SUFFICES ASSUME n >= 3 PROVE at[3] \in 0 .. 9
      OBVIOUS
    <2>2. 3 \in 1 .. n /\ 3 - 1 = 2 /\ n >= 2
      BY <1>5, <2>1
    <2>3. at[3] = at[2] + Len(parts[3]) /\ Len(parts[3]) \in 0 .. 3
      BY <1>4, <1>6, <2>2
    <2>4. at[2] \in 0 .. 6 /\ 6 + 3 = 9
      BY <1>8, <2>2
    <2>5. at[2] + Len(parts[3]) \in 0 .. 6 + 3
      BY <2>3, <2>4, AtMost
    <2> QED BY <2>3, <2>4, <2>5
  <1>10. at[n] \in 0 .. 9
    <2>1. n = 1 \/ n = 2 \/ n = 3
      BY <1>5
    <2> QED BY <1>7, <1>8, <1>9, <2>1
  <1> QED BY <1>3, <1>5, <1>10 DEF at, n

LEMMA SmallSum ==
    ASSUME NEW n \in 1 .. 3, NEW s \in [1 .. n -> 1 .. 4]
    PROVE  Sum(s) \in 0 .. 12
  <1> DEFINE at == [i \in 0 .. n |-> Sum([j \in 1 .. i |-> s[j]])]
  <1>1. n \in Nat /\ s \in [1 .. n -> Nat]
    OBVIOUS
  <1>2. at[0] = 0 /\ \A i \in 1 .. n : at[i] = at[i - 1] + s[i]
    BY <1>1, SumParts
  <1>3. at[n] = Sum(s)
    BY <1>1
  <1>4. \A i \in 1 .. n : s[i] \in 0 .. 4
    OBVIOUS
  <1> HIDE DEF at
  <1>5. at[1] \in 0 .. 4
    <2>1. 1 \in 1 .. n /\ 1 - 1 = 0
      OBVIOUS
    <2>2. at[1] = 0 + s[1] /\ s[1] \in 0 .. 4
      BY <1>2, <1>4, <2>1
    <2> QED BY <2>2
  <1>6. n >= 2 => at[2] \in 0 .. 8
    <2>1. SUFFICES ASSUME n >= 2 PROVE at[2] \in 0 .. 8
      OBVIOUS
    <2>2. 2 \in 1 .. n /\ 2 - 1 = 1
      BY <2>1
    <2>3. at[2] = at[1] + s[2] /\ s[2] \in 0 .. 4
      BY <1>2, <1>4, <2>2
    <2>4. at[1] + s[2] \in 0 .. 4 + 4
      BY <1>5, <2>3, AtMost
    <2> QED BY <2>3, <2>4
  <1>7. n >= 3 => at[3] \in 0 .. 12
    <2>1. SUFFICES ASSUME n >= 3 PROVE at[3] \in 0 .. 12
      OBVIOUS
    <2>2. 3 \in 1 .. n /\ 3 - 1 = 2 /\ n >= 2
      BY <2>1
    <2>3. at[3] = at[2] + s[3] /\ s[3] \in 0 .. 4
      BY <1>2, <1>4, <2>2
    <2>4. at[2] + s[3] \in 0 .. 8 + 4
      BY <1>6, <2>2, <2>3, AtMost
    <2> QED BY <2>3, <2>4
  <1>8. n = 1 \/ n = 2 \/ n = 3
    OBVIOUS
  <1> QED BY <1>3, <1>5, <1>6, <1>7, <1>8

\* The PLC finds the requests of a transfer in it, each at the start of its
\* place (CIP_MultiRequest_item).
THEOREM RequestsAlwaysApart == Spec => []RequestsApart
  <1>1. ASSUME NEW requests \in ItemLists, NEW old \in Leftovers,
               NEW sizes \in [1 .. Len(requests) -> 1 .. 4], sizes \in Places(requests)
        PROVE  FoundApart(requests, sizes, old)
    <2> DEFINE n == Len(requests)
               b == Sum(sizes)
    <2>1. requests \in Seq(Bytes) /\ n \in 1 .. 3 /\ requests # <<>>
      BY ItemListsAre
    <2>2. old \in Byte
      BY DEF Leftovers, Byte
    <2>4. b \in 0 .. 12
      BY <2>1, SmallSum
    <2>3. MultiRequestSize(n, b) < 65536
      <3> HIDE DEF n, b
      <3>1. CIA_path_size(1, 0) = 2
        BY DEF CIA_path_size
      <3>2. MultiRequestSize(n, b) = 8 + 2 * n + b
        BY <2>1, <2>4, <3>1 DEF MultiRequestSize
      <3> QED BY <2>1, <2>4, <3>2
    <2> QED BY <1>1, <2>1, <2>2, <2>3, EveryRequestFound
  <1>2. RequestsApartHolds
    BY <1>1 DEF RequestsApartHolds
  <1> QED BY <1>2, AlwaysRight

\* Each request gets its own reply, and no other (get_CIP_MultiRequest_Response).
THEOREM RepliesAlwaysApart == Spec => []RepliesApart
  <1>1. ASSUME NEW replies \in ItemLists, NEW extended \in 0 .. 2
        PROVE  OwnReplies(replies, MultiResponse(replies, extended))
    <2> DEFINE n == Len(replies)
               b == Begin(replies)[n]
               r == MultiResponse(replies, extended)
    <2>1. replies \in Seq(Bytes) /\ n \in 1 .. 3 /\ b \in 0 .. 9
      BY ItemListsAre
    <2>2. extended \in Byte
      BY DEF Byte
    <2>3. HoldsReplies(r, replies, extended)
      BY <2>1, <2>2, ResponseLayout
    <2>4. Len(r) = 6 + 2 * extended + 2 * n + b
      BY <2>3 DEF HoldsReplies
    <2> HIDE DEF n, b, r
    <2>5. Len(r) < 65536
      BY <2>1, <2>4
    <2> QED BY <2>1, <2>2, <2>5, EveryReplyFound DEF r
  <1>2. RepliesApartHolds
    BY <1>1 DEF RepliesApartHolds
  <1> QED BY <1>2, AlwaysRight-----------------------------------------------------------------------------
(* The tags of a run *)

LEMMA NamesAre ==
    ASSUME NEW n \in Names
    PROVE  /\ n \in Bytes /\ n \in Chars /\ n \in Name
           /\ NameNode(n) \in Node /\ NameNode(n) \in Part /\ NameNode(n).type = "te_name"
           /\ SizeOf(NameNode(n)) \in 0 .. 6
  <1> DEFINE a == <<97>>
             b == <<97, 98>>
             c == <<99, 100, 101>>
  <1>1. 97 \in Byte /\ 98 \in Byte /\ 99 \in Byte /\ 100 \in Byte /\ 101 \in Byte
    BY DEF Byte
  <1>2. a \in Bytes /\ b \in Bytes /\ c \in Bytes
    BY <1>1 DEF Bytes
  <1>3. a \in Chars /\ b \in Chars /\ c \in Chars
    BY DEF Chars
  <1>4. Len(a) = 1 /\ Len(b) = 2 /\ Len(c) = 3
    OBVIOUS
  <1>5. n = a \/ n = b \/ n = c
    BY DEF Names
  <1> HIDE DEF a, b, c
  <1>6. n \in Bytes /\ n \in Chars /\ Len(n) \in 1 .. 3
    BY <1>2, <1>3, <1>4, <1>5
  <1>7. n \in Name
    <2> DEFINE none == <<>>
    <2>1. Len(none) = 0
      OBVIOUS
    <2> HIDE DEF none
    <2>2. n # none
      BY <1>6, <2>1
    <2>3. \A k \in 1 .. 3 : k < 256
      OBVIOUS
    <2>4. Len(n) < 256
      BY <1>6, <2>3
    <2> QED BY <1>6, <2>2, <2>4 DEF Name, none
  <1>8. NameNode(n).type = "te_name" /\ NameNode(n).name = n
    BY DEF NameNode
  <1> DEFINE l == Len(n)
  <1>9. SizeOf(NameNode(n)) = 2 + l + (l % 2)
    BY <1>8 DEF SizeOf
  <1> HIDE DEF l
  <1>10. l \in 1 .. 3 /\ l % 2 \in 0 .. 1
    BY <1>6 DEF l
  <1>11. l = 3 \/ l <= 2
    BY <1>10
  <1>12. 2 + l + (l % 2) \in 0 .. 6
    BY <1>10
  <1> QED BY <1>6, <1>7, <1>8, <1>9, <1>12 DEF Node, Part

LEMMA ElementsAre ==
    ASSUME NEW e \in Elements
    PROVE  /\ e \in Nat /\ ElementNode(e) \in Node /\ ElementNode(e) \in Part
           /\ ElementNode(e).type = "te_element"
           /\ SizeOf(ElementNode(e)) \in 0 .. 6
  <1>1. e \in UDINT
    BY DEF Elements, UDINT
  <1>2. e \in Nat
    BY <1>1 DEF UDINT
  <1>3. ElementNode(e).type = "te_element" /\ ElementNode(e).element = e
    BY DEF ElementNode
  <1>4. SizeOf(ElementNode(e)) \in {2, 4, 6}
    BY <1>3 DEF SizeOf
  <1> QED BY <1>1, <1>2, <1>3, <1>4 DEF Node, Part

\* A name, with an element or without.
OnePart(p) ==
    /\ p \in Seq(Node) /\ p \in Seq(Part) /\ Len(p) \in 1 .. 2
    /\ p[1].type = "te_name" /\ (Len(p) = 2 => p[2].type = "te_element")
    /\ \A i \in 1 .. Len(p) : SizeOf(p[i]) \in 0 .. 6

LEMMA PartsAre ==
    ASSUME NEW p \in Parts
    PROVE  OnePart(p)
  <1>1. ASSUME NEW n \in Names, p = <<NameNode(n)>>
        PROVE  OnePart(p)
    <2> DEFINE a == NameNode(n)
    <2>1. a \in Node /\ a \in Part /\ a.type = "te_name" /\ SizeOf(a) \in 0 .. 6
      BY NamesAre
    <2> HIDE DEF a
    <2>2. p = <<a>>
      BY <1>1 DEF a
    <2>3. p \in Seq(Node) /\ p \in Seq(Part) /\ Len(p) = 1 /\ p[1] = a
      BY <2>1, <2>2
    <2> QED BY <2>1, <2>3 DEF OnePart
  <1>2. ASSUME NEW n \in Names, NEW e \in Elements, p = <<NameNode(n), ElementNode(e)>>
        PROVE  OnePart(p)
    <2> DEFINE a == NameNode(n)
               b == ElementNode(e)
    <2>1. a \in Node /\ a \in Part /\ a.type = "te_name" /\ SizeOf(a) \in 0 .. 6
      BY NamesAre
    <2>2. b \in Node /\ b \in Part /\ b.type = "te_element" /\ SizeOf(b) \in 0 .. 6
      BY ElementsAre
    <2> HIDE DEF a, b
    <2>3. p = <<a, b>>
      BY <1>2 DEF a, b
    <2>4. p \in Seq(Node) /\ p \in Seq(Part) /\ Len(p) = 2 /\ p[1] = a /\ p[2] = b
      BY <2>1, <2>2, <2>3
    <2>5. \A i \in 1 .. Len(p) : i = 1 \/ i = 2
      BY <2>4
    <2> QED BY <2>1, <2>2, <2>4, <2>5 DEF OnePart
  <1> QED BY <1>1, <1>2 DEF Parts

LEMMA PartIsTag ==
    ASSUME NEW p, OnePart(p)
    PROVE  p \in Tag
  <1>1. /\ p \in Seq(Part) /\ Len(p) \in 1 .. 2 /\ p[1].type = "te_name"
    BY DEF OnePart
  <1>2. ASSUME NEW i \in 1 .. Len(p), p[i].type = "te_element"
        PROVE  i > 1 /\ p[i - 1].type = "te_name"
    <2>1. i # 1
      BY <1>1, <1>2
    <2> DEFINE l == Len(p)
    <2>2. i \in 1 .. l /\ l \in 1 .. 2
      BY <1>1
    <2> HIDE DEF l
    <2>3. i = 2 /\ i - 1 = 1
      BY <2>1, <2>2
    <2> QED BY <1>1, <2>3
  <1> QED BY <1>1, <1>2, TagIs

LEMMA TwoPartsAreTag ==
    ASSUME NEW p, NEW q, OnePart(p), OnePart(q)
    PROVE  p \o q \in Seq(Node) /\ p \o q \in Tag
  <1> DEFINE t == p \o q
             m == Len(p)
  <1>1. p \in Seq(Node) /\ q \in Seq(Node) /\ p \in Seq(Part) /\ q \in Seq(Part)
    BY DEF OnePart
  <1>2. t \in Seq(Node)
    BY <1>1, Concat
  <1>3. /\ t \in Seq(Part) /\ Len(t) = m + Len(q)
        /\ \A i \in 1 .. m : t[i] = p[i]
        /\ \A i \in 1 .. Len(q) : t[m + i] = q[i]
    BY <1>1, Concat
  <1>4. /\ m \in 1 .. 2 /\ p[1].type = "te_name" /\ Len(q) \in 1 .. 2 /\ q[1].type = "te_name"
    BY DEF OnePart
  <1> HIDE DEF t, m
  <1>5. ASSUME NEW i \in 1 .. Len(t), t[i].type = "te_element"
        PROVE  i > 1 /\ t[i - 1].type = "te_name"
    <2>1. CASE i <= m
      <3>1. i \in 1 .. m
        BY <1>3, <2>1
      <3>2. i # 1
        BY <1>3, <1>4, <1>5, <3>1
      <3>3. i = 2 /\ i - 1 = 1 /\ 1 \in 1 .. m
        BY <1>4, <3>1, <3>2
      <3> QED BY <1>3, <1>4, <3>3
    <2>2. CASE i > m
      <3>1. i - m \in 1 .. Len(q) /\ m + (i - m) = i
        BY <1>3, <1>4, <2>2
      <3>2. t[i] = q[i - m]
        BY <1>3, <3>1
      <3>3. i - m # 1
        BY <1>4, <1>5, <3>2
      <3>4. i - m = 2 /\ i - 1 = m + 1 /\ 1 \in 1 .. Len(q) /\ i > 1
        <4> DEFINE l == Len(q)
        <4>1. l \in 1 .. 2 /\ i - m \in 1 .. l /\ m + (i - m) = i /\ i \in Nat /\ m \in 1 .. 2
          BY <1>4, <3>1
        <4> HIDE DEF l
        <4>2. i - m = 2 /\ 1 \in 1 .. l
          BY <3>3, <4>1
        <4>3. i = m + 2
          BY <4>1, <4>2
        <4>4. i - 1 = m + 1 /\ i > 1
          BY <4>1, <4>3
        <4> QED BY <4>2, <4>4 DEF l
      <3>5. t[m + 1] = q[1]
        BY <1>3, <3>4
      <3> QED BY <1>4, <3>4, <3>5
    <2> QED BY <1>4, <2>1, <2>2
  <1>6. t \in Tag
    BY <1>3, <1>5, TagIs
  <1> QED BY <1>2, <1>6 DEF t

LEMMA TagListsAre ==
    ASSUME NEW tag \in TagLists
    PROVE  tag \in Seq(Node) /\ tag \in Tag
  <1>1. CASE tag \in Parts
    <2>1. OnePart(tag)
      BY <1>1, PartsAre
    <2> QED BY <2>1, PartIsTag DEF OnePart
  <1>2. ASSUME NEW p \in Parts, NEW q \in Parts, tag = p \o q
        PROVE  tag \in Seq(Node) /\ tag \in Tag
    <2>1. OnePart(p) /\ OnePart(q)
      BY PartsAre
    <2> QED BY <1>2, <2>1, TwoPartsAreTag
  <1> QED BY <1>1, <1>2 DEF TagLists

LEMMA TextsAre ==
    ASSUME NEW text \in Texts
    PROVE  text \in Seq(Token)
  <1> DEFINE T == {Dot, Open, Close, NameToken(<<97>>), NumberToken(1)}
  <1>1. PICK n \in 0 .. 6 : text \in [1 .. n -> T]
    BY DEF Texts
  <1>2. \A t \in T : t \in Token
    <2>1. <<97>> \in Chars /\ 1 \in Nat
      BY DEF Chars
    <2> QED BY <2>1, TokensOf
  <1> HIDE DEF T
  <1>3. n \in Nat /\ text \in [1 .. n -> Token]
    BY <1>1, <1>2
  <1> QED BY <1>3, FunctionIsSeq

\* A path names its tag and is as long as was counted (make_tag_path).
THEOREM PathAlwaysNamesTag == Spec => []PathNamesTag
  <1>1. PathNamesTagHolds
    BY TagListsAre, EveryTagNamed DEF PathNamesTagHolds
  <1> QED BY <1>1, AlwaysRight

\* Printing and parsing a tag again gives the same tag (EIP_parse_tag).
THEOREM TagAlwaysReadsBack == Spec => []TagReadsBack
  <1>1. \A tag \in TagLists : ReadsBack(tag)
    BY TagListsAre, EveryTagReadsBack
  <1>2. \A text \in Texts : ReadsBack(EIP_parse_tag(text))
    BY TextsAre, EveryTextReadsBack
  <1>3. TagReadsBackHolds
    BY <1>1, <1>2 DEF TagReadsBackHolds
  <1> QED BY <1>3, AlwaysRight
LEMMA HexDigits ==
    ASSUME NEW x \in 0 .. 15
    PROVE  HexDigit(x) \in Byte
  BY DEF HexDigit, Byte

LEMMA Sixteens ==
    ASSUME NEW nn \in Nat, NEW i \in 1 .. 8
    PROVE  (nn \div 16 ^ (8 - i)) % 16 \in 0 .. 15
  <1> DEFINE P == {k \in 0 .. 7 : 16 ^ k \in Nat \ {0}}
  <1>1. 0 \in P /\ 1 \in P /\ 2 \in P /\ 3 \in P /\ 4 \in P /\ 5 \in P /\ 6 \in P /\ 7 \in P
    <2>1. /\ 16 ^ 0 = 1 /\ 16 ^ 1 = 16 /\ 16 ^ 2 = 256 /\ 16 ^ 3 = 4096 /\ 16 ^ 4 = 65536
          /\ 16 ^ 5 = 1048576 /\ 16 ^ 6 = 16777216 /\ 16 ^ 7 = 268435456
      OBVIOUS
    <2> QED BY <2>1
  <1>2. \A k \in P : 16 ^ k \in Nat \ {0}
    OBVIOUS
  <1> HIDE DEF P
  <1>3. \A k \in 0 .. 7 : k \in P
    BY <1>1
  <1> DEFINE y == 16 ^ (8 - i)
  <1>4. y \in Nat \ {0}
    BY <1>2, <1>3
  <1> HIDE DEF y
  <1>5. nn \div y \in Nat
    BY <1>4
  <1>6. (nn \div y) % 16 \in 0 .. 15
    BY <1>5
  <1> QED BY <1>6 DEF y

LEMMA IDsAre ==
    ASSUME NEW nn \in Nat
    PROVE  TransactionID(nn) \in Bytes /\ Len(TransactionID(nn)) = 8
  <1>1. \A i \in 1 .. 8 : HexDigit((nn \div 16 ^ (8 - i)) % 16) \in Byte
    BY Sixteens, HexDigits
  <1>2. TransactionID(nn) \in [1 .. 8 -> Byte]
    BY <1>1 DEF TransactionID
  <1>3. 8 \in Nat
    OBVIOUS
  <1> QED BY <1>2, <1>3, FunctionIsSeq DEF Bytes

LEMMA PathsAreShort ==
    ASSUME NEW tag, OnePart(tag)
    PROVE  tag_path_size(tag) \in 0 .. 6
  <1> DEFINE n == Len(tag)
             B == Starts(tag)
             half == tag_path_size(tag)
             path == make_tag_path(tag)
  <1>1. tag \in Seq(Node) /\ n \in 1 .. 2 /\ \A i \in 1 .. n : SizeOf(tag[i]) \in 0 .. 6
    BY DEF OnePart
  <1>2. B[0] = 0 /\ Len(path) = B[n] /\ \A i \in 1 .. n : B[i] = B[i - 1] + SizeOf(tag[i])
    BY <1>1, StartsOf
  <1>3. 2 * half = Len(path) /\ half \in Nat
    BY <1>1, PathSize
  <1> HIDE DEF n, B, half, path
  <1>4. B[1] \in 0 .. 6
    <2>1. 1 \in 1 .. n /\ 1 - 1 = 0
      BY <1>1
    <2>2. B[1] = 0 + SizeOf(tag[1]) /\ SizeOf(tag[1]) \in 0 .. 6
      BY <1>1, <1>2, <2>1
    <2> QED BY <2>2
  <1>5. n = 2 => B[2] \in 0 .. 6 + 6
    <2>1. SUFFICES ASSUME n = 2 PROVE B[2] \in 0 .. 6 + 6
      OBVIOUS
    <2>2. 2 \in 1 .. n /\ 2 - 1 = 1
      BY <2>1
    <2>3. B[2] = B[1] + SizeOf(tag[2]) /\ SizeOf(tag[2]) \in 0 .. 6
      BY <1>1, <1>2, <2>2
    <2> QED BY <1>4, <2>3, AtMost
  <1>6. Len(path) \in 0 .. 12
    <2>1. n = 1 \/ n = 2
      BY <1>1
    <2>2. B[n] \in 0 .. 12
      BY <1>4, <1>5, <2>1
    <2> QED BY <1>2, <2>2
  <1>7. 2 * half \in 0 .. 12
    BY <1>3, <1>6
  <1> QED BY <1>3, <1>7 DEF half

LEMMA ReadRequestsAre ==
    ASSUME NEW tag \in Parts, NEW odd \in Odds
    PROVE  /\ make_CIP_ReadData(tag, 1) \o odd \in Bytes
           /\ Len(make_CIP_ReadData(tag, 1) \o odd) \in 0 .. 17
  <1> DEFINE half == tag_path_size(tag)
             h == make_MR_Request(S_CIP_ReadData, half)
             p == make_tag_path(tag)
             c == pack_UINT(1)
             none == <<>>
             seven == <<7>>
  <1>1. tag \in Seq(Node) /\ half \in 0 .. 6
    <2>1. OnePart(tag)
      BY PartsAre
    <2> QED BY <2>1, PathsAreShort DEF OnePart
  <1>2. half \in Byte /\ S_CIP_ReadData \in Byte
    BY <1>1 DEF Byte, S_CIP_ReadData
  <1>3. h \in Bytes /\ Len(h) = 2
    <2> HIDE DEF half
    <2> QED BY <1>2 DEF make_MR_Request, Bytes
  <1>4. p \in Bytes /\ Len(p) = 2 * half
    BY <1>1, StartsOf, PathSize
  <1>5. c \in Bytes /\ Len(c) = 2
    <2>1. 1 \in Nat
      OBVIOUS
    <2> QED BY <2>1, PackType
  <1>6. odd \in Bytes /\ Len(odd) \in 0 .. 1
    <2>1. 7 \in Byte
      BY DEF Byte
    <2>2. none \in Bytes /\ Len(none) = 0 /\ seven \in Bytes /\ Len(seven) = 1
      BY <2>1 DEF Bytes
    <2>3. odd = none \/ odd = seven
      BY DEF Odds
    <2> HIDE DEF none, seven
    <2> QED BY <2>2, <2>3
  <1>7. make_CIP_ReadData(tag, 1) = h \o p \o c
    BY DEF make_CIP_ReadData
  <1> HIDE DEF half, h, p, c
  <1>8. h \o p \in Bytes /\ Len(h \o p) = Len(h) + Len(p)
    BY <1>3, <1>4, Join
  <1>9. (h \o p) \o c \in Bytes /\ Len((h \o p) \o c) = Len(h \o p) + Len(c)
    BY <1>5, <1>8, Join
  <1> DEFINE m == (h \o p) \o c
  <1>10. m \in Bytes /\ Len(m) = 2 + 2 * half + 2
    BY <1>3, <1>4, <1>5, <1>8, <1>9
  <1> HIDE DEF m
  <1>11. m \o odd \in Bytes /\ Len(m \o odd) = Len(m) + Len(odd)
    BY <1>6, <1>10, Join
  <1> DEFINE l == Len(m \o odd)
             o == Len(odd)
  <1>12. l = 2 + 2 * half + 2 + o /\ o \in 0 .. 1
    BY <1>6, <1>10, <1>11
  <1> HIDE DEF l, o
  <1>13. l \in 0 .. 17
    BY <1>1, <1>12
  <1> QED BY <1>7, <1>11, <1>13 DEF m, l

\* A frame brings its request to the slot (make_CM_Unconnected_Send).
THEOREM RequestAlwaysArrives == Spec => []FrameHoldsRequest
  <1>1. ASSUME NEW tag \in Parts, NEW slot \in {0, 3}, NEW nn \in TransIdNums,
               NEW old \in Leftovers, NEW odd \in Odds
        PROVE  Arrives(make_CIP_ReadData(tag, 1) \o odd, slot, Handle, TransactionID(nn), old)
    <2> DEFINE message == make_CIP_ReadData(tag, 1) \o odd
               id == TransactionID(nn)
    <2>1. message \in Bytes /\ Len(message) \in 0 .. 17
      BY ReadRequestsAre
    <2>2. nn \in Nat
      BY DEF TransIdNums
    <2>3. id \in Bytes /\ Len(id) = 8
      BY <2>2, IDsAre
    <2>4. slot \in Byte /\ old \in Byte
      BY DEF Byte, Leftovers
    <2>5. Handle \in UDINT
      BY DEF UDINT, Handle
    <2> HIDE DEF message, id
    <2>6. 16 + CM_Unconnected_Send_size(Len(message)) \in UINT
      <3> DEFINE l == Len(message)
                 d == l % 2
      <3>1. CM_Unconnected_Send_size(l) = 14 + l + d
        <4>1. CIA_path_size(1, 0) = 2
          BY DEF CIA_path_size
        <4>2. MR_Request_size(2) = 6
          BY DEF MR_Request_size
        <4>3. CM_Unconnected_Send_size(l) = 6 + 1 + 1 + 2 + l + d + 4
          BY <4>1, <4>2 DEF CM_Unconnected_Send_size
        <4>4. l \in 0 .. 17 /\ d \in 0 .. 1
          BY <2>1
        <4> HIDE DEF l, d
        <4> QED BY <4>3, <4>4
      <3>2. l \in 0 .. 17 /\ d \in 0 .. 1
        BY <2>1
      <3> HIDE DEF l, d
      <3>3. 16 + (14 + l + d) \in Nat /\ 16 + (14 + l + d) < 65536
        BY <3>2
      <3> QED BY <3>1, <3>3 DEF UINT, l
    <2>7. Arrives(message, slot, Handle, id, old)
      BY <2>1, <2>3, <2>4, <2>5, <2>6, EveryRequestArrives
    <2> QED BY <2>7 DEF message, id
  <1>2. FrameHoldsRequestHolds
    BY <1>1 DEF FrameHoldsRequestHolds
  <1> QED BY <1>2, AlwaysRight

\* The write of a string stays in its room (make_CIP_WriteData).
THEOREM WriteAlwaysInside == Spec => []WriteStaysInside
  <1> DEFINE tag == <<NameNode(<<97>>)>>
  <1>1. tag \in Seq(Node) /\ tag_path_size(tag) \in Byte
    <2>1. <<97>> \in Names
      BY DEF Names
    <2>2. tag \in Parts
      BY <2>1 DEF Parts
    <2>3. OnePart(tag)
      BY <2>2, PartsAre
    <2> HIDE DEF tag
    <2>4. tag_path_size(tag) \in 0 .. 6
      BY <2>3, PathsAreShort
    <2> QED BY <2>3, <2>4 DEF OnePart, Byte
  <1>2. ASSUME NEW n \in 0 .. 4, NEW room \in 1 .. 6
        PROVE  StaysInside(tag, 1, <<206, 15, n, 0, 0, 0>> \o [i \in 1 .. n |-> 64 + i] \o <<0>>, room)
    <2> DEFINE head == <<206, 15, n, 0, 0, 0>>
               text == [i \in 1 .. n |-> 64 + i]
               end == <<0>>
               data == (head \o text) \o end
    <2>1. head \in Bytes /\ Len(head) = 6
      <3>1. 206 \in Byte /\ 15 \in Byte /\ n \in Byte /\ 0 \in Byte
        BY DEF Byte
      <3> QED BY <3>1 DEF Bytes
    <2>2. text \in Bytes
      <3>1. \A i \in 1 .. n : 64 + i \in Byte
        BY DEF Byte
      <3>2. text \in [1 .. n -> Byte] /\ n \in Nat
        BY <3>1
      <3> HIDE DEF text
      <3> QED BY <3>2, FunctionIsSeq DEF Bytes
    <2>3. end \in Bytes
      BY DEF Bytes, Byte
    <2> HIDE DEF head, text, end
    <2>4. head \o text \in Bytes /\ Len(head \o text) = 6 + Len(text) /\ Len(text) \in Nat
      <3>1. head \in Bytes
        BY <2>1
      <3>2. head \o text \in Bytes /\ Len(head \o text) = Len(head) + Len(text) /\ Len(text) \in Nat
        BY <3>1, <2>2, Join
      <3> QED BY <2>1, <3>2
    <2>5. data \in Bytes /\ Len(data) = Len(head \o text) + Len(end) /\ Len(end) \in Nat
      BY <2>3, <2>4, Join
    <2>6. data \in Bytes /\ Len(data) >= 6
      BY <2>4, <2>5
    <2>7. room \in Nat \ {0} /\ 1 \in Nat
      OBVIOUS
    <2> HIDE DEF data, tag
    <2>8. StaysInside(tag, 1, data, room)
      BY <1>1, <2>6, <2>7, EveryWriteInside
    <2> QED BY <2>8 DEF data, head, text, end
  <1>3. WriteStaysInsideHolds
    BY <1>2 DEF WriteStaysInsideHolds
  <1> QED BY <1>3, AlwaysRight
=============================================================================
