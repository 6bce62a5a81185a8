------------------------------ MODULE MomProofs ------------------------------
(***************************************************************************)
(* For any number of clients and calls: Mom is type correct, a call that   *)
(* returns a reply returns its own, and every call is answered at most     *)
(* once, also when the timeout may strike after a byte was read.  There    *)
(* are never more bytes on their way to a receiver than messages in its    *)
(* queue; if the timeout cannot strike after a byte was read, there are    *)
(* never fewer either.                                                     *)
(*                                                                         *)
(* What makes this inductive is what is known of every request and reply   *)
(* on its way (Known): its id has been given out, it is about a call that  *)
(* has been made, and its id is the id its client waits for only if it is  *)
(* about the client's present call.                                        *)
(***************************************************************************)
EXTENDS Mom, FiniteSetTheorems, SequenceTheorems, TLAPS

(* The messages in a queue, and the calls they are about *)
Messages(q) == {q[i] : i \in DOMAIN q}
Bodies(q) == {q[i].body : i \in DOMAIN q}
Distinct(q) == \A i, j \in DOMAIN q : q[i].body = q[j].body => i = j

(* The client has taken the id of its present call. *)
Calling == {"queue", "wake", "loop", "wait", "token", "unqueue", "handle"}

(* What is known of a request with id i about the call b, and of its reply *)
Known(i, b) ==
  /\ i < next_id
  /\ b[2] <= call[b[1]]
  /\ pc[b[1]] \in {"send", "queue"} => b[2] < call[b[1]]
  /\ pc[b[1]] \in Calling /\ i = id[b[1]] => b[2] = call[b[1]]

Request(m) == /\ m \in Message
              /\ m.sender \in Clients
              /\ m.body[1] = m.sender
              /\ Known(m.id, m.body)

Reply(c, m) == /\ m \in Message
               /\ m.body[1] = c
               /\ Known(m.for, m.body)

ServerLabel == {"loop", "wait", "token", "unqueue", "send", "queue", "wake"}

Exchange ==
  /\ pc[Server] \in ServerLabel
  /\ \A m \in Messages(queue[Server]) : Request(m)
  /\ pc[Server] \in {"send", "queue", "wake"} => Request(current[Server])
  /\ \A c \in Clients :
       /\ pc[c] \in Calling => id[c] < next_id
       /\ \A m \in Messages(queue[c]) : Reply(c, m)
       /\ pc[c] = "handle" => Reply(c, current[c])

(* Each call is on its way once: as a request in the queue, as the one the *)
(* server has yet to answer, or as a reply.                                *)
Once ==
  /\ Distinct(queue[Server])
  /\ pc[Server] \in {"send", "queue"} => current[Server].body \notin Bodies(queue[Server])
  /\ \A c \in Clients :
       /\ Distinct(queue[c])
       /\ Bodies(queue[c]) \cap Bodies(queue[Server]) = {}
       /\ pc[Server] \in {"send", "queue"} => current[Server].body \notin Bodies(queue[c])

Wakers(ep) == {e \in Endpoints : pc[e] = "wake" /\ Destination(e) = ep}

BytesOf(ep) == fifo[ep] + wakeups[ep]
                 + (IF pc[ep] \in {"token", "unqueue"} THEN 1 ELSE 0)
                 + Cardinality(Wakers(ep))

(* Never more bytes than messages, and never fewer unless the timeout may  *)
(* take one away                                                           *)
BytesAgree ==
  \A ep \in Endpoints : Exists(ep) =>
    /\ BytesOf(ep) <= Len(queue[ep])
    /\ KillWindow = FALSE => BytesOf(ep) = Len(queue[ep])

MomInv == TypeOK /\ Exchange /\ Once /\ BytesAgree /\ ReplyMatchesCall

------------------------------------------------------------------------------
(* Queues *)

(* A message is put at the end. *)
LEMMA Appended ==
  ASSUME NEW S, NEW q \in Seq(S), NEW m \in S
  PROVE  /\ Append(q, m) \in Seq(S)
         /\ Len(Append(q, m)) = Len(q) + 1
         /\ Messages(Append(q, m)) = Messages(q) \cup {m}
         /\ Bodies(Append(q, m)) = Bodies(q) \cup {m.body}
         /\ Distinct(q) /\ m.body \notin Bodies(q) => Distinct(Append(q, m))
<1> DEFINE a == Append(q, m)
           n == Len(q)
<1>1. /\ a \in Seq(S)
      /\ Len(a) = n + 1
      /\ \A i \in 1..n : a[i] = q[i]
      /\ a[n + 1] = m
      /\ DOMAIN q = 1..n /\ n \in Nat
      /\ DOMAIN a = 1..(n + 1)
  BY AppendProperties, LenProperties
<1> HIDE DEF a, n
<1>2. Messages(a) = Messages(q) \cup {m} /\ Bodies(a) = Bodies(q) \cup {m.body}
  BY <1>1 DEF Messages, Bodies
<1>3. Distinct(q) /\ m.body \notin Bodies(q) => Distinct(a)
  BY <1>1 DEF Distinct, Bodies
<1> QED BY <1>1, <1>2, <1>3 DEF a, n

(* A message is taken from the front. *)
LEMMA Taken ==
  ASSUME NEW S, NEW q \in Seq(S), q # <<>>
  PROVE  /\ Head(q) \in S /\ Tail(q) \in Seq(S)
         /\ Len(Tail(q)) = Len(q) - 1
         /\ Head(q) \in Messages(q) /\ Messages(Tail(q)) \subseteq Messages(q)
         /\ Head(q).body \in Bodies(q) /\ Bodies(Tail(q)) \subseteq Bodies(q)
         /\ Distinct(q) => Distinct(Tail(q)) /\ Head(q).body \notin Bodies(Tail(q))
<1>1. /\ Head(q) \in S /\ Tail(q) \in Seq(S)
      /\ Len(Tail(q)) = Len(q) - 1
      /\ Head(q) = q[1]
      /\ \A i \in 1..Len(Tail(q)) : Tail(q)[i] = q[i + 1]
      /\ DOMAIN q = 1..Len(q) /\ Len(q) \in Nat \ {0}
      /\ DOMAIN Tail(q) = 1..(Len(q) - 1)
  BY HeadTailProperties, LenProperties, EmptySeq
<1> QED BY <1>1 DEF Messages, Bodies, Distinct

(* A body in a queue is the body of a message. *)
LEMMA BodiesOf ==
  ASSUME NEW q, NEW b \in Bodies(q)
  PROVE  \E m \in Messages(q) : m.body = b
<1>1. PICK i \in DOMAIN q : b = q[i].body
  BY DEF Bodies
<1> QED BY <1>1 DEF Messages

(* An empty queue *)
LEMMA Emptied ==
  /\ Messages(<<>>) = {} /\ Bodies(<<>>) = {} /\ Distinct(<<>>) /\ Len(<<>>) = 0
BY DEF Messages, Bodies, Distinct

-----------------------------------------------------------------------------
(* Senders *)

(* An endpoint is the server or a client, and not both. *)
LEMMA EndpointsAre ==
  /\ Server \in Endpoints /\ Server \notin Clients
  /\ \A c \in Clients : c \in Endpoints
  /\ \A e \in Endpoints \ {Server} : e \in Clients
BY MomAssumption DEF Endpoints

(* What a call returns is of the right type. *)
LEMMA ReturnType ==
  ASSUME TypeOK, NEW c \in Clients, NEW status \in {"none", "reply", "timeout", "error"},
         NEW b \in Clients \X Nat, Return(c, status, b)
  PROVE  result' \in [Clients -> Result]
BY DEF TypeOK, Return, Result

(* A message goes to an endpoint, and a message that is sent is well-formed. *)
LEMMA Sending ==
  ASSUME MomInv, NEW e \in Endpoints, pc[e] \in {"send", "queue", "wake"}
  PROVE  /\ Destination(e) \in Endpoints
         /\ e = Server => Destination(e) \in Clients
         /\ e # Server => Destination(e) = Server /\ e \in Clients
         /\ Outgoing(e) \in Message
BY MomAssumption
   DEF MomInv, TypeOK, Exchange, Request, Message, Endpoints, Destination, Outgoing

(* The parts of TypeOK *)
PlainTypes == /\ next_id \in Nat
              /\ interface \in [Endpoints -> SUBSET {"request", "reply"}]
              /\ fifo \in [Endpoints -> Nat]
              /\ wakeups \in [Endpoints -> Nat]
              /\ id \in [Endpoints -> Nat]
              /\ call \in [Clients -> 0..MaxRequests]
              /\ result \in [Clients -> Result]

MessageTypes == /\ queue \in [Endpoints -> Seq(Message)]
                /\ current \in [Endpoints -> Message \cup {NoMessage}]

Places == /\ pc \in [Endpoints -> Label]
          /\ \A e \in Endpoints :
               pc[e] # "gone" \/ (queue[e] = <<>> /\ interface[e] = {} /\ fifo[e] = 0)

LEMMA TypeParts ==
  /\ TypeOK <=> PlainTypes /\ MessageTypes /\ Places
  /\ TypeOK' <=> PlainTypes' /\ MessageTypes' /\ Places'
BY DEF TypeOK, PlainTypes, MessageTypes, Places, Exists

(* What a failed call of mom_unicast_message changes *)
LEMMA FailureType ==
  ASSUME TypeOK, NEW e \in Endpoints, SendFails(e)
  PROVE  /\ pc' = [pc EXCEPT ![e] = IF e = Server THEN "loop" ELSE "finish"]
         /\ result' \in [Clients -> Result]
         /\ UNCHANGED result \/ (e \in Clients /\ result' = [result EXCEPT ![e] = [status |-> "error", body |-> <<e, 0>>]])
<1>1. CASE e = Server
  BY <1>1 DEF SendFails, Goto, TypeOK
<1>2. CASE e # Server
  <2>1. e \in Clients
    BY <1>2, EndpointsAre
  <2>2. /\ Return(e, "error", <<e, 0>>)
        /\ pc' = [pc EXCEPT ![e] = "finish"]
    BY <1>2 DEF SendFails, Goto
  <2>3. result' \in [Clients -> Result]
    BY <2>1, <2>2, ReturnType
  <2> QED BY <1>2, <2>1, <2>2, <2>3 DEF Return
<1> QED BY <1>1, <1>2

(* What the three steps change that move a message *)
LEMMA TakeIdEffect ==
  ASSUME NEW e \in Endpoints, TakeId(e)
  PROVE  /\ pc[e] = "send"
         /\ UNCHANGED <<interface, queue, fifo, wakeups, current, call>>
         /\ \/ /\ id' = [id EXCEPT ![e] = next_id] /\ next_id' = next_id + 1
               /\ pc' = [pc EXCEPT ![e] = "queue"] /\ UNCHANGED result
            \/ SendFails(e) /\ UNCHANGED <<id, next_id>>
BY DEF TakeId, NextMessageId, Goto

LEMMA QueueEffect ==
  ASSUME NEW e \in Endpoints, Queue(e)
  PROVE  /\ pc[e] = "queue"
         /\ UNCHANGED <<next_id, interface, fifo, wakeups, id, current, call>>
         /\ \/ /\ queue' = [queue EXCEPT ![Destination(e)] =
                                 Append(queue[Destination(e)], Outgoing(e))]
               /\ pc[Destination(e)] # "gone"
               /\ pc' = [pc EXCEPT ![e] = "wake"] /\ UNCHANGED result
            \/ SendFails(e) /\ UNCHANGED queue
BY DEF Queue, Accepts, Exists, Goto

LEMMA UnqueueEffect ==
  ASSUME NEW e \in Endpoints, Unqueue(e)
  PROVE  /\ pc[e] = "unqueue"
         /\ UNCHANGED <<next_id, interface, fifo, wakeups, id, call, result>>
         /\ \/ /\ queue[e] = <<>>
               /\ queue' = [queue EXCEPT ![e] = <<>>]
               /\ pc' = [pc EXCEPT ![e] = "loop"] /\ UNCHANGED current
            \/ /\ queue[e] # <<>>
               /\ queue' = [queue EXCEPT ![e] = Tail(queue[e])]
               /\ pc' = [pc EXCEPT ![e] = IF e = Server THEN "send" ELSE "handle"]
               /\ current' = [current EXCEPT ![e] = Head(queue[e])]
BY DEF Unqueue, Remaining, Goto

(* No process forgets what is known of a message. *)
LEMMA KnownKept ==
  ASSUME MomInv, [Next]_vars, NEW i \in Nat, NEW b \in Clients \X Nat, Known(i, b)
  PROVE  Known(i, b)'
<1> DEFINE P == Known(i, b)'
<1> USE EndpointsAre DEF vars, Goto
<1> USE DEF MomInv, TypeOK, Exchange, Known, Calling
<1>1. CASE UNCHANGED vars
  BY <1>1
<1>2. ASSUME NEW e \in Endpoints, Loop(e)
      PROVE  P
  BY <1>2 DEF Loop
<1>3. ASSUME NEW e \in Endpoints, ReadByte(e)
      PROVE  P
  BY <1>3 DEF ReadByte
<1>4. ASSUME NEW e \in Endpoints, WaitReturns(e)
      PROVE  P
  BY <1>4 DEF WaitReturns
<1>5. ASSUME NEW e \in Endpoints, Unqueue(e)
      PROVE  P
  BY <1>5 DEF Unqueue
<1>6. ASSUME NEW e \in Endpoints, TakeId(e)
      PROVE  P
  <2>1. CASE Exists(Destination(e))
    <3>1. /\ id' = [id EXCEPT ![e] = next_id] /\ next_id' = next_id + 1
          /\ pc' = [pc EXCEPT ![e] = "queue"] /\ pc[e] = "send" /\ UNCHANGED call
      BY <1>6, <2>1 DEF TakeId, NextMessageId
    <3>2. b[1] \in Clients /\ b[1] \in Endpoints
      OBVIOUS
    <3> QED BY <3>1, <3>2
  <2>2. CASE ~Exists(Destination(e))
    BY <1>6, <2>2 DEF TakeId, SendFails
  <2> QED BY <2>1, <2>2
<1>7. ASSUME NEW e \in Endpoints, Queue(e)
      PROVE  P
  BY <1>7 DEF Queue, SendFails
<1>8. ASSUME NEW e \in Endpoints, Wakeup(e)
      PROVE  P
  BY <1>8 DEF Wakeup
<1>9. ASSUME NEW e \in Endpoints, DoWakeup(e)
      PROVE  P
  BY <1>9 DEF DoWakeup
<1>10. ASSUME NEW e \in Clients, HandleReply(e)
      PROVE  P
  BY <1>10 DEF HandleReply
<1>11. ASSUME NEW e \in Clients, Unregister(e)
      PROVE  P
  BY <1>11 DEF Unregister
<1>12. ASSUME NEW e \in Clients, Register(e)
      PROVE  P
  BY <1>12 DEF Register
<1>13. ASSUME NEW e \in Clients, Timeout(e)
      PROVE  P
  BY <1>13 DEF Timeout
<1>14. ASSUME NEW e \in Clients, Destroy(e)
      PROVE  P
  BY <1>14 DEF Destroy
<1> QED
  BY <1>1, <1>2, <1>3, <1>4, <1>5, <1>6, <1>7, <1>8, <1>9, <1>10, <1>11, <1>12, <1>13, <1>14
     DEF Next, Receive, SendMessage, ClientCall

LEMMA MessagesKept ==
  ASSUME MomInv, [Next]_vars
  PROVE  /\ \A m : Request(m) => Request(m)'
         /\ \A c \in Clients : \A m : Reply(c, m) => Reply(c, m)'
BY KnownKept DEF Request, Reply, Message

(* No step breaks a type. *)
LEMMA TypeStep ==
  MomInv /\ [Next]_vars => TypeOK'
<1> SUFFICES ASSUME MomInv, [Next]_vars
             PROVE  PlainTypes' /\ MessageTypes' /\ Places'
  BY TypeParts
<1> USE EndpointsAre DEF vars, Goto
<1>0. PlainTypes /\ MessageTypes /\ Places /\ TypeOK /\ Exchange
  BY TypeParts DEF MomInv
<1> USE <1>0 DEF PlainTypes, MessageTypes, Places, Label
<1>1. CASE UNCHANGED vars
  BY <1>1
<1>2. ASSUME NEW e \in Endpoints, Loop(e)
      PROVE  PlainTypes' /\ MessageTypes' /\ Places'
  BY <1>2 DEF Loop
<1>3. ASSUME NEW e \in Endpoints, ReadByte(e)
      PROVE  PlainTypes' /\ MessageTypes' /\ Places'
  BY <1>3 DEF ReadByte
<1>4. ASSUME NEW e \in Endpoints, WaitReturns(e)
      PROVE  PlainTypes' /\ MessageTypes' /\ Places'
  BY <1>4 DEF WaitReturns
<1>5. ASSUME NEW e \in Endpoints, Unqueue(e)
      PROVE  PlainTypes' /\ MessageTypes' /\ Places'
  <2>1. CASE queue[e] = <<>>
    <3>1. PlainTypes' /\ MessageTypes' /\ Places'
      BY <1>5, <2>1 DEF Unqueue, Remaining
    <3> QED BY <3>1
  <2>2. CASE queue[e] # <<>>
    <3>1. Head(queue[e]) \in Message /\ Tail(queue[e]) \in Seq(Message)
      BY <2>2, Taken
    <3>2. PlainTypes'
      BY <1>5 DEF Unqueue
    <3>3. MessageTypes'
      <4>1. /\ queue' = [queue EXCEPT ![e] = Tail(queue[e])]
            /\ current' = [current EXCEPT ![e] = Head(queue[e])]
        BY <1>5, <2>2 DEF Unqueue, Remaining
      <4> QED BY <3>1, <4>1
    <3>4. Places'
      BY <1>5, <2>2 DEF Unqueue, Remaining
    <3> QED BY <3>2, <3>3, <3>4
  <2> QED BY <2>1, <2>2
<1>6. ASSUME NEW e \in Endpoints, TakeId(e)
      PROVE  PlainTypes' /\ MessageTypes' /\ Places'
  <2>1. MessageTypes'
    BY <1>6 DEF TakeId
  <2>2. CASE Exists(Destination(e))
    <3>1. /\ id' = [id EXCEPT ![e] = next_id] /\ next_id' = next_id + 1
          /\ UNCHANGED <<interface, fifo, wakeups, call, result>>
      BY <1>6, <2>2 DEF TakeId, NextMessageId
    <3>3. PlainTypes'
      BY <3>1
    <3>2. Places'
      BY <1>6, <2>2 DEF TakeId
    <3> QED BY <2>1, <3>2, <3>3
  <2>3. CASE ~Exists(Destination(e))
    <3>1. PlainTypes' /\ Places'
      BY <1>6, <2>3, FailureType, TypeParts DEF TakeId
    <3> QED BY <2>1, <3>1
  <2> QED BY <2>2, <2>3
<1>7. ASSUME NEW e \in Endpoints, Queue(e)
      PROVE  PlainTypes' /\ MessageTypes' /\ Places'
  <2>1. pc[e] = "queue" /\ Destination(e) \in Endpoints /\ Outgoing(e) \in Message
    BY <1>7, Sending DEF Queue
  <2>2. CASE Accepts(Destination(e), Outgoing(e).type)
    <3>1. Append(queue[Destination(e)], Outgoing(e)) \in Seq(Message)
      BY <2>1, Appended
    <3>2. /\ queue' = [queue EXCEPT ![Destination(e)] = Append(queue[Destination(e)], Outgoing(e))]
          /\ pc[Destination(e)] # "gone"
          /\ pc' = [pc EXCEPT ![e] = "wake"]
          /\ UNCHANGED <<next_id, interface, fifo, wakeups, id, current, call, result>>
      BY <1>7, <2>2 DEF Queue, Accepts, Exists
    <3>3. PlainTypes'
      BY <3>2
    <3>4. MessageTypes'
      BY <2>1, <3>1, <3>2
    <3>5. Places'
      BY <2>1, <3>2
    <3> QED BY <3>3, <3>4, <3>5
  <2>3. CASE ~Accepts(Destination(e), Outgoing(e).type)
    <3>1. PlainTypes' /\ MessageTypes' /\ Places'
      BY <1>7, <2>3, FailureType, TypeParts DEF Queue
    <3> QED BY <3>1
  <2> QED BY <2>2, <2>3
<1>8. ASSUME NEW e \in Endpoints, Wakeup(e)
      PROVE  PlainTypes' /\ MessageTypes' /\ Places'
  <2>1. Destination(e) \in Endpoints
    BY <1>8, Sending DEF Wakeup
  <2> QED BY <1>8, <2>1 DEF Wakeup
<1>9. ASSUME NEW e \in Endpoints, DoWakeup(e)
      PROVE  PlainTypes' /\ MessageTypes' /\ Places'
  BY <1>9 DEF DoWakeup, Exists
<1>10. ASSUME NEW e \in Clients, HandleReply(e)
      PROVE  PlainTypes' /\ MessageTypes' /\ Places'
  <2>1. result' \in [Clients -> Result]
    BY <1>10, ReturnType, TypeParts DEF HandleReply, Exchange, Reply, Message
  <2> QED BY <1>10, <2>1 DEF HandleReply
<1>11. ASSUME NEW e \in Clients, Unregister(e)
      PROVE  PlainTypes' /\ MessageTypes' /\ Places'
  BY <1>11 DEF Unregister
<1>12. ASSUME NEW e \in Clients, Register(e)
      PROVE  PlainTypes' /\ MessageTypes' /\ Places'
  <2>1. result' \in [Clients -> Result]
    BY <1>12, ReturnType, TypeParts DEF Register
  <2>4. /\ interface' = [interface EXCEPT ![e] = interface[e] \cup {"reply"}]
        /\ call' = [call EXCEPT ![e] = call[e] + 1] /\ call[e] < MaxRequests
        /\ UNCHANGED <<next_id, fifo, wakeups, id>>
    BY <1>12 DEF Register
  <2>5. call' \in [Clients -> 0..MaxRequests]
    BY <2>4, MomAssumption
  <2>6. interface' \in [Endpoints -> SUBSET {"request", "reply"}]
    BY <2>4
  <2>2. PlainTypes'
    BY <2>1, <2>4, <2>5, <2>6
  <2>3. MessageTypes' /\ Places'
    BY <1>12 DEF Register
  <2> QED BY <2>2, <2>3
<1>13. ASSUME NEW e \in Clients, Timeout(e)
      PROVE  PlainTypes' /\ MessageTypes' /\ Places'
  <2>1. result' \in [Clients -> Result]
    BY <1>13, ReturnType, TypeParts DEF Timeout
  <2> QED BY <1>13, <2>1 DEF Timeout
<1>14. ASSUME NEW e \in Clients, Destroy(e)
      PROVE  PlainTypes' /\ MessageTypes' /\ Places'
  BY <1>14 DEF Destroy, Exists
<1> QED
  BY <1>1, <1>2, <1>3, <1>4, <1>5, <1>6, <1>7, <1>8, <1>9, <1>10, <1>11, <1>12, <1>13, <1>14
     DEF Next, Receive, SendMessage, ClientCall

(* What is known of the messages stays true. *)
LEMMA ExchangeStep ==
  MomInv /\ [Next]_vars => Exchange'
<1> SUFFICES ASSUME MomInv, [Next]_vars
             PROVE  Exchange'
  OBVIOUS
<1>0. /\ TypeOK /\ Exchange
      /\ \A m : Request(m) => Request(m)'
      /\ \A c \in Clients : \A m : Reply(c, m) => Reply(c, m)'
  BY MessagesKept DEF MomInv
<1>a. /\ queue \in [Endpoints -> Seq(Message)] /\ pc \in [Endpoints -> Label]
      /\ id \in [Endpoints -> Nat] /\ next_id \in Nat
      /\ current \in [Endpoints -> Message \cup {NoMessage}]
      /\ call \in [Clients -> 0..MaxRequests]
  BY <1>0 DEF TypeOK
<1> USE EndpointsAre, <1>0, <1>a DEF vars, Goto, Exchange, Calling, ServerLabel
<1>1. CASE UNCHANGED vars
  BY <1>1
<1>2. ASSUME NEW e \in Endpoints, Loop(e)
      PROVE  Exchange'
  BY <1>2 DEF Loop
<1>3. ASSUME NEW e \in Endpoints, ReadByte(e)
      PROVE  Exchange'
  BY <1>3 DEF ReadByte
<1>4. ASSUME NEW e \in Endpoints, WaitReturns(e)
      PROVE  Exchange'
  BY <1>4 DEF WaitReturns
<1>5. ASSUME NEW e \in Endpoints, Unqueue(e)
      PROVE  Exchange'
  <2>1. CASE queue[e] = <<>>
    BY <1>5, <2>1, UnqueueEffect
  <2>2. CASE queue[e] # <<>>
    <3>1. /\ Head(queue[e]) \in Messages(queue[e])
          /\ Messages(Tail(queue[e])) \subseteq Messages(queue[e])
      BY <2>2, Taken
    <3>2. /\ pc[e] = "unqueue" /\ UNCHANGED <<next_id, id>>
          /\ queue' = [queue EXCEPT ![e] = Tail(queue[e])]
          /\ pc' = [pc EXCEPT ![e] = IF e = Server THEN "send" ELSE "handle"]
          /\ current' = [current EXCEPT ![e] = Head(queue[e])]
      BY <1>5, <2>2, UnqueueEffect
    <3>3. CASE e = Server
      BY <3>1, <3>2, <3>3
    <3>4. CASE e # Server
      BY <3>1, <3>2, <3>4
    <3> QED BY <3>3, <3>4
  <2> QED BY <2>1, <2>2
<1>6. ASSUME NEW e \in Endpoints, TakeId(e)
      PROVE  Exchange'
  <2>1. CASE SendFails(e) /\ UNCHANGED <<id, next_id>>
    BY <1>6, <2>1, TakeIdEffect, FailureType
  <2>2. CASE pc' = [pc EXCEPT ![e] = "queue"] /\ id' = [id EXCEPT ![e] = next_id] /\ next_id' = next_id + 1
    <3>1. pc[e] = "send" /\ UNCHANGED <<queue, current>>
      BY <1>6, TakeIdEffect
    <3>2. \A c \in Clients : pc'[c] \in Calling => id'[c] < next_id'
      BY <2>2, <3>1
    <3> QED BY <2>2, <3>1, <3>2
  <2> QED BY <1>6, <2>1, <2>2, TakeIdEffect
<1>7. ASSUME NEW e \in Endpoints, Queue(e)
      PROVE  Exchange'
  <2>1. CASE SendFails(e) /\ UNCHANGED queue
    BY <1>7, <2>1, QueueEffect, FailureType
  <2>2. CASE /\ queue' = [queue EXCEPT ![Destination(e)] =
                            Append(queue[Destination(e)], Outgoing(e))]
             /\ pc' = [pc EXCEPT ![e] = "wake"]
    <3>1. pc[e] = "queue" /\ UNCHANGED <<next_id, id, current, call>>
      BY <1>7, QueueEffect
    <3>2. /\ Destination(e) \in Endpoints /\ Outgoing(e) \in Message
          /\ e = Server => Destination(e) \in Clients
          /\ e # Server => Destination(e) = Server
      BY <3>1, Sending
    <3>5. Messages(queue'[Destination(e)]) = Messages(queue[Destination(e)]) \cup {Outgoing(e)}
      BY <2>2, <3>2, Appended
    <3>3. CASE e = Server
      BY <2>2, <3>1, <3>2, <3>3, <3>5 DEF Outgoing, Reply, Request, Destination
    <3>4. CASE e # Server
      <4>1. PICK m : m = Outgoing(e)
        OBVIOUS
      <4>2. /\ m \in Message /\ m.sender = e /\ m.id = id[e]
            /\ m.body = <<e, call[e]>> /\ e \in Clients
        BY <3>2, <3>4, <4>1 DEF Outgoing
      <4>3. Known(m.id, m.body)'
        BY <2>2, <3>1, <4>2 DEF Known
      <4>4. Request(m)'
        BY <4>2, <4>3 DEF Request
      <4> QED BY <2>2, <3>1, <3>2, <3>4, <3>5, <4>1, <4>4
    <3> QED BY <3>3, <3>4
  <2> QED BY <1>7, <2>1, <2>2, QueueEffect
<1>8. ASSUME NEW e \in Endpoints, Wakeup(e)
      PROVE  Exchange'
  BY <1>8 DEF Wakeup
<1>9. ASSUME NEW e \in Endpoints, DoWakeup(e)
      PROVE  Exchange'
  BY <1>9 DEF DoWakeup
<1>10. ASSUME NEW e \in Clients, HandleReply(e)
      PROVE  Exchange'
  BY <1>10 DEF HandleReply
<1>11. ASSUME NEW e \in Clients, Unregister(e)
      PROVE  Exchange'
  BY <1>11 DEF Unregister
<1>12. ASSUME NEW e \in Clients, Register(e)
      PROVE  Exchange'
  BY <1>12 DEF Register
<1>13. ASSUME NEW e \in Clients, Timeout(e)
      PROVE  Exchange'
  BY <1>13 DEF Timeout
<1>14. ASSUME NEW e \in Clients, Destroy(e)
      PROVE  Exchange'
  BY <1>14, Emptied DEF Destroy
<1> QED
  BY <1>1, <1>2, <1>3, <1>4, <1>5, <1>6, <1>7, <1>8, <1>9, <1>10, <1>11, <1>12, <1>13, <1>14
     DEF Next, Receive, SendMessage, ClientCall

(* Every call stays on its way at most once. *)
LEMMA OnceStep ==
  MomInv /\ [Next]_vars => Once'
<1> SUFFICES ASSUME MomInv, [Next]_vars
             PROVE  Once'
  OBVIOUS
<1>0. /\ TypeOK /\ Exchange /\ Once
      /\ queue \in [Endpoints -> Seq(Message)] /\ pc \in [Endpoints -> Label]
      /\ current \in [Endpoints -> Message \cup {NoMessage}]
      /\ call \in [Clients -> 0..MaxRequests]
  BY DEF MomInv, TypeOK
<1> USE EndpointsAre, <1>0 DEF vars, Goto, Exchange, Once
<1>1. CASE UNCHANGED vars
  BY <1>1
<1>2. ASSUME NEW e \in Endpoints, Loop(e)
      PROVE  Once'
  BY <1>2 DEF Loop
<1>3. ASSUME NEW e \in Endpoints, ReadByte(e)
      PROVE  Once'
  BY <1>3 DEF ReadByte
<1>4. ASSUME NEW e \in Endpoints, WaitReturns(e)
      PROVE  Once'
  BY <1>4 DEF WaitReturns
<1>5. ASSUME NEW e \in Endpoints, Unqueue(e)
      PROVE  Once'
  BY <1>5, Taken, Emptied DEF Unqueue, Remaining
<1>6. ASSUME NEW e \in Endpoints, TakeId(e)
      PROVE  Once'
  BY <1>6 DEF TakeId, SendFails, Exists
<1>7. ASSUME NEW e \in Endpoints, Queue(e)
      PROVE  Once'
  <2>1. CASE SendFails(e) /\ UNCHANGED queue
    BY <1>7, <2>1, QueueEffect, FailureType
  <2>2. CASE /\ queue' = [queue EXCEPT ![Destination(e)] =
                            Append(queue[Destination(e)], Outgoing(e))]
             /\ pc' = [pc EXCEPT ![e] = "wake"]
    <3>1. pc[e] = "queue" /\ UNCHANGED current
      BY <1>7, QueueEffect
    <3>2. /\ Destination(e) \in Endpoints /\ Outgoing(e) \in Message
          /\ e = Server => Destination(e) \in Clients
          /\ e # Server => Destination(e) = Server
      BY <3>1, Sending DEF MomInv
    <3>3. PICK ep \in Endpoints, m \in Message : ep = Destination(e) /\ m = Outgoing(e)
      BY <3>2
    <3>4. /\ queue' = [queue EXCEPT ![ep] = Append(queue[ep], m)]
          /\ Bodies(Append(queue[ep], m)) = Bodies(queue[ep]) \cup {m.body}
          /\ Distinct(queue[ep]) /\ m.body \notin Bodies(queue[ep])
               => Distinct(Append(queue[ep], m))
      BY <2>2, <3>3, Appended
    <3>5. CASE e = Server
      <4>1. m.body = current[Server].body
        BY <3>3, <3>5 DEF Outgoing
      <4> QED BY <2>2, <3>1, <3>2, <3>3, <3>4, <3>5, <4>1
    <3>6. CASE e # Server
      <4>1. m.body = <<e, call[e]>> /\ e \in Clients
        BY <3>3, <3>6 DEF Outgoing
      <4>2. \A x : Request(x) \/ Reply(e, x) => x.body # m.body
        BY <3>1, <4>1, MomAssumption DEF Request, Reply, Known
      <4>3. \A c \in Clients : \A x : Reply(c, x) => x.body # m.body
        BY <4>1, <4>2 DEF Reply
      <4>4. /\ \A x \in Messages(queue[Server]) : x.body # m.body
            /\ \A c \in Clients : \A x \in Messages(queue[c]) : x.body # m.body
            /\ pc[Server] \in {"send", "queue"} => m.body # current[Server].body
        BY <4>2, <4>3
      <4>5. \A q : m.body \in Bodies(q) => \E x \in Messages(q) : x.body = m.body
        BY BodiesOf
      <4>6. /\ m.body \notin Bodies(queue[Server])
            /\ \A c \in Clients : m.body \notin Bodies(queue[c])
        BY <4>4, <4>5
      <4>7. /\ ep = Server /\ pc'[Server] = pc[Server]
            /\ queue'[Server] = Append(queue[Server], m)
            /\ \A c \in Clients : queue'[c] = queue[c]
        BY <2>2, <3>2, <3>3, <3>4, <3>6
      <4> QED BY <3>1, <3>4, <4>4, <4>6, <4>7
    <3> QED BY <3>5, <3>6
  <2> QED BY <1>7, <2>1, <2>2, QueueEffect
<1>8. ASSUME NEW e \in Endpoints, Wakeup(e)
      PROVE  Once'
  BY <1>8 DEF Wakeup, Destination
<1>9. ASSUME NEW e \in Endpoints, DoWakeup(e)
      PROVE  Once'
  BY <1>9 DEF DoWakeup
<1>10. ASSUME NEW e \in Clients, HandleReply(e)
      PROVE  Once'
  BY <1>10 DEF HandleReply
<1>11. ASSUME NEW e \in Clients, Unregister(e)
      PROVE  Once'
  BY <1>11 DEF Unregister
<1>12. ASSUME NEW e \in Clients, Register(e)
      PROVE  Once'
  BY <1>12 DEF Register
<1>13. ASSUME NEW e \in Clients, Timeout(e)
      PROVE  Once'
  BY <1>13 DEF Timeout
<1>14. ASSUME NEW e \in Clients, Destroy(e)
      PROVE  Once'
  BY <1>14, Emptied DEF Destroy
<1> QED
  BY <1>1, <1>2, <1>3, <1>4, <1>5, <1>6, <1>7, <1>8, <1>9, <1>10, <1>11, <1>12, <1>13, <1>14
     DEF Next, Receive, SendMessage, ClientCall

(* Only the reply to the present call is returned. *)
LEMMA ReplyStep ==
  MomInv /\ [Next]_vars => ReplyMatchesCall'
<1> SUFFICES ASSUME MomInv, [Next]_vars
             PROVE  ReplyMatchesCall'
  OBVIOUS
<1>0. /\ TypeOK /\ Exchange /\ ReplyMatchesCall
      /\ call \in [Clients -> 0..MaxRequests] /\ result \in [Clients -> Result]
  BY DEF MomInv, TypeOK
<1> USE EndpointsAre, <1>0 DEF vars, ReplyMatchesCall
<1>1. CASE UNCHANGED vars
  BY <1>1
<1>2. ASSUME NEW e \in Endpoints, Loop(e)
      PROVE  ReplyMatchesCall'
  BY <1>2 DEF Loop
<1>3. ASSUME NEW e \in Endpoints, ReadByte(e)
      PROVE  ReplyMatchesCall'
  BY <1>3 DEF ReadByte
<1>4. ASSUME NEW e \in Endpoints, WaitReturns(e)
      PROVE  ReplyMatchesCall'
  BY <1>4 DEF WaitReturns
<1>5. ASSUME NEW e \in Endpoints, Unqueue(e)
      PROVE  ReplyMatchesCall'
  BY <1>5 DEF Unqueue
<1>6. ASSUME NEW e \in Endpoints, TakeId(e)
      PROVE  ReplyMatchesCall'
  BY <1>6, TakeIdEffect, FailureType
<1>7. ASSUME NEW e \in Endpoints, Queue(e)
      PROVE  ReplyMatchesCall'
  BY <1>7, QueueEffect, FailureType
<1>8. ASSUME NEW e \in Endpoints, Wakeup(e)
      PROVE  ReplyMatchesCall'
  BY <1>8 DEF Wakeup
<1>9. ASSUME NEW e \in Endpoints, DoWakeup(e)
      PROVE  ReplyMatchesCall'
  BY <1>9 DEF DoWakeup
<1>10. ASSUME NEW e \in Clients, HandleReply(e)
      PROVE  ReplyMatchesCall'
  <2>1. CASE IsMyReply(e, current[e])
    <3>1. result' = [result EXCEPT ![e] = [status |-> "reply", body |-> current[e].body]]
      BY <1>10, <2>1 DEF HandleReply, Return
    <3>2. /\ current[e].body[1] = e /\ current[e].body[2] = call[e]
          /\ current[e].body \in Clients \X Nat
      BY <1>10, <2>1 DEF HandleReply, IsMyReply, Message, Exchange, Reply, Known, Calling
    <3>3. current[e].body = <<e, call[e]>>
      BY <3>2
    <3> QED BY <1>10, <3>1, <3>3 DEF HandleReply
  <2>2. CASE ~IsMyReply(e, current[e])
    BY <1>10, <2>2 DEF HandleReply
  <2> QED BY <2>1, <2>2
<1>11. ASSUME NEW e \in Clients, Unregister(e)
      PROVE  ReplyMatchesCall'
  BY <1>11 DEF Unregister
<1>12. ASSUME NEW e \in Clients, Register(e)
      PROVE  ReplyMatchesCall'
  BY <1>12 DEF Register, Return
<1>13. ASSUME NEW e \in Clients, Timeout(e)
      PROVE  ReplyMatchesCall'
  BY <1>13 DEF Timeout, Return
<1>14. ASSUME NEW e \in Clients, Destroy(e)
      PROVE  ReplyMatchesCall'
  BY <1>14 DEF Destroy
<1> QED
  BY <1>1, <1>2, <1>3, <1>4, <1>5, <1>6, <1>7, <1>8, <1>9, <1>10, <1>11, <1>12, <1>13, <1>14
     DEF Next, Receive, SendMessage, ClientCall

-----------------------------------------------------------------------------
(* Bytes *)

(* One sender more or less is about to wake somebody up. *)
LEMMA SendersCounted ==
  ASSUME NEW S \in SUBSET Endpoints
  PROVE  /\ IsFiniteSet(S) /\ Cardinality(S) \in Nat
         /\ \A e \in Endpoints \ S : Cardinality(S \cup {e}) = Cardinality(S) + 1
         /\ \A e \in S : Cardinality(S \ {e}) = Cardinality(S) - 1
<1>1. IsFiniteSet(Endpoints)
  BY MomAssumption, FS_Singleton, FS_Union DEF Endpoints
<1>2. IsFiniteSet(S)
  BY <1>1, FS_Subset
<1> QED BY <1>2, FS_CardinalityType, FS_AddElement, FS_RemoveElement

LEMMA WakersAre ==
  ASSUME NEW ep
  PROVE  /\ Wakers(ep) \in SUBSET Endpoints /\ Wakers(ep)' \in SUBSET Endpoints
         /\ Cardinality(Wakers(ep)) \in Nat /\ Cardinality(Wakers(ep)') \in Nat
<1>1. Wakers(ep) \in SUBSET Endpoints /\ Wakers(ep)' \in SUBSET Endpoints
  BY DEF Wakers
<1> QED BY <1>1, SendersCounted

(* Nobody else starts or stops waking anybody up. *)
LEMMA SameWakers ==
  ASSUME \A x \in Endpoints : pc'[x] = "wake" <=> pc[x] = "wake",
         pc[Server] = "wake" => current'[Server] = current[Server],
         NEW ep
  PROVE  Wakers(ep)' = Wakers(ep)
BY EndpointsAre DEF Wakers, Destination

(* Messages and bytes that change alike go on to agree. *)
Token(ep) == IF pc[ep] \in {"token", "unqueue"} THEN 1 ELSE 0

Agree(ep) == /\ BytesOf(ep) <= Len(queue[ep])
             /\ KillWindow = FALSE => BytesOf(ep) = Len(queue[ep])

LEMMA BytesTypes ==
  ASSUME TypeOK, NEW ep \in Endpoints
  PROVE  /\ BytesOf(ep) \in Nat /\ Len(queue[ep]) \in Nat
         /\ fifo[ep] \in Nat /\ wakeups[ep] \in Nat
         /\ Token(ep) \in {0, 1} /\ Cardinality(Wakers(ep)) \in Nat
         /\ BytesOf(ep) = fifo[ep] + wakeups[ep] + Token(ep) + Cardinality(Wakers(ep))
BY WakersAre, LenProperties DEF TypeOK, BytesOf, Token

LEMMA BothFewer ==
  ASSUME NEW ep, BytesOf(ep) \in Nat, Len(queue[ep]) \in Nat, Agree(ep),
         BytesOf(ep)' = BytesOf(ep) - 1, Len(queue[ep])' = Len(queue[ep]) - 1
  PROVE  Agree(ep)'
BY DEF Agree

LEMMA BytesSum ==
  ASSUME NEW ep, fifo[ep] \in Nat, wakeups[ep] \in Nat, Token(ep) \in {0, 1},
         Cardinality(Wakers(ep)) \in Nat, UNCHANGED <<fifo, wakeups>>,
         Token(ep)' = Token(ep), Cardinality(Wakers(ep)') = Cardinality(Wakers(ep)) + 1
  PROVE  BytesOf(ep)' = BytesOf(ep) + 1
BY DEF BytesOf, Token

(* Every byte goes the way of its message. *)
LEMMA BytesStep ==
  MomInv /\ [Next]_vars => BytesAgree'
<1> SUFFICES ASSUME MomInv, [Next]_vars, TypeOK', NEW ep \in Endpoints, Exists(ep)'
             PROVE  Agree(ep)'
  BY TypeStep DEF BytesAgree, Agree
<1>0. /\ TypeOK /\ Exchange
      /\ Exists(ep) => Agree(ep)
      /\ queue \in [Endpoints -> Seq(Message)] /\ pc \in [Endpoints -> Label]
      /\ fifo \in [Endpoints -> Nat] /\ wakeups \in [Endpoints -> Nat]
  BY DEF MomInv, TypeOK, BytesAgree, Agree
<1>a. /\ BytesOf(ep) \in Nat /\ Len(queue[ep]) \in Nat
      /\ fifo[ep] \in Nat /\ wakeups[ep] \in Nat
      /\ BytesOf(ep) = fifo[ep] + wakeups[ep] + Token(ep) + Cardinality(Wakers(ep))
      /\ BytesOf(ep)' = fifo'[ep] + wakeups'[ep] + Token(ep)' + Cardinality(Wakers(ep)')
      /\ Token(ep) \in {0, 1} /\ Cardinality(Wakers(ep)) \in Nat
      /\ Token(ep)' \in {0, 1} /\ Cardinality(Wakers(ep)') \in Nat
  BY <1>0, BytesTypes, WakersAre DEF BytesOf, Token
<1> USE EndpointsAre, <1>0, <1>a DEF vars, Goto
<1>1. CASE UNCHANGED vars
  <2>1. Wakers(ep)' = Wakers(ep)
    BY <1>1, SameWakers
  <2>2. Token(ep)' = Token(ep) /\ Exists(ep) /\ UNCHANGED <<fifo, wakeups, queue>>
    BY <1>1 DEF Token, Exists
  <2> QED BY <2>1, <2>2 DEF Agree
<1>2. ASSUME NEW e \in Endpoints, Loop(e)
      PROVE  Agree(ep)'
  <2>1. Wakers(ep)' = Wakers(ep)
    BY <1>2, SameWakers DEF Loop
  <2>2. Token(ep)' = Token(ep) /\ Exists(ep) /\ UNCHANGED <<fifo, wakeups, queue>>
    BY <1>2 DEF Loop, Token, Exists
  <2> QED BY <2>1, <2>2 DEF Agree
<1>3. ASSUME NEW e \in Endpoints, ReadByte(e)
      PROVE  Agree(ep)'
  <2>1. Wakers(ep)' = Wakers(ep)
    BY <1>3, SameWakers DEF ReadByte
  <2>2. /\ pc[e] = "wait" /\ pc' = [pc EXCEPT ![e] = "token"]
        /\ fifo' = [fifo EXCEPT ![e] = fifo[e] - 1]
        /\ UNCHANGED <<wakeups, queue>>
    BY <1>3 DEF ReadByte
  <2>3. Exists(ep)
    BY <2>2 DEF Exists
  <2>4. CASE ep = e
    <3>1. Token(ep) = 0 /\ Token(ep)' = 1 /\ fifo'[ep] = fifo[ep] - 1
      BY <2>2, <2>4 DEF Token
    <3>2. BytesOf(ep)' = BytesOf(ep)
      BY <2>1, <2>2, <3>1
    <3> QED BY <2>2, <2>3, <3>2 DEF Agree
  <2>5. CASE ep # e
    <3>1. Token(ep)' = Token(ep) /\ fifo'[ep] = fifo[ep]
      BY <2>2, <2>5 DEF Token
    <3>2. BytesOf(ep)' = BytesOf(ep)
      BY <2>1, <2>2, <3>1
    <3> QED BY <2>2, <2>3, <3>2 DEF Agree
  <2> QED BY <2>4, <2>5
<1>4. ASSUME NEW e \in Endpoints, WaitReturns(e)
      PROVE  Agree(ep)'
  <2>1. Wakers(ep)' = Wakers(ep)
    BY <1>4, SameWakers DEF WaitReturns
  <2>2. Token(ep)' = Token(ep) /\ Exists(ep) /\ UNCHANGED <<fifo, wakeups, queue>>
    BY <1>4 DEF WaitReturns, Token, Exists
  <2> QED BY <2>1, <2>2 DEF Agree
<1>5. ASSUME NEW e \in Endpoints, Unqueue(e)
      PROVE  Agree(ep)'
  <2>0. /\ pc[e] = "unqueue" /\ UNCHANGED <<fifo, wakeups>>
        /\ \E l \in {"loop", "send", "handle"} : pc' = [pc EXCEPT ![e] = l]
        /\ \A x \in Endpoints \ {e} : current'[x] = current[x]
    BY <1>5 DEF Unqueue, TypeOK
  <2>1. Wakers(ep)' = Wakers(ep)
    BY <2>0, SameWakers
  <2>2. Exists(ep) /\ UNCHANGED <<fifo, wakeups>>
    BY <2>0 DEF Exists
  <2>3. CASE ep # e
    <3>1. Token(ep)' = Token(ep) /\ queue'[ep] = queue[ep]
      BY <1>5, <2>3, UnqueueEffect DEF Token
    <3> QED BY <2>1, <2>2, <3>1 DEF Agree
  <2>4. CASE ep = e
    <3>1. Token(ep) = 1 /\ Token(ep)' = 0
      BY <1>5, <2>4, UnqueueEffect DEF Token
    <3>2. queue[ep] # <<>>
      BY <2>2, <3>1, Emptied DEF Agree
    <3>3. Len(queue'[ep]) = Len(queue[ep]) - 1
      BY <1>5, <2>4, <3>2, UnqueueEffect, Taken
    <3>4. BytesOf(ep)' = BytesOf(ep) - 1
      BY <2>1, <2>2, <3>1
    <3>5. Agree(ep)
      BY <2>2
    <3> QED BY <3>3, <3>4, <3>5, BothFewer
  <2> QED BY <2>3, <2>4
<1>6. ASSUME NEW e \in Endpoints, TakeId(e)
      PROVE  Agree(ep)'
  <2>1. CASE SendFails(e)
    <3>1. pc' = [pc EXCEPT ![e] = IF e = Server THEN "loop" ELSE "finish"]
      BY <2>1, FailureType
    <3>2. Wakers(ep)' = Wakers(ep)
      BY <1>6, <3>1, TakeIdEffect, SameWakers
    <3>3. Token(ep)' = Token(ep) /\ Exists(ep) /\ UNCHANGED <<fifo, wakeups, queue>>
      BY <1>6, <2>1, <3>1, TakeIdEffect DEF Token, Exists
    <3> QED BY <3>2, <3>3 DEF Agree
  <2>2. CASE pc' = [pc EXCEPT ![e] = "queue"]
    <3>1. Wakers(ep)' = Wakers(ep)
      BY <1>6, <2>2, TakeIdEffect, SameWakers
    <3>2. Token(ep)' = Token(ep) /\ Exists(ep) /\ UNCHANGED <<fifo, wakeups, queue>>
      BY <1>6, <2>2, TakeIdEffect DEF Token, Exists
    <3> QED BY <3>1, <3>2 DEF Agree
  <2> QED BY <1>6, <2>1, <2>2, TakeIdEffect
<1>7. ASSUME NEW e \in Endpoints, Queue(e)
      PROVE  Agree(ep)'
  <2>1. CASE SendFails(e) /\ UNCHANGED queue
    <3>1. pc' = [pc EXCEPT ![e] = IF e = Server THEN "loop" ELSE "finish"]
      BY <2>1, FailureType
    <3>2. Wakers(ep)' = Wakers(ep)
      BY <1>7, <3>1, QueueEffect, SameWakers
    <3>3. Token(ep)' = Token(ep) /\ Exists(ep) /\ UNCHANGED <<fifo, wakeups, queue>>
      BY <1>7, <2>1, <3>1, QueueEffect DEF Token, Exists
    <3> QED BY <3>2, <3>3 DEF Agree
  <2>2. CASE /\ queue' = [queue EXCEPT ![Destination(e)] =
                            Append(queue[Destination(e)], Outgoing(e))]
             /\ pc' = [pc EXCEPT ![e] = "wake"]
    <3>1. pc[e] = "queue" /\ UNCHANGED <<current, fifo, wakeups>>
      BY <1>7, QueueEffect
    <3>2. Destination(e) \in Endpoints /\ Outgoing(e) \in Message
      BY <3>1, Sending
    <3>3. Token(ep)' = Token(ep) /\ Exists(ep)
      BY <2>2, <3>1 DEF Token, Exists
    <3>4. CASE ep = Destination(e)
      <4>1. Wakers(ep)' = Wakers(ep) \cup {e} /\ e \notin Wakers(ep)
        BY <2>2, <3>1, <3>4 DEF Wakers, Destination
      <4>2. Cardinality(Wakers(ep)') = Cardinality(Wakers(ep)) + 1
        BY <4>1, WakersAre, SendersCounted
      <4>3. Len(queue'[ep]) = Len(queue[ep]) + 1
        BY <2>2, <3>2, <3>4, Appended
      <4>4. fifo'[ep] = fifo[ep] /\ wakeups'[ep] = wakeups[ep]
        BY <3>1
      <4>5. BytesOf(ep)' = BytesOf(ep) + 1
        BY <3>1, <3>3, <4>2, BytesSum
      <4> QED BY <3>3, <4>3, <4>5 DEF Agree
    <3>5. CASE ep # Destination(e)
      <4>1. Wakers(ep)' = Wakers(ep)
        BY <2>2, <3>1, <3>5 DEF Wakers, Destination
      <4>2. queue'[ep] = queue[ep]
        BY <2>2, <3>2, <3>5
      <4> QED BY <3>1, <3>3, <4>1, <4>2 DEF Agree
    <3> QED BY <3>4, <3>5
  <2> QED BY <1>7, <2>1, <2>2, QueueEffect
<1>8. ASSUME NEW e \in Endpoints, Wakeup(e)
      PROVE  Agree(ep)'
  <2>1. /\ pc[e] = "wake" /\ pc' = [pc EXCEPT ![e] = "loop"]
        /\ wakeups' = [wakeups EXCEPT ![Destination(e)] = wakeups[Destination(e)] + 1]
        /\ UNCHANGED <<current, fifo, queue>>
    BY <1>8 DEF Wakeup
  <2>2. Destination(e) \in Endpoints
    BY <2>1, Sending
  <2>3. Token(ep)' = Token(ep) /\ Exists(ep)
    BY <2>1 DEF Token, Exists
  <2>4. CASE ep = Destination(e)
    <3>1. Wakers(ep)' = Wakers(ep) \ {e} /\ e \in Wakers(ep)
      BY <2>1, <2>4 DEF Wakers, Destination
    <3>2. Cardinality(Wakers(ep)') = Cardinality(Wakers(ep)) - 1
      BY <3>1, WakersAre, SendersCounted
    <3>3. wakeups'[ep] = wakeups[ep] + 1
      BY <2>1, <2>4
    <3>4. fifo'[ep] = fifo[ep] /\ queue'[ep] = queue[ep]
      BY <2>1
    <3>5. BytesOf(ep)' = BytesOf(ep)
      BY <2>3, <3>2, <3>3, <3>4
    <3> QED BY <2>3, <3>4, <3>5 DEF Agree
  <2>5. CASE ep # Destination(e)
    <3>1. Wakers(ep)' = Wakers(ep)
      BY <2>1, <2>5 DEF Wakers, Destination
    <3>2. wakeups'[ep] = wakeups[ep]
      BY <2>1, <2>2, <2>5
    <3> QED BY <2>1, <2>3, <3>1, <3>2 DEF Agree
  <2> QED BY <2>4, <2>5
<1>9. ASSUME NEW e \in Endpoints, DoWakeup(e)
      PROVE  Agree(ep)'
  <2>1. Wakers(ep)' = Wakers(ep) /\ Token(ep)' = Token(ep) /\ Exists(ep)
    BY <1>9, SameWakers DEF DoWakeup, Token, Exists
  <2>2. fifo'[ep] + wakeups'[ep] = fifo[ep] + wakeups[ep] /\ UNCHANGED queue
    BY <1>9, <2>1 DEF DoWakeup
  <2> QED BY <2>1, <2>2 DEF Agree
<1>10. ASSUME NEW e \in Clients, HandleReply(e)
      PROVE  Agree(ep)'
  <2>1. Wakers(ep)' = Wakers(ep)
    BY <1>10, SameWakers DEF HandleReply
  <2>2. Token(ep)' = Token(ep) /\ Exists(ep) /\ UNCHANGED <<fifo, wakeups, queue>>
    BY <1>10 DEF HandleReply, Token, Exists
  <2> QED BY <2>1, <2>2 DEF Agree
<1>11. ASSUME NEW e \in Clients, Unregister(e)
      PROVE  Agree(ep)'
  <2>1. Wakers(ep)' = Wakers(ep)
    BY <1>11, SameWakers DEF Unregister
  <2>2. Token(ep)' = Token(ep) /\ Exists(ep) /\ UNCHANGED <<fifo, wakeups, queue>>
    BY <1>11 DEF Unregister, Token, Exists
  <2> QED BY <2>1, <2>2 DEF Agree
<1>12. ASSUME NEW e \in Clients, Register(e)
      PROVE  Agree(ep)'
  <2>1. Wakers(ep)' = Wakers(ep)
    BY <1>12, SameWakers DEF Register
  <2>2. Token(ep)' = Token(ep) /\ Exists(ep) /\ UNCHANGED <<fifo, wakeups, queue>>
    BY <1>12 DEF Register, Token, Exists
  <2> QED BY <2>1, <2>2 DEF Agree
<1>13. ASSUME NEW e \in Clients, Timeout(e)
      PROVE  Agree(ep)'
  <2>1. Wakers(ep)' = Wakers(ep)
    BY <1>13, SameWakers DEF Timeout
  <2>2. Exists(ep) /\ UNCHANGED <<fifo, wakeups, queue>>
    BY <1>13 DEF Timeout, Exists
  <2>3. Token(ep)' = Token(ep) \/ (KillWindow /\ Token(ep)' <= Token(ep))
    BY <1>13 DEF Timeout, Token
  <2> QED BY <2>1, <2>2, <2>3 DEF Agree
<1>14. ASSUME NEW e \in Clients, Destroy(e)
      PROVE  Agree(ep)'
  <2>1. ep # e
    BY <1>14 DEF Destroy, Exists
  <2>2. Wakers(ep)' = Wakers(ep)
    BY <1>14, SameWakers DEF Destroy
  <2>3. /\ Token(ep)' = Token(ep) /\ Exists(ep)
        /\ fifo'[ep] = fifo[ep] /\ queue'[ep] = queue[ep] /\ UNCHANGED wakeups
    BY <1>14, <2>1 DEF Destroy, Token, Exists
  <2> QED BY <2>2, <2>3 DEF Agree
<1> QED
  BY <1>1, <1>2, <1>3, <1>4, <1>5, <1>6, <1>7, <1>8, <1>9, <1>10, <1>11, <1>12, <1>13, <1>14
     DEF Next, Receive, SendMessage, ClientCall

-----------------------------------------------------------------------------
(* Initially every queue is empty and no client has called. *)
LEMMA InitMomInv == Init => MomInv
<1> SUFFICES ASSUME Init
             PROVE  MomInv
  OBVIOUS
<1> USE EndpointsAre, MomAssumption DEF Init
<1>1. TypeOK
  BY EmptySeq DEF TypeOK, Label, Result, Exists
<1>2. \A e \in Endpoints : /\ queue[e] = <<>> /\ pc[e] \in {"loop", "idle"}
                            /\ fifo[e] = 0 /\ wakeups[e] = 0
  OBVIOUS
<1>3. Exchange /\ Once
  BY <1>2, Emptied DEF Exchange, Once, ServerLabel, Calling
<1>4. BytesAgree
  <2>1. \A ep \in Endpoints : Wakers(ep) = {} /\ Token(ep) = 0
    BY <1>2 DEF Wakers, Token
  <2>2. ASSUME NEW ep \in Endpoints
        PROVE  BytesOf(ep) = 0 /\ Len(queue[ep]) = 0
    <3>1. Cardinality(Wakers(ep)) = 0
      BY <2>1, FS_EmptySet
    <3> QED BY <1>1, <1>2, <2>1, <3>1, BytesTypes, Emptied
  <2> QED BY <2>2 DEF BytesAgree
<1>5. ReplyMatchesCall
  BY DEF ReplyMatchesCall
<1> QED BY <1>1, <1>3, <1>4, <1>5 DEF MomInv

(* MomInv holds in every reachable state. *)
THEOREM MomInvariance == Spec => []MomInv
<1>1. MomInv /\ [Next]_vars => MomInv'
  BY TypeStep, ExchangeStep, OnceStep, BytesStep, ReplyStep DEF MomInv
<1> QED BY <1>1, InitMomInv, PTL DEF Spec

(* Every variable keeps its type, and nothing is kept for an endpoint that *)
(* is gone.                                                                *)
THEOREM MomTypeCorrect == Spec => []TypeOK
BY MomInvariance, PTL DEF MomInv

(* A call that returns a reply returns its own. *)
THEOREM OwnReply == Spec => []ReplyMatchesCall
BY MomInvariance, PTL DEF MomInv

(* Every call is answered at most once, and not before it is made. *)
THEOREM AnsweredOnce == Spec => []OneReplyPerCall
<1>1. MomInv => OneReplyPerCall
  <2> SUFFICES ASSUME MomInv
               PROVE  OneReplyPerCall
    OBVIOUS
  <2>0. call \in [Clients -> 0..MaxRequests] /\ Exchange /\ Once
    BY DEF MomInv, TypeOK
  <2>1. ASSUME NEW c \in Clients
        PROVE  Distinct(queue[c])
    BY <2>0 DEF Once
  <2>2. ASSUME NEW c \in Clients, NEW i \in DOMAIN queue[c]
        PROVE  Reply(c, queue[c][i])
    BY <2>0 DEF Exchange, Messages
  <2>3. ASSUME NEW c \in Clients, NEW i \in DOMAIN queue[c]
        PROVE  /\ queue[c][i].body[1] = c
               /\ pc[c] \in {"idle", "send", "queue"} =>
                    queue[c][i].body[2] < call[c] + (IF pc[c] = "idle" THEN 1 ELSE 0)
    <3> DEFINE b == queue[c][i].body
    <3>1. b \in Clients \X Nat /\ b[1] = c /\ call[c] \in Nat
      BY <2>0, <2>2, MomAssumption DEF Reply, Message
    <3>2. b[2] <= call[c] /\ (pc[c] \in {"send", "queue"} => b[2] < call[c])
      BY <2>2, <3>1 DEF Reply, Known
    <3>3. b[2] \in Nat
      BY <3>1
    <3> HIDE DEF b
    <3>4. pc[c] \in {"idle", "send", "queue"} =>
            b[2] < call[c] + (IF pc[c] = "idle" THEN 1 ELSE 0)
      BY <3>1, <3>2, <3>3
    <3> QED BY <3>1, <3>4 DEF b
  <2> QED BY <2>1, <2>3 DEF OneReplyPerCall, Distinct
<1> QED BY <1>1, MomInvariance, PTL

(* If the timeout cannot strike after a byte was read, there is one byte   *)
(* for every message: none is stranded, and BEGIN never overtakes END.     *)
THEOREM BytesMatchMessages ==
  ASSUME KillWindow = FALSE
  PROVE  Spec => []OneBytePerMessage
<1>1. MomInv => OneBytePerMessage
  BY DEF MomInv, BytesAgree, OneBytePerMessage, BytesOf, Wakers
<1> QED BY <1>1, MomInvariance, PTL

==============================================================================
