-------------------------------- MODULE Mom --------------------------------
(***************************************************************************)
(* The message-oriented middleware, usr/share/mom/core: endpoints with a   *)
(* message queue in files and a FIFO that wakes the receiver up, and the   *)
(* request/reply exchange built on top of them.                            *)
(*                                                                         *)
(* A sender appends a message to the queue under the endpoint's interface  *)
(* lock and then forks a process that writes one byte into the FIFO.  The  *)
(* receiver forks a process that reads one byte, and for each byte takes   *)
(* one message out of the queue.  Nothing but the counting of bytes ties   *)
(* the FIFO to the queue.                                                  *)
(*                                                                         *)
(* Every command sequence under an interface lock (or under the lock of    *)
(* the message counter) is one action, which SyncLock justifies; all else  *)
(* interleaves.  A server runs mom_run_message_loop for ever and answers   *)
(* requests; clients call mom_unicast_message_and_receive_reply.  pc[e]:   *)
(*   idle                 a client between calls                           *)
(*   send                 mom_unicast_message is called                    *)
(*   queue                message id taken, mom_queue_message is called    *)
(*   wake                 message queued, mom_wakeup not yet called        *)
(*   loop                 the test of mom_run_message_loop                 *)
(*   wait                 mom_wait, its child blocked in read              *)
(*   token                the child has read a byte and not yet exited     *)
(*   unqueue              mom_wait has returned                            *)
(*   handle               a message is taken out, its handler is called    *)
(*   finish               the loop has ended, handler to be unregistered   *)
(*   gone                 endpoint destroyed                               *)
(***************************************************************************)
EXTENDS Naturals, Sequences, FiniteSets

CONSTANTS Server,       \* the endpoint that answers requests, e.g. circd
          Clients,      \* endpoints of the processes that send requests
          Patient,      \* the clients that call without a timeout
          KillWindow,   \* may the timeout strike after the byte was read?
          MaxRequests   \* bound: calls per client

ASSUME MomAssumption == /\ Server \notin Clients
                        /\ IsFiniteSet(Clients)
                        /\ Patient \subseteq Clients
                        /\ KillWindow \in BOOLEAN
                        /\ MaxRequests \in Nat

VARIABLES next_id,    \* the file next_message_id
          interface,  \* interface[e]: message types e accepts
          queue,      \* queue[e]: the files queue.BEGIN .. queue.(END-1)
          fifo,       \* fifo[e]: bytes in the FIFO
          wakeups,    \* wakeups[e]: forked mom_do_wakeup not yet done
          pc,
          id,         \* id[e]: the id of the message e sent last
          current,    \* current[e]: the message being handled
          call,       \* call[c]: how many requests c has made
          result      \* result[c]: what the last call returned

vars == <<next_id, interface, queue, fifo, wakeups, pc, id, current, call, result>>

Endpoints == Clients \cup {Server}

(* for: reply_message_for.  body: which call of which client the message   *)
(* is about; the code has no such field, the properties need it.           *)
Message == [type : {"request", "reply"}, sender : Endpoints, id : Nat,
            for : Nat, body : Clients \X Nat]

NoMessage == [type |-> "none"]

Label == {"idle", "send", "queue", "wake", "loop", "wait", "token", "unqueue",
          "handle", "finish", "gone"}

Result == [status : {"none", "reply", "timeout", "error"}, body : Clients \X Nat]

Exists(e) == pc[e] # "gone"

(* The types, and that nothing is kept for an endpoint that is gone.       *)
TypeOK == /\ next_id \in Nat
          /\ interface \in [Endpoints -> SUBSET {"request", "reply"}]
          /\ queue \in [Endpoints -> Seq(Message)]
          /\ fifo \in [Endpoints -> Nat]
          /\ wakeups \in [Endpoints -> Nat]
          /\ pc \in [Endpoints -> Label]
          /\ id \in [Endpoints -> Nat]
          /\ current \in [Endpoints -> Message \cup {NoMessage}]
          /\ call \in [Clients -> 0..MaxRequests]
          /\ result \in [Clients -> Result]
          /\ \A e \in Endpoints :
               Exists(e) \/ (queue[e] = <<>> /\ interface[e] = {} /\ fifo[e] = 0)

(* The server has created its endpoint and registered its handler; each    *)
(* client has an empty endpoint.                                           *)
Init == /\ next_id = 0
        /\ interface = [e \in Endpoints |-> IF e = Server THEN {"request"} ELSE {}]
        /\ queue = [e \in Endpoints |-> <<>>]
        /\ fifo = [e \in Endpoints |-> 0]
        /\ wakeups = [e \in Endpoints |-> 0]
        /\ pc = [e \in Endpoints |-> IF e = Server THEN "loop" ELSE "idle"]
        /\ id = [e \in Endpoints |-> 0]
        /\ current = [e \in Endpoints |-> NoMessage]
        /\ call = [c \in Clients |-> 0]
        /\ result = [c \in Clients |-> [status |-> "none", body |-> <<c, 0>>]]

Goto(e, l) == pc' = [pc EXCEPT ![e] = l]

Return(c, status, body) == result' = [result EXCEPT ![c] = [status |-> status, body |-> body]]

-----------------------------------------------------------------------------
(* mom_get_next_message_id, mom_queue_message *)

(* Faulty variant, for validating the properties: the counter is not       *)
(* written back.                                                           *)
FaultyNextMessageId(i) == i

NextMessageId(i) == i + 1

(* Faulty variant: the list in the interface file is looked at, but a      *)
(* missing file is not noticed.                                            *)
FaultyAccepts(e, type) == Exists(e) => type \in interface[e]

(* The endpoint's interface file exists and lists the message's type. *)
Accepts(e, type) == Exists(e) /\ type \in interface[e]

(* A client sends requests to the server, the server answers the sender of *)
(* the request it is handling.                                             *)
Destination(e) == IF e = Server THEN current[e].sender ELSE Server

Outgoing(e) ==
  IF e = Server
  THEN [type |-> "reply", sender |-> e, id |-> id[e],
        for |-> current[e].id, body |-> current[e].body]
  ELSE [type |-> "request", sender |-> e, id |-> id[e],
        for |-> 0, body |-> <<e, call[e]>>]

(* The call of mom_unicast_message fails.  The server's handler ignores    *)
(* that; a client gives up.                                                *)
SendFails(e) ==
  IF e = Server
  THEN Goto(e, "loop") /\ UNCHANGED result
  ELSE Goto(e, "finish") /\ Return(e, "error", <<e, 0>>)

(* mom_unicast_message looks for the endpoint's directory and takes a      *)
(* message id.                                                             *)
TakeId(e) ==
  /\ pc[e] = "send"
  /\ IF Exists(Destination(e))
     THEN /\ id' = [id EXCEPT ![e] = next_id]
          /\ next_id' = NextMessageId(next_id)
          /\ Goto(e, "queue")
          /\ UNCHANGED result
     ELSE SendFails(e) /\ UNCHANGED <<id, next_id>>
  /\ UNCHANGED <<interface, queue, fifo, wakeups, current, call>>

(* mom_queue_message, up to the unlocking of the interface.  By now the    *)
(* endpoint may be gone, or no longer be interested.                       *)
Queue(e) ==
  /\ pc[e] = "queue"
  /\ LET ep == Destination(e)
         m == Outgoing(e)
     IN  IF Accepts(ep, m.type)
         THEN /\ queue' = [queue EXCEPT ![ep] = Append(@, m)]
              /\ Goto(e, "wake")
              /\ UNCHANGED result
         ELSE SendFails(e) /\ UNCHANGED queue
  /\ UNCHANGED <<next_id, interface, fifo, wakeups, id, current, call>>

(* mom_wakeup forks mom_do_wakeup and returns. *)
Wakeup(e) ==
  /\ pc[e] = "wake"
  /\ wakeups' = [wakeups EXCEPT ![Destination(e)] = @ + 1]
  /\ Goto(e, "loop")
  /\ UNCHANGED <<next_id, interface, queue, fifo, id, current, call, result>>

(* mom_do_wakeup writes its byte, or dies because there is no FIFO.  Its   *)
(* own timer, which kills it if that takes mom_wakeup_timeout (30) seconds *)
(* and so loses the byte, is left out: the FIFO is opened for reading and  *)
(* writing, which does not block, and the write only would if there were   *)
(* 64 KB of bytes nobody has read.                                         *)
DoWakeup(ep) ==
  /\ wakeups[ep] > 0
  /\ wakeups' = [wakeups EXCEPT ![ep] = @ - 1]
  /\ fifo' = [fifo EXCEPT ![ep] = IF Exists(ep) THEN @ + 1 ELSE 0]
  /\ UNCHANGED <<next_id, interface, queue, pc, id, current, call, result>>

-----------------------------------------------------------------------------
(* mom_run_message_loop, mom_unqueue_message_and_call_handler, mom_wait *)

(* The loop goes on as long as no handler has set mom_quit. *)
Loop(e) ==
  /\ pc[e] = "loop"
  /\ Goto(e, "wait")
  /\ UNCHANGED <<next_id, interface, queue, fifo, wakeups, id, current, call, result>>

(* The child of mom_wait reads a byte ... *)
ReadByte(e) ==
  /\ pc[e] = "wait"
  /\ fifo[e] > 0
  /\ fifo' = [fifo EXCEPT ![e] = @ - 1]
  /\ Goto(e, "token")
  /\ UNCHANGED <<next_id, interface, queue, wakeups, id, current, call, result>>

(* ... and exits. *)
WaitReturns(e) ==
  /\ pc[e] = "token"
  /\ Goto(e, "unqueue")
  /\ UNCHANGED <<next_id, interface, queue, fifo, wakeups, id, current, call, result>>

(* mom_run_message_loop finds its time used up: at its test, or because    *)
(* the timer of mom_do_wait has killed the child with SIGKILL, so that     *)
(* mom_wait fails.  It takes a kill between the read and the cancelling of *)
(* the timer to lose a byte.                                               *)
Timeout(c) ==
  /\ c \in Clients \ Patient
  /\ pc[c] \in {"loop", "wait"} \/ (KillWindow /\ pc[c] = "token")
  /\ Return(c, "timeout", <<c, 0>>)
  /\ Goto(c, "finish")
  /\ UNCHANGED <<next_id, interface, queue, fifo, wakeups, id, current, call>>

(* Faulty variants: all waiting messages are taken, but for one byte; the  *)
(* message that was read is not removed.                                   *)
FaultyRemaining(q) == <<>>
FaultyKeep(q) == q

Remaining(q) == IF q = <<>> THEN <<>> ELSE Tail(q)

(* Under the interface lock: read the file queue.BEGIN, remove it, advance *)
(* BEGIN.  Without such a file there is no message type and no handler     *)
(* (and BEGIN overtakes END; OneBytePerMessage says it does not happen).   *)
Unqueue(e) ==
  /\ pc[e] = "unqueue"
  /\ queue' = [queue EXCEPT ![e] = Remaining(@)]
  /\ IF queue[e] = <<>>
     THEN Goto(e, "loop") /\ UNCHANGED current
     ELSE /\ current' = [current EXCEPT ![e] = Head(queue[e])]
          /\ Goto(e, IF e = Server THEN "send" ELSE "handle")
  /\ UNCHANGED <<next_id, interface, fifo, wakeups, id, call, result>>

-----------------------------------------------------------------------------
(* mom_unicast_message_and_receive_reply *)

(* The reply handler is registered before the request is sent. *)
Register(c) ==
  /\ pc[c] = "idle"
  /\ call[c] < MaxRequests
  /\ interface' = [interface EXCEPT ![c] = @ \cup {"reply"}]
  /\ call' = [call EXCEPT ![c] = @ + 1]
  /\ Return(c, "none", <<c, 0>>)
  /\ Goto(c, "send")
  /\ UNCHANGED <<next_id, queue, fifo, wakeups, id, current>>

(* Faulty variants: any reply will do; the reply's own id is looked at.    *)
FaultyIsMyReply(c, m) == TRUE
FaultyReplyId(c, m) == m.id = id[c]

(* mom_unicast_message_handle_reply *)
IsMyReply(c, m) == m.for = id[c]

HandleReply(c) ==
  /\ c \in Clients
  /\ pc[c] = "handle"
  /\ IF IsMyReply(c, current[c])
     THEN /\ Return(c, "reply", current[c].body)
          /\ Goto(c, "finish")
     ELSE Goto(c, "loop") /\ UNCHANGED result
  /\ UNCHANGED <<next_id, interface, queue, fifo, wakeups, id, current, call>>

Unregister(c) ==
  /\ c \in Clients
  /\ pc[c] = "finish"
  /\ interface' = [interface EXCEPT ![c] = @ \ {"reply"}]
  /\ current' = [current EXCEPT ![c] = NoMessage]
  /\ Goto(c, "idle")
  /\ UNCHANGED <<next_id, queue, fifo, wakeups, id, call, result>>

(* The process ends and mom_destroy_endpoint removes the directory. *)
Destroy(c) ==
  /\ c \in Clients
  /\ pc[c] = "idle"
  /\ queue' = [queue EXCEPT ![c] = <<>>]
  /\ fifo' = [fifo EXCEPT ![c] = 0]
  /\ interface' = [interface EXCEPT ![c] = {}]
  /\ Goto(c, "gone")
  /\ UNCHANGED <<next_id, wakeups, id, current, call, result>>

-----------------------------------------------------------------------------

Receive(e) == \/ Loop(e) \/ ReadByte(e) \/ WaitReturns(e) \/ Unqueue(e)

SendMessage(e) == TakeId(e) \/ Queue(e) \/ Wakeup(e)

ClientCall(c) == HandleReply(c) \/ Unregister(c)

Next == \/ \E e \in Endpoints : Receive(e) \/ SendMessage(e) \/ DoWakeup(e)
        \/ \E c \in Clients :
             ClientCall(c) \/ Register(c) \/ Timeout(c) \/ Destroy(c)

Spec == Init /\ [][Next]_vars

(* The kernel schedules every process; sleep ends, so a call with a        *)
(* timeout does not wait for ever.  A script need not call or exit.        *)
FairSpec == /\ Spec
            /\ \A e \in Endpoints :
                 /\ WF_vars(Receive(e) \/ SendMessage(e))
                 /\ WF_vars(DoWakeup(e))
            /\ \A c \in Clients : WF_vars(ClientCall(c)) /\ WF_vars(Timeout(c))

-----------------------------------------------------------------------------

(* What still is to become of a message in the queue of ep: a byte in the  *)
(* FIFO, a process that will write it, a process that will fork that one,  *)
(* or a byte already read.                                                 *)
Pending(ep) ==
  /\ Exists(ep)
  /\ \/ fifo[ep] > 0 \/ wakeups[ep] > 0
     \/ pc[ep] \in {"token", "unqueue"}
     \/ \E e \in Endpoints : pc[e] = "wake" /\ Destination(e) = ep

(* One byte, somewhere on its way, for every queued message of a live      *)
(* endpoint: never less, or a message would be stuck, and never more, or   *)
(* BEGIN would overtake END and every later message would be missed.       *)
OneBytePerMessage ==
  \A ep \in Endpoints : Exists(ep) =>
    Len(queue[ep]) =
      fifo[ep] + wakeups[ep]
        + (IF pc[ep] \in {"token", "unqueue"} THEN 1 ELSE 0)
        + Cardinality({e \in Endpoints : pc[e] = "wake" /\ Destination(e) = ep})

(* No message stays in a queue without anything left that will wake its    *)
(* receiver.  The comment in mom_do_wait sees this coming ("we effectively *)
(* lose a message, which makes the event handling hang") and ignores all   *)
(* signals but SIGKILL, which is the one its own timer sends.              *)
NoMessageStranded ==
  \A ep \in Endpoints : Exists(ep) /\ queue[ep] # <<>> => Pending(ep)

(* A call that returns a reply returns the reply to that very call: not a  *)
(* late reply to an earlier call that had timed out, nor somebody else's.  *)
ReplyMatchesCall ==
  \A c \in Clients :
    result[c].status = "reply" => result[c].body = <<c, call[c]>>

(* The replies waiting for a client are replies to its own calls, each at  *)
(* most once, and none for the call it is about to make.                   *)
OneReplyPerCall ==
  \A c \in Clients :
    /\ \A i, j \in DOMAIN queue[c] : queue[c][i].body = queue[c][j].body => i = j
    /\ \A i \in DOMAIN queue[c] :
         /\ queue[c][i].body[1] = c
         /\ pc[c] \in {"idle", "send", "queue"} => queue[c][i].body[2] < call[c] + (IF pc[c] = "idle" THEN 1 ELSE 0)

(* Every call ends: without a timeout because the reply arrives, with a    *)
(* timeout in any case.                                                    *)
CallsEnd == \A c \in Clients : pc[c] = "send" ~> pc[c] = "idle"

(* A patient caller gets its reply. *)
PatientAnswered ==
  \A c \in Patient : pc[c] = "send" ~> result[c].status = "reply"

=============================================================================
