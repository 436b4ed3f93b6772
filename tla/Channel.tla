------------------------------- MODULE Channel -------------------------------
(***************************************************************************)
(* lib/std/channel.tk over lib/std/sync.tk: the MPSC channel as its        *)
(* threads execute it, one action per stretch of code between two points   *)
(* where another thread can intervene.  The state sits behind one mutex;   *)
(* receivers park on cond_not_empty, senders on cond_not_full.             *)
(*                                                                         *)
(* A thread's pc is                                                        *)
(*   idle     outside the channel                                          *)
(*   lock     calling Mutex::lock at the top of its operation              *)
(*   enter    holding the mutex, before its first test                     *)
(*   loop     holding the mutex, at the head of its wait loop              *)
(*   wait     inside CondVar::wait_cond (asleep while in a wait set, else   *)
(*            signalled and contending for the mutex)                      *)
(*   recheck  holding the mutex again, back at the head of its loop        *)
(*   unlock   holding the mutex with its answer computed, about to drop    *)
(*            the MutexLock                                                *)
(*                                                                         *)
(* A definition marked Faulty is no part of the model: it is the named bug *)
(* some property must notice when it takes the place of the one below it.  *)
(***************************************************************************)
EXTENDS Integers, Sequences, FiniteSets

CONSTANTS
    Producers,   \* threads that may own a Sender handle
    Consumers,   \* threads sharing the Receiver (Receiver::clone is deleted)
    NoThread,    \* "the mutex is free"
    Capacity,    \* WaitQueue.capacity: the bound, or -1 for channel()
    MaxSends     \* bound: calls of send by one producer

ASSUME ThreadsDisjoint ==
    /\ Producers \cap Consumers = {}
    /\ NoThread \notin Producers \cup Consumers
ASSUME ThreadsFinite == IsFiniteSet(Producers) /\ IsFiniteSet(Consumers)
ASSUME CapacityIsBound == Capacity \in Int /\ Capacity >= -1
ASSUME MaxSendsIsNat == MaxSends \in Nat

Threads  == Producers \cup Consumers
Messages == Producers \X (1..MaxSends)   \* the n-th value sent by p

VARIABLES
    mutex,      \* the thread holding AsyncChannel.state's mutex, or NoThread
    queue,      \* WaitQueue.queue
    closed,     \* WaitQueue.closed
    senders,    \* WaitQueue.senders
    receivers,  \* WaitQueue.receivers
    notEmpty,   \* threads asleep on cond_not_empty
    notFull,    \* threads asleep on cond_not_full
    pc,         \* where each thread is, see above
    op,         \* the operation each thread is in, or did last
    handle,     \* each producer's Sender: fresh, cloning, live or dropped
    sent,       \* number of send calls each producer made
    reply,      \* the answer to each thread's last call
    accepted,   \* history: messages pushed, in order
    delivered   \* history: messages popped, in order

state == <<queue, closed, senders, receivers>>
hist  == <<accepted, delivered>>
vars  == <<mutex, queue, closed, senders, receivers, notEmpty, notFull,
           pc, op, handle, sent, reply, accepted, delivered>>

NoReply  == <<"none">>
Accepted == <<"ok">>
Refused  == <<"closed">>
Ended    == <<"end">>
NothingYet == <<"empty">>
Got(m)   == <<"got", m>>
Replies  == {NoReply, Accepted, Refused, Ended, NothingYet}
              \cup {Got(m) : m \in Messages}

ProducerOps == {"send", "clone", "dropTx"}
ConsumerOps == {"recv", "tryRecv", "dropRx"}
PCs == {"idle", "lock", "enter", "loop", "wait", "recheck", "unlock"}

Owners == {p \in Producers : handle[p] = "live"}

Init ==
    /\ mutex = NoThread
    /\ queue = <<>>
    /\ closed = FALSE
    /\ senders = 1
    /\ receivers = 1
    /\ notEmpty = {}
    /\ notFull = {}
    /\ pc = [t \in Threads |-> "idle"]
    /\ op = [t \in Threads |-> IF t \in Producers THEN "send" ELSE "recv"]
    /\ \E p \in Producers :
         handle = [q \in Producers |-> IF q = p THEN "live" ELSE "fresh"]
    /\ sent = [p \in Producers |-> 0]
    /\ reply = [t \in Threads |-> NoReply]
    /\ accepted = <<>>
    /\ delivered = <<>>

------------------------------------------------------------------------------
(* Condition variables (pthread_cond_signal, broadcast, wait).             *)

\* notify_one wakes one sleeper if there is one; the signal is not stored.
Woken(ws, ws2) == IF ws = {} THEN ws2 = {} ELSE \E t \in ws : ws2 = ws \ {t}

\* Faulty: off by one.
FullTooLate == Capacity >= 0 /\ Len(queue) > Capacity

Full == Capacity >= 0 /\ Len(queue) >= Capacity

\* Faulty: takes the newest message.
PopNewest(c) ==
    /\ delivered' = Append(delivered, queue[Len(queue)])
    /\ reply' = [reply EXCEPT ![c] = Got(queue[Len(queue)])]
    /\ queue' = SubSeq(queue, 1, Len(queue) - 1)
    /\ IF Capacity >= 0 THEN Woken(notFull, notFull') ELSE UNCHANGED notFull
    /\ UNCHANGED <<closed, senders, receivers, notEmpty, accepted>>

\* Faulty: signals no sender.
PopSilently(c) ==
    /\ delivered' = Append(delivered, Head(queue))
    /\ reply' = [reply EXCEPT ![c] = Got(Head(queue))]
    /\ queue' = Tail(queue)
    /\ UNCHANGED <<closed, senders, receivers, notEmpty, notFull, accepted>>

\* pop_front and the notification of a sender, bounded channels only.
PopFront(c) ==
    /\ delivered' = Append(delivered, Head(queue))
    /\ reply' = [reply EXCEPT ![c] = Got(Head(queue))]
    /\ queue' = Tail(queue)
    /\ IF Capacity >= 0 THEN Woken(notFull, notFull') ELSE UNCHANGED notFull
    /\ UNCHANGED <<closed, senders, receivers, notEmpty, accepted>>

------------------------------------------------------------------------------
(* Calls: a client thread enters an operation.                             *)

Call(t, o) ==
    /\ pc[t] = "idle"
    /\ op' = [op EXCEPT ![t] = o]
    /\ pc' = [pc EXCEPT ![t] = "lock"]
    /\ UNCHANGED <<mutex, state, notEmpty, notFull, reply, hist>>

SendCall(p) ==
    /\ handle[p] = "live" /\ sent[p] < MaxSends
    /\ sent' = [sent EXCEPT ![p] = @ + 1]
    /\ Call(p, "send")
    /\ UNCHANGED handle

\* The clone is for a producer that never had a handle.
CloneCall(p) ==
    /\ handle[p] = "live"
    /\ \E q \in Producers :
         handle[q] = "fresh" /\ handle' = [handle EXCEPT ![q] = "cloning"]
    /\ Call(p, "clone")
    /\ UNCHANGED sent

DropTxCall(p) ==
    handle[p] = "live" /\ Call(p, "dropTx") /\ UNCHANGED <<handle, sent>>

\* The Receiver is being dropped, or is gone.
RxGone == receivers = 0 \/ \E c \in Consumers : op[c] = "dropRx"

\* A consumer that was told the stream ended stops, like the forge worker.
RecvCall(c) ==
    /\ ~RxGone /\ reply[c] # Ended
    /\ \E o \in {"recv", "tryRecv"} : Call(c, o)
    /\ UNCHANGED <<handle, sent>>

\* Dropping moves the Receiver, so no thread is using it.
DropRxCall(c) ==
    /\ ~RxGone
    /\ \A d \in Consumers : pc[d] = "idle"
    /\ Call(c, "dropRx")
    /\ UNCHANGED <<handle, sent>>

------------------------------------------------------------------------------
(* The mutex and the condition variables, from the threads' side.          *)

Lock(t) ==
    /\ pc[t] = "lock" /\ mutex = NoThread
    /\ mutex' = t
    /\ pc' = [pc EXCEPT ![t] = IF op[t] = "recv" THEN "loop" ELSE "enter"]
    /\ UNCHANGED <<state, notEmpty, notFull, op, handle, sent, reply, hist>>

\* wait_cond returns: the thread was signalled and has the mutex again.
Relock(t) ==
    /\ pc[t] = "wait" /\ t \notin notEmpty \cup notFull
    /\ mutex = NoThread
    /\ mutex' = t
    /\ pc' = [pc EXCEPT ![t] = "recheck"]
    /\ UNCHANGED <<state, notEmpty, notFull, op, handle, sent, reply, hist>>

\* POSIX lets a wait return with no signal.
SpuriousWakeup(t) ==
    /\ t \in notEmpty \cup notFull
    /\ notEmpty' = notEmpty \ {t}
    /\ notFull' = notFull \ {t}
    /\ UNCHANGED <<mutex, state, pc, op, handle, sent, reply, hist>>

\* The MutexLock goes out of scope and the operation returns.
Unlock(t) ==
    /\ pc[t] = "unlock"
    /\ mutex' = NoThread
    /\ pc' = [pc EXCEPT ![t] = "idle"]
    /\ UNCHANGED <<state, notEmpty, notFull, op, handle, sent, reply, hist>>

\* t holds the mutex inside operation o, at one of the program points at.
Holds(t, o, at) == op[t] = o /\ pc[t] \in at

Return(t) == pc' = [pc EXCEPT ![t] = "unlock"] /\ UNCHANGED <<mutex, op, sent>>

------------------------------------------------------------------------------
(* Sender::send                                                            *)

SendRefuse(p) ==
    /\ Holds(p, "send", {"enter", "loop", "recheck"})
    /\ closed
    /\ pc[p] \in {"loop", "recheck"} => Full
    /\ reply' = [reply EXCEPT ![p] = Refused]
    /\ Return(p)
    /\ UNCHANGED <<state, notEmpty, notFull, handle, hist>>

\* Faulty: does not test closed.
SendEnterUnchecked(p) ==
    /\ Holds(p, "send", {"enter"})
    /\ pc' = [pc EXCEPT ![p] = "loop"]
    /\ UNCHANGED <<mutex, state, notEmpty, notFull, op, handle, sent, reply,
                   hist>>

SendEnter(p) ==
    /\ Holds(p, "send", {"enter"})
    /\ ~closed
    /\ pc' = [pc EXCEPT ![p] = "loop"]
    /\ UNCHANGED <<mutex, state, notEmpty, notFull, op, handle, sent, reply,
                   hist>>

SendWait(p) ==
    /\ Holds(p, "send", {"loop", "recheck"})
    /\ Full /\ ~closed
    /\ notFull' = notFull \cup {p}
    /\ mutex' = NoThread
    /\ pc' = [pc EXCEPT ![p] = "wait"]
    /\ UNCHANGED <<state, notEmpty, op, handle, sent, reply, hist>>

\* Faulty: signals no receiver.
SendPushSilently(p) ==
    /\ Holds(p, "send", {"loop", "recheck"})
    /\ ~Full
    /\ queue' = Append(queue, <<p, sent[p]>>)
    /\ accepted' = Append(accepted, <<p, sent[p]>>)
    /\ reply' = [reply EXCEPT ![p] = Accepted]
    /\ Return(p)
    /\ UNCHANGED <<closed, senders, receivers, notEmpty, notFull, handle,
                   delivered>>

SendPush(p) ==
    /\ Holds(p, "send", {"loop", "recheck"})
    /\ ~Full
    /\ queue' = Append(queue, <<p, sent[p]>>)
    /\ accepted' = Append(accepted, <<p, sent[p]>>)
    /\ Woken(notEmpty, notEmpty')
    /\ reply' = [reply EXCEPT ![p] = Accepted]
    /\ Return(p)
    /\ UNCHANGED <<closed, senders, receivers, notFull, handle, delivered>>

------------------------------------------------------------------------------
(* Receiver::recv and Receiver::try_recv                                   *)

\* Faulty: waits on the senders' condition variable.
RecvWaitNotFull(c) ==
    /\ Holds(c, "recv", {"loop", "recheck"})
    /\ queue = <<>> /\ ~closed
    /\ notFull' = notFull \cup {c}
    /\ mutex' = NoThread
    /\ pc' = [pc EXCEPT ![c] = "wait"]
    /\ UNCHANGED <<state, notEmpty, op, handle, sent, reply, hist>>

RecvWait(c) ==
    /\ Holds(c, "recv", {"loop", "recheck"})
    /\ queue = <<>> /\ ~closed
    /\ notEmpty' = notEmpty \cup {c}
    /\ mutex' = NoThread
    /\ pc' = [pc EXCEPT ![c] = "wait"]
    /\ UNCHANGED <<state, notFull, op, handle, sent, reply, hist>>

\* Faulty: tests closed before the queue.
RecvEndEagerly(c) ==
    /\ \/ Holds(c, "recv", {"loop", "recheck"})
       \/ Holds(c, "tryRecv", {"enter"})
    /\ closed
    /\ reply' = [reply EXCEPT ![c] = Ended]
    /\ Return(c)
    /\ UNCHANGED <<state, notEmpty, notFull, handle, hist>>

RecvEnd(c) ==
    /\ \/ Holds(c, "recv", {"loop", "recheck"})
       \/ Holds(c, "tryRecv", {"enter"})
    /\ queue = <<>> /\ closed
    /\ reply' = [reply EXCEPT ![c] = Ended]
    /\ Return(c)
    /\ UNCHANGED <<state, notEmpty, notFull, handle, hist>>

RecvPop(c) ==
    /\ \/ Holds(c, "recv", {"loop", "recheck"})
       \/ Holds(c, "tryRecv", {"enter"})
    /\ queue # <<>>
    /\ PopFront(c)
    /\ Return(c)
    /\ UNCHANGED handle

TryRecvNothing(c) ==
    /\ Holds(c, "tryRecv", {"enter"})
    /\ queue = <<>> /\ ~closed
    /\ reply' = [reply EXCEPT ![c] = NothingYet]
    /\ Return(c)
    /\ UNCHANGED <<state, notEmpty, notFull, handle, hist>>

------------------------------------------------------------------------------
(* Handles: Sender::clone, Sender::drop, Receiver::drop                    *)

CloneTx(p) ==
    /\ Holds(p, "clone", {"enter"})
    /\ senders' = senders + 1
    /\ \E q \in Producers :
         handle[q] = "cloning" /\ handle' = [handle EXCEPT ![q] = "live"]
    /\ Return(p)
    /\ UNCHANGED <<queue, closed, receivers, notEmpty, notFull, reply, hist>>

\* Faulty: notify_one where notify_all is needed.
DropTxNotifyOne(p) ==
    /\ Holds(p, "dropTx", {"enter"})
    /\ senders' = senders - 1
    /\ handle' = [handle EXCEPT ![p] = "dropped"]
    /\ IF senders' = 0
         THEN closed' = TRUE /\ Woken(notEmpty, notEmpty')
         ELSE UNCHANGED <<closed, notEmpty>>
    /\ Return(p)
    /\ UNCHANGED <<queue, receivers, notFull, reply, hist>>

DropTx(p) ==
    /\ Holds(p, "dropTx", {"enter"})
    /\ senders' = senders - 1
    /\ handle' = [handle EXCEPT ![p] = "dropped"]
    /\ IF senders' = 0
         THEN closed' = TRUE /\ notEmpty' = {}
         ELSE UNCHANGED <<closed, notEmpty>>
    /\ Return(p)
    /\ UNCHANGED <<queue, receivers, notFull, reply, hist>>

DropRx(c) ==
    /\ Holds(c, "dropRx", {"enter"})
    /\ receivers' = receivers - 1
    /\ IF receivers' = 0
         THEN closed' = TRUE /\ notFull' = {}
         ELSE UNCHANGED <<closed, notFull>>
    /\ Return(c)
    /\ UNCHANGED <<queue, senders, notEmpty, handle, reply, hist>>

------------------------------------------------------------------------------
\* The steps a thread takes by itself once it has entered an operation.
Run(t) ==
    \/ Lock(t) \/ Relock(t) \/ Unlock(t)
    \/ SendRefuse(t) \/ SendEnter(t) \/ SendWait(t) \/ SendPush(t)
    \/ RecvWait(t) \/ RecvEnd(t) \/ RecvPop(t) \/ TryRecvNothing(t)
    \/ CloneTx(t) \/ DropTx(t) \/ DropRx(t)

\* Every handle is gone and nobody is inside: the channel is freed.
Freed ==
    /\ senders = 0 /\ receivers = 0
    /\ \A t \in Threads : pc[t] = "idle"
    /\ UNCHANGED vars

Next ==
    \/ \E p \in Producers : SendCall(p) \/ CloneCall(p) \/ DropTxCall(p)
    \/ \E c \in Consumers : RecvCall(c) \/ DropRxCall(c)
    \/ \E t \in Threads : Run(t) \/ SpuriousWakeup(t)
    \/ Freed

Spec == Init /\ [][Next]_vars

\* The operating system schedules every thread; nobody has to make a call.
FairSpec == Spec /\ \A t \in Threads : WF_vars(Run(t))

------------------------------------------------------------------------------
TypeOK ==
    /\ mutex \in Threads \cup {NoThread}
    /\ queue \in Seq(Messages)
    /\ closed \in BOOLEAN
    /\ senders \in Int /\ receivers \in Int
    /\ notEmpty \subseteq Consumers
    /\ notFull \subseteq Producers
    /\ pc \in [Threads -> PCs]
    /\ op \in [Threads -> ProducerOps \cup ConsumerOps]
    /\ \A p \in Producers : op[p] \in ProducerOps
    /\ \A c \in Consumers : op[c] \in ConsumerOps
    /\ handle \in [Producers -> {"fresh", "cloning", "live", "dropped"}]
    /\ sent \in [Producers -> 0..MaxSends]
    /\ reply \in [Threads -> Replies]
    /\ accepted \in Seq(Messages)
    /\ delivered \in Seq(Messages)

\* What was accepted is, in that order, what was delivered followed by what
\* is still queued: send and recv lose, duplicate and reorder nothing.
FifoNoLoss == accepted = delivered \o queue

\* A bounded channel never holds more than its bound, whatever the order in
\* which woken and new senders get the mutex (the loop in send re-tests).
CapacityRespected == Capacity >= 0 => Len(queue) <= Capacity

\* Threads woken inside operation o that have not tested their condition yet.
OnTheirWay(o, ws) ==
    {t \in Threads : op[t] = o /\ pc[t] \in {"wait", "recheck"}} \ ws

\* No lost wakeup of a receiver: while one sleeps in recv the channel is open
\* and every queued message has a receiver already on its way to take it.
NoStrandedReceiver ==
    notEmpty # {} =>
        ~closed /\ Len(queue) <= Cardinality(OnTheirWay("recv", notEmpty))

\* No lost wakeup of a sender: while one sleeps in send the channel is open
\* and every free place has a sender already on its way to fill it.
NoStrandedSender ==
    notFull # {} =>
        ~closed /\
        Capacity - Len(queue) <= Cardinality(OnTheirWay("send", notFull))

\* A receiver that was told the stream ended missed nothing and never will:
\* all that was accepted was delivered and no Sender is left.
EndOfStreamIsComplete ==
    (\E c \in Consumers : reply[c] = Ended)
        => delivered = accepted /\ Owners = {}

\* The detailed channel keeps the promises of ChannelSpec.
Parked == {p \in Producers : op[p] = "send" /\ pc[p] \in {"wait", "recheck"}}
Abstract == INSTANCE ChannelSpec WITH
    buf <- queue, txs <- Owners, rx <- receivers # 0, parked <- Parked
Implements == Abstract!Spec

\* Closing releases everybody: once one side is gone, every thread inside an
\* operation gets out of it (notify_all in both drops).
CloseReleasesEveryone ==
    \A t \in Threads : (closed /\ pc[t] # "idle") ~> (pc[t] = "idle")

\* What the error text "Send on closed channel" says: nothing is accepted
\* once the channel is closed.
NothingAcceptedAfterClose == [][closed => accepted' = accepted]_vars
==============================================================================
