----------------------------- MODULE ChannelSpec -----------------------------
(***************************************************************************)
(* What lib/std/channel.tk promises to its users, with no mutex, condition *)
(* variable or reference count: a FIFO buffer, the set of live Sender      *)
(* handles, whether the Receiver is alive, and the answer each thread got  *)
(* to its last call.  Every action is one linearization point.             *)
(* Channel implements this specification (property Implements there), and  *)
(* ForgeBuild is composed with two instances of it.                        *)
(***************************************************************************)
EXTENDS Integers, Sequences

CONSTANTS
    Producers,   \* threads that may own a Sender handle
    Consumers,   \* threads that share the one Receiver handle
    Messages,    \* the values sent
    Capacity     \* the bound of sync_channel, or -1 for channel()

VARIABLES
    buf,      \* messages accepted and not yet received, oldest first
    txs,      \* the producers that own a live Sender
    rx,       \* TRUE while the Receiver is alive
    parked,   \* senders that saw an open channel and wait for room
    reply     \* the last answer given to each thread

vars == <<buf, txs, rx, parked, reply>>

NoReply  == <<"none">>
Accepted == <<"ok">>        \* send returned Ok(())
Refused  == <<"closed">>    \* send returned Err("Send on closed channel")
Ended    == <<"end">>       \* recv returned Ok(None), try_recv Ok(Some(None))
NothingYet == <<"empty">>   \* try_recv returned Ok(None)
Got(m)   == <<"got", m>>    \* recv or try_recv returned a message

Replies == {NoReply, Accepted, Refused, Ended, NothingYet}
             \cup {Got(m) : m \in Messages}

closed == txs = {} \/ ~rx
room   == Capacity < 0 \/ Len(buf) < Capacity

SameHandles == txs' = txs /\ rx' = rx

Init ==
    /\ buf = <<>>
    /\ \E p \in Producers : txs = {p}
    /\ rx = TRUE
    /\ parked = {}
    /\ reply = [t \in Producers \cup Consumers |-> NoReply]

\* A message is accepted when there is room and the channel is open, or was
\* open when the sender parked: a parked sender does not look again.
Send(p, m) ==
    /\ p \in txs
    /\ closed => p \in parked
    /\ room
    /\ buf' = Append(buf, m)
    /\ parked' = parked \ {p}
    /\ reply' = [reply EXCEPT ![p] = Accepted]
    /\ SameHandles

Park(p) ==
    /\ p \in txs
    /\ ~closed /\ ~room
    /\ parked' = parked \cup {p}
    /\ SameHandles /\ UNCHANGED <<buf, reply>>

Refuse(p) ==
    /\ p \in txs
    /\ closed
    /\ p \in parked => ~room
    /\ parked' = parked \ {p}
    /\ reply' = [reply EXCEPT ![p] = Refused]
    /\ SameHandles /\ UNCHANGED buf

Recv(c) ==
    /\ rx
    /\ buf # <<>>
    /\ buf' = Tail(buf)
    /\ reply' = [reply EXCEPT ![c] = Got(Head(buf))]
    /\ SameHandles /\ UNCHANGED parked

\* End of stream is only reported when nothing is left and nobody can send.
RecvEnd(c) ==
    /\ rx
    /\ buf = <<>> /\ txs = {}
    /\ reply' = [reply EXCEPT ![c] = Ended]
    /\ SameHandles /\ UNCHANGED <<buf, parked>>

RecvNothing(c) ==
    /\ rx
    /\ buf = <<>> /\ txs # {}
    /\ reply' = [reply EXCEPT ![c] = NothingYet]
    /\ SameHandles /\ UNCHANGED <<buf, parked>>

CloneTx(p, q) ==
    /\ p \in txs /\ q \notin txs
    /\ txs' = txs \cup {q}
    /\ rx' = rx /\ UNCHANGED <<buf, parked, reply>>

DropTx(p) ==
    /\ p \in txs \ parked
    /\ txs' = txs \ {p}
    /\ rx' = rx /\ UNCHANGED <<buf, parked, reply>>

DropRx ==
    /\ rx
    /\ rx' = FALSE
    /\ UNCHANGED <<buf, txs, parked, reply>>

Next ==
    \/ \E p \in Producers :
        \/ \E m \in Messages : Send(p, m)
        \/ Park(p) \/ Refuse(p) \/ DropTx(p)
        \/ \E q \in Producers : CloneTx(p, q)
    \/ \E c \in Consumers : Recv(c) \/ RecvEnd(c) \/ RecvNothing(c)
    \/ DropRx

Spec == Init /\ [][Next]_vars
==============================================================================
