---------------------------- MODULE ChannelProofs ----------------------------
(***************************************************************************)
(* Theorems about Channel, for any sets of threads, any capacity and any   *)
(* number of sends.                                                        *)
(***************************************************************************)
EXTENDS Channel, TLAPS, SequenceTheorems, FiniteSetTheorems

USE DEF Threads, ProducerOps, ConsumerOps

------------------------------------------------------------------------------
(* Types                                                                   *)

\* A send in progress was counted, so its message is one of Messages.
SendCounted ==
    \A p \in Producers :
        op[p] = "send" /\ pc[p] # "idle" => sent[p] \in 1..MaxSends

TypeInv == TypeOK /\ SendCounted

\* The types of what each thread owns, for the proofs below.
ThreadsTyped ==
    /\ pc \in [Threads -> PCs]
    /\ op \in [Threads -> ProducerOps \cup ConsumerOps]
    /\ \A p \in Producers : op[p] \in ProducerOps
    /\ \A c \in Consumers : op[c] \in ConsumerOps
    /\ handle \in [Producers -> {"fresh", "cloning", "live", "dropped"}]
    /\ reply \in [Threads -> Replies]
    /\ notEmpty \subseteq Consumers /\ notFull \subseteq Producers
    /\ senders \in Int /\ receivers \in Int

LEMMA ThreadTypes ==
    ASSUME TypeInv PROVE ThreadsTyped
BY DEF TypeInv, TypeOK, ThreadsTyped

LEMMA MessageSent ==
    ASSUME TypeInv, NEW p \in Threads, Holds(p, "send", {"loop", "recheck"})
    PROVE  p \in Producers /\ <<p, sent[p]>> \in Messages
BY ThreadsDisjoint DEF TypeInv, TypeOK, SendCounted, Holds, Messages

LEMMA WokenSubset ==
    ASSUME NEW ws, NEW ws2, Woken(ws, ws2)
    PROVE  ws2 \subseteq ws
BY DEF Woken

LEMMA QueueHeadTail ==
    ASSUME TypeOK, queue # <<>>
    PROVE  Head(queue) \in Messages /\ Tail(queue) \in Seq(Messages)
BY HeadTailProperties DEF TypeOK

LEMMA InitTypeInv == Init => TypeInv
<1>. SUFFICES ASSUME Init PROVE TypeInv
  OBVIOUS
<1>. USE DEF Init
<1>1. TypeOK
  <2>1. <<>> \in Seq(Messages)
    OBVIOUS
  <2>2. /\ handle \in [Producers -> {"fresh", "cloning", "live", "dropped"}]
        /\ reply \in [Threads -> Replies]
    BY DEF Replies
  <2>3. /\ pc \in [Threads -> PCs]
        /\ op \in [Threads -> ProducerOps \cup ConsumerOps]
        /\ \A p \in Producers : op[p] \in ProducerOps
        /\ \A c \in Consumers : op[c] \in ConsumerOps
    BY ThreadsDisjoint DEF PCs
  <2>4. sent \in [Producers -> 0..MaxSends]
    BY MaxSendsIsNat
  <2>5. /\ mutex \in Threads \cup {NoThread}
        /\ senders \in Int /\ receivers \in Int
        /\ notEmpty \subseteq Consumers /\ notFull \subseteq Producers
        /\ queue = <<>> /\ accepted = <<>> /\ delivered = <<>>
    OBVIOUS
  <2>6. closed \in BOOLEAN
    BY Zenon
  <2>. QED
    BY ONLY <2>1, <2>2, <2>3, <2>4, <2>5, <2>6 DEF TypeOK
<1>2. SendCounted
  BY DEF SendCounted
<1>. QED  BY <1>1, <1>2 DEF TypeInv

LEMMA NextTypeInv == TypeInv /\ [Next]_vars => TypeInv'
<1>. SUFFICES ASSUME TypeInv, [Next]_vars PROVE TypeInv'
  OBVIOUS
<1>. USE ThreadsDisjoint, MaxSendsIsNat
     DEF TypeInv, TypeOK, SendCounted, PCs, state, hist
<1>1. ASSUME NEW p \in Producers, SendCall(p) PROVE TypeInv'
  BY <1>1 DEF SendCall, Call
<1>2. ASSUME NEW p \in Producers, CloneCall(p) PROVE TypeInv'
  BY <1>2 DEF CloneCall, Call
<1>3. ASSUME NEW p \in Producers, DropTxCall(p) PROVE TypeInv'
  BY <1>3 DEF DropTxCall, Call
<1>4. ASSUME NEW c \in Consumers, RecvCall(c) PROVE TypeInv'
  BY <1>4 DEF RecvCall, Call
<1>5. ASSUME NEW c \in Consumers, DropRxCall(c) PROVE TypeInv'
  BY <1>5 DEF DropRxCall, Call
<1>6. ASSUME NEW t \in Threads, Lock(t) PROVE TypeInv'
  BY <1>6 DEF Lock
<1>7. ASSUME NEW t \in Threads, Relock(t) PROVE TypeInv'
  BY <1>7 DEF Relock
<1>8. ASSUME NEW t \in Threads, Unlock(t) PROVE TypeInv'
  BY <1>8 DEF Unlock
<1>9. ASSUME NEW t \in Threads, SpuriousWakeup(t) PROVE TypeInv'
  BY <1>9 DEF SpuriousWakeup
<1>10. ASSUME NEW t \in Threads, SendRefuse(t) PROVE TypeInv'
  BY <1>10 DEF SendRefuse, Holds, Return, Replies
<1>11. ASSUME NEW t \in Threads, SendEnter(t) PROVE TypeInv'
  BY <1>11 DEF SendEnter, Holds
<1>12. ASSUME NEW t \in Threads, SendWait(t) PROVE TypeInv'
  BY <1>12 DEF SendWait, Holds
<1>13. ASSUME NEW t \in Threads, SendPush(t) PROVE TypeInv'
  <2>1. t \in Producers /\ <<t, sent[t]>> \in Messages
    BY <1>13, MessageSent DEF SendPush
  <2>2. queue' \in Seq(Messages) /\ accepted' \in Seq(Messages)
    BY <1>13, <2>1, AppendProperties DEF SendPush
  <2>3. notEmpty' \subseteq Consumers
    BY <1>13, WokenSubset DEF SendPush
  <2>. QED  BY <1>13, <2>2, <2>3 DEF SendPush, Holds, Return, Replies
<1>14. ASSUME NEW t \in Threads, RecvWait(t) PROVE TypeInv'
  BY <1>14 DEF RecvWait, Holds
<1>15. ASSUME NEW t \in Threads, RecvEnd(t) PROVE TypeInv'
  BY <1>15 DEF RecvEnd, Holds, Return, Replies
<1>16. ASSUME NEW t \in Threads, RecvPop(t) PROVE TypeInv'
  <2>1. Head(queue) \in Messages /\ Tail(queue) \in Seq(Messages)
    BY <1>16, QueueHeadTail DEF RecvPop
  <2>2. queue' \in Seq(Messages) /\ delivered' \in Seq(Messages)
    <3>1. delivered' = Append(delivered, Head(queue)) /\ queue' = Tail(queue)
      BY <1>16 DEF RecvPop, PopFront
    <3>. QED  BY <3>1, <2>1, AppendProperties
  <2>3. notFull' \subseteq Producers
    <3>1. Woken(notFull, notFull') \/ notFull' = notFull
      BY <1>16 DEF RecvPop, PopFront
    <3>. QED  BY <3>1, WokenSubset
  <2>4. reply' \in [Threads -> Replies]
    BY <1>16, <2>1 DEF RecvPop, PopFront, Replies
  <2>. QED
    BY <1>16, <2>2, <2>3, <2>4 DEF RecvPop, PopFront, Holds, Return
<1>17. ASSUME NEW t \in Threads, TryRecvNothing(t) PROVE TypeInv'
  BY <1>17 DEF TryRecvNothing, Holds, Return, Replies
<1>18. ASSUME NEW t \in Threads, CloneTx(t) PROVE TypeInv'
  BY <1>18 DEF CloneTx, Holds, Return
<1>19. ASSUME NEW t \in Threads, DropTx(t) PROVE TypeInv'
  <2>1. closed' \in BOOLEAN
    BY <1>19, Zenon DEF DropTx
  <2>3. senders' \in Int
    BY <1>19 DEF DropTx
  <2>4. notEmpty' = {} \/ notEmpty' = notEmpty
    BY <1>19, Zenon DEF DropTx
  <2>2. handle' \in [Producers -> {"fresh", "cloning", "live", "dropped"}]
    BY <1>19 DEF DropTx
  <2>. QED  BY <1>19, <2>1, <2>2, <2>3, <2>4 DEF DropTx, Holds, Return
<1>20. ASSUME NEW t \in Threads, DropRx(t) PROVE TypeInv'
  <2>1. closed' \in BOOLEAN
    BY <1>20, Zenon DEF DropRx
  <2>2. receivers' \in Int
    BY <1>20 DEF DropRx
  <2>3. notFull' = {} \/ notFull' = notFull
    BY <1>20, Zenon DEF DropRx
  <2>. QED  BY <1>20, <2>1, <2>2, <2>3 DEF DropRx, Holds, Return
<1>21. CASE Freed
  BY <1>21 DEF Freed, vars
<1>22. CASE UNCHANGED vars
  BY <1>22 DEF vars
<1>. QED
  BY <1>1, <1>2, <1>3, <1>4, <1>5, <1>6, <1>7, <1>8, <1>9, <1>10, <1>11,
     <1>12, <1>13, <1>14, <1>15, <1>16, <1>17, <1>18, <1>19, <1>20, <1>21,
     <1>22 DEF Next, Run

USE DEF ThreadsTyped

LEMMA TypeInvariant == Spec => []TypeInv
BY InitTypeInv, NextTypeInv, PTL DEF Spec

\* Every variable stays in its type: in particular a thread only ever sleeps
\* on the condition variable of its own side, and what is queued was sent.
THEOREM TypeCorrect == Spec => []TypeOK
<1>1. TypeInv => TypeOK
  BY DEF TypeInv
<1>. QED  BY <1>1, TypeInvariant, PTL

------------------------------------------------------------------------------
(* The queue and its history                                               *)

LEMMA QueueStep ==
    ASSUME [Next]_vars
    PROVE  \/ \E t \in Threads : SendPush(t) \/ RecvPop(t)
           \/ UNCHANGED <<queue, accepted, delivered>>
BY DEF Next, Run, vars, state, hist, SendCall, CloneCall, DropTxCall, RecvCall,
       DropRxCall, Call, Lock, Relock, Unlock, SpuriousWakeup, SendRefuse,
       SendEnter, SendWait, RecvWait, RecvEnd, TryRecvNothing, CloneTx, DropTx,
       DropRx, Freed

QueueInv == FifoNoLoss /\ CapacityRespected

LEMMA NextQueueInv == TypeInv /\ QueueInv /\ [Next]_vars => QueueInv'
<1>. SUFFICES ASSUME TypeInv, QueueInv, [Next]_vars PROVE QueueInv'
  OBVIOUS
<1>. USE DEF QueueInv, FifoNoLoss, CapacityRespected
<1>t. /\ queue \in Seq(Messages) /\ accepted \in Seq(Messages)
      /\ delivered \in Seq(Messages)
  BY DEF TypeInv, TypeOK
<1>1. ASSUME NEW t \in Threads, SendPush(t) PROVE QueueInv'
  <2>. DEFINE m == <<t, sent[t]>>
  <2>1. m \in Messages
    BY <1>1, MessageSent DEF SendPush
  <2>2. /\ queue' = Append(queue, m) /\ accepted' = Append(accepted, m)
        /\ delivered' = delivered /\ ~Full
    BY <1>1 DEF SendPush
  <2>3. accepted' = delivered' \o queue'
    <3>1. /\ Append(queue, m) = queue \o <<m>>
          /\ Append(accepted, m) = accepted \o <<m>>
      BY <1>t, <2>1, AppendIsConcat
    <3>2. <<m>> \in Seq(Messages)
      BY <2>1
    <3>3. (delivered \o queue) \o <<m>> = delivered \o (queue \o <<m>>)
      BY <1>t, <3>2, ConcatAssociative
    <3>. QED  BY <2>2, <3>1, <3>3
  <2>4. CapacityRespected'
    <3>1. Len(queue') = Len(queue) + 1
      BY <1>t, <2>1, <2>2, AppendProperties
    <3>2. Len(queue) \in Nat
      BY <1>t, LenProperties
    <3>. QED  BY <2>2, <3>1, <3>2, CapacityIsBound DEF Full
  <2>. QED  BY <2>3, <2>4
<1>2. ASSUME NEW t \in Threads, RecvPop(t) PROVE QueueInv'
  <2>1. /\ queue # <<>> /\ queue' = Tail(queue) /\ accepted' = accepted
        /\ delivered' = Append(delivered, Head(queue))
    BY <1>2 DEF RecvPop, PopFront
  <2>2. /\ Head(queue) \in Messages /\ Tail(queue) \in Seq(Messages)
        /\ queue = <<Head(queue)>> \o Tail(queue)
        /\ Len(Tail(queue)) = Len(queue) - 1
    BY <1>t, <2>1, HeadTailProperties
  <2>3. accepted' = delivered' \o queue'
    <3>1. Append(delivered, Head(queue)) = delivered \o <<Head(queue)>>
      BY <1>t, <2>2, AppendIsConcat
    <3>2. <<Head(queue)>> \in Seq(Messages)
      BY <2>2
    <3>3. (delivered \o <<Head(queue)>>) \o Tail(queue)
            = delivered \o (<<Head(queue)>> \o Tail(queue))
      BY <1>t, <2>2, <3>2, ConcatAssociative
    <3>. QED  BY <2>1, <2>2, <3>1, <3>3
  <2>4. CapacityRespected'
    <3>1. Len(queue) \in Nat /\ Len(queue') = Len(queue) - 1
      BY <1>t, <2>1, <2>2, LenProperties
    <3>. QED  BY <3>1, CapacityIsBound
  <2>. QED  BY <2>3, <2>4
<1>3. CASE UNCHANGED <<queue, accepted, delivered>>
  BY <1>3
<1>. QED  BY <1>1, <1>2, <1>3, QueueStep

LEMMA InitQueueInv == Init => QueueInv
<1>. SUFFICES ASSUME Init PROVE QueueInv
  OBVIOUS
<1>1. queue = <<>> /\ accepted = <<>> /\ delivered = <<>>
  BY DEF Init
<1>2. <<>> = <<>> \o <<>>
  BY ConcatEmptySeq, EmptySeq
<1>. QED
  BY <1>1, <1>2, EmptySeq DEF QueueInv, FifoNoLoss, CapacityRespected

LEMMA QueueInvariant == Spec => []QueueInv
BY InitQueueInv, NextQueueInv, TypeInvariant, PTL DEF Spec

\* Nothing is lost, duplicated or reordered between send and recv: the
\* accepted messages are the delivered ones followed by the queued ones.
THEOREM Fifo == Spec => []FifoNoLoss
BY QueueInvariant, PTL DEF QueueInv

\* sync_channel(n) never holds more than n messages, however many senders
\* are woken or arrive at the same time.
THEOREM Bounded == Spec => []CapacityRespected
BY QueueInvariant, PTL DEF QueueInv

------------------------------------------------------------------------------
(* The mutex                                                               *)

Inside == {"enter", "loop", "recheck", "unlock"}

\* A thread is inside its critical section exactly when it holds the mutex.
MutualExclusion == \A t \in Threads : pc[t] \in Inside <=> mutex = t

\* recv starts at its wait loop; only send and recv wait.
ProgramPoints ==
    \A t \in Threads :
        /\ pc[t] \in {"loop", "wait", "recheck"} => op[t] \in {"send", "recv"}
        /\ pc[t] = "enter" => op[t] # "recv"

MutexInv == MutualExclusion /\ ProgramPoints

LEMMA InitMutexInv == Init => MutexInv
BY ThreadsDisjoint DEF Init, MutexInv, MutualExclusion, ProgramPoints, Inside

LEMMA NextMutexInv == TypeInv /\ MutexInv /\ [Next]_vars => MutexInv'
<1>. SUFFICES ASSUME TypeInv, MutexInv, [Next]_vars PROVE MutexInv'
  OBVIOUS
<1>. USE ThreadsDisjoint DEF MutexInv, MutualExclusion, ProgramPoints, Inside
<1>t. pc \in [Threads -> PCs] /\ op \in [Threads -> ProducerOps \cup ConsumerOps]
  BY DEF TypeInv, TypeOK
<1>1. ASSUME NEW p \in Producers, SendCall(p) PROVE MutexInv'
  BY <1>1, <1>t DEF SendCall, Call
<1>2. ASSUME NEW p \in Producers, CloneCall(p) PROVE MutexInv'
  BY <1>2, <1>t DEF CloneCall, Call
<1>3. ASSUME NEW p \in Producers, DropTxCall(p) PROVE MutexInv'
  BY <1>3, <1>t DEF DropTxCall, Call
<1>4. ASSUME NEW c \in Consumers, RecvCall(c) PROVE MutexInv'
  BY <1>4, <1>t DEF RecvCall, Call, RxGone
<1>5. ASSUME NEW c \in Consumers, DropRxCall(c) PROVE MutexInv'
  BY <1>5, <1>t DEF DropRxCall, Call, RxGone
<1>6. ASSUME NEW t \in Threads, Lock(t) PROVE MutexInv'
  BY <1>6, <1>t DEF Lock
<1>7. ASSUME NEW t \in Threads, Relock(t) PROVE MutexInv'
  BY <1>7, <1>t DEF Relock
<1>8. ASSUME NEW t \in Threads, Unlock(t) PROVE MutexInv'
  BY <1>8, <1>t DEF Unlock
<1>9. ASSUME NEW t \in Threads, SpuriousWakeup(t) PROVE MutexInv'
  BY <1>9, <1>t DEF SpuriousWakeup
<1>10. ASSUME NEW t \in Threads, SendRefuse(t) PROVE MutexInv'
  BY <1>10, <1>t DEF SendRefuse, Holds, Return
<1>11. ASSUME NEW t \in Threads, SendEnter(t) PROVE MutexInv'
  BY <1>11, <1>t DEF SendEnter, Holds
<1>12. ASSUME NEW t \in Threads, SendWait(t) PROVE MutexInv'
  BY <1>12, <1>t DEF SendWait, Holds
<1>13. ASSUME NEW t \in Threads, SendPush(t) PROVE MutexInv'
  BY <1>13, <1>t DEF SendPush, Holds, Return
<1>14. ASSUME NEW t \in Threads, RecvWait(t) PROVE MutexInv'
  BY <1>14, <1>t DEF RecvWait, Holds
<1>15. ASSUME NEW t \in Threads, RecvEnd(t) PROVE MutexInv'
  BY <1>15, <1>t DEF RecvEnd, Holds, Return
<1>16. ASSUME NEW t \in Threads, RecvPop(t) PROVE MutexInv'
  BY <1>16, <1>t DEF RecvPop, PopFront, Holds, Return
<1>17. ASSUME NEW t \in Threads, TryRecvNothing(t) PROVE MutexInv'
  BY <1>17, <1>t DEF TryRecvNothing, Holds, Return
<1>18. ASSUME NEW t \in Threads, CloneTx(t) PROVE MutexInv'
  BY <1>18, <1>t DEF CloneTx, Holds, Return
<1>19. ASSUME NEW t \in Threads, DropTx(t) PROVE MutexInv'
  BY <1>19, <1>t DEF DropTx, Holds, Return
<1>20. ASSUME NEW t \in Threads, DropRx(t) PROVE MutexInv'
  BY <1>20, <1>t DEF DropRx, Holds, Return
<1>21. CASE Freed
  BY <1>21 DEF Freed, vars
<1>22. CASE UNCHANGED vars
  BY <1>22 DEF vars
<1>. QED
  BY <1>1, <1>2, <1>3, <1>4, <1>5, <1>6, <1>7, <1>8, <1>9, <1>10, <1>11,
     <1>12, <1>13, <1>14, <1>15, <1>16, <1>17, <1>18, <1>19, <1>20, <1>21,
     <1>22 DEF Next, Run

LEMMA MutexInvariant == Spec => []MutexInv
BY InitMutexInv, NextMutexInv, TypeInvariant, PTL DEF Spec

\* At every moment the thread inside a critical section is the one that
\* holds the mutex: wait_cond gives it up and takes it back correctly.
THEOREM Exclusion == Spec => []MutualExclusion
BY MutexInvariant, PTL DEF MutexInv

------------------------------------------------------------------------------
(* Handles and closing                                                     *)

\* A producer inside an operation still owns its Sender, unless it dropped it.
SenderOwned ==
    \A p \in Producers : pc[p] # "idle" =>
        handle[p] = "live" \/ (op[p] = "dropTx" /\ pc[p] = "unlock")

\* WaitQueue.senders counts the live Senders.
SendersCounted == senders = Cardinality(Owners)

\* The channel is closed exactly when one side is gone.
ClosedIffAbandoned == closed <=> (senders = 0 \/ receivers = 0)

\* Nobody is in recv or try_recv when the Receiver is dropped or after.
ReceiverHandle ==
    /\ receivers \in {0, 1}
    /\ \A c \in Consumers : op[c] = "dropRx" =>
         \/ pc[c] \in {"lock", "enter"} /\ receivers = 1
         \/ pc[c] \in {"unlock", "idle"} /\ receivers = 0
    /\ \A c, d \in Consumers :
         op[c] = "dropRx" /\ (op[d] = "dropRx" \/ pc[d] # "idle") => c = d
    /\ \A c \in Consumers :
         op[c] # "dropRx" /\ pc[c] # "idle" => receivers = 1

HandleInv ==
    SenderOwned /\ SendersCounted /\ ClosedIffAbandoned /\ ReceiverHandle

LEMMA OwnersFinite ==
    /\ IsFiniteSet(Owners) /\ Cardinality(Owners) \in Nat
    /\ Cardinality(Owners) = 0 <=> Owners = {}
BY ThreadsFinite, FS_Subset, FS_CardinalityType, FS_EmptySet DEF Owners

LEMMA OwnsInside ==
    ASSUME TypeInv, HandleInv, NEW p \in Producers,
           pc[p] # "idle", pc[p] # "unlock"
    PROVE  p \in Owners /\ senders # 0
<1>1. p \in Owners
  BY DEF HandleInv, SenderOwned, Owners
<1>. QED  BY <1>1, OwnersFinite DEF HandleInv, SendersCounted

LEMMA InitHandleInv == Init => HandleInv
<1>. SUFFICES ASSUME Init PROVE HandleInv
  OBVIOUS
<1>1. PICK p \in Producers :
        handle = [q \in Producers |-> IF q = p THEN "live" ELSE "fresh"]
  BY DEF Init
<1>2. Owners = {p}
  BY <1>1 DEF Owners
<1>3. SendersCounted
  BY <1>2, FS_Singleton DEF Init, SendersCounted
<1>4. /\ senders = 1 /\ receivers = 1
      /\ pc = [t \in Threads |-> "idle"]
      /\ op = [t \in Threads |-> IF t \in Producers THEN "send" ELSE "recv"]
  BY DEF Init
<1>5. SenderOwned
  BY <1>4 DEF SenderOwned
<1>6. ~closed
  BY Zenon DEF Init
<1>7. ClosedIffAbandoned
  BY <1>4, <1>6 DEF ClosedIffAbandoned
<1>8. ReceiverHandle
  BY <1>4, ThreadsDisjoint DEF ReceiverHandle
<1>. QED  BY <1>3, <1>5, <1>7, <1>8 DEF HandleInv

LEMMA NextReceiverHandle ==
    TypeInv /\ MutexInv /\ ReceiverHandle /\ [Next]_vars => ReceiverHandle'
<1>. SUFFICES ASSUME TypeInv, MutexInv, ReceiverHandle, [Next]_vars
              PROVE  ReceiverHandle'
  OBVIOUS
<1>. USE ThreadsDisjoint DEF ReceiverHandle, PCs, state, hist
<1>t. ThreadsTyped
  BY ThreadTypes
<1>m. \A t \in Threads :
        pc[t] \in {"loop", "wait", "recheck"} => op[t] \in {"send", "recv"}
  BY DEF MutexInv, ProgramPoints
<1>1. ASSUME NEW p \in Producers, SendCall(p) PROVE ReceiverHandle'
  BY <1>1, <1>t, <1>m DEF SendCall, Call
<1>2. ASSUME NEW p \in Producers, CloneCall(p) PROVE ReceiverHandle'
  BY <1>2, <1>t, <1>m DEF CloneCall, Call
<1>3. ASSUME NEW p \in Producers, DropTxCall(p) PROVE ReceiverHandle'
  BY <1>3, <1>t, <1>m DEF DropTxCall, Call
<1>4. ASSUME NEW c \in Consumers, RecvCall(c) PROVE ReceiverHandle'
  BY <1>4, <1>t, <1>m DEF RecvCall, Call, RxGone
<1>5. ASSUME NEW c \in Consumers, DropRxCall(c) PROVE ReceiverHandle'
  BY <1>5, <1>t, <1>m DEF DropRxCall, Call, RxGone
<1>6. ASSUME NEW t \in Threads, Lock(t) PROVE ReceiverHandle'
  BY <1>6, <1>t, <1>m DEF Lock
<1>7. ASSUME NEW t \in Threads, Relock(t) PROVE ReceiverHandle'
  BY <1>7, <1>t, <1>m DEF Relock
<1>8. ASSUME NEW t \in Threads, Unlock(t) PROVE ReceiverHandle'
  BY <1>8, <1>t, <1>m DEF Unlock
<1>9. ASSUME NEW t \in Threads, SpuriousWakeup(t) PROVE ReceiverHandle'
  BY <1>9, <1>t, <1>m DEF SpuriousWakeup
<1>10. ASSUME NEW t \in Threads, SendRefuse(t) PROVE ReceiverHandle'
  BY <1>10, <1>t, <1>m DEF SendRefuse, Holds, Return
<1>11. ASSUME NEW t \in Threads, SendEnter(t) PROVE ReceiverHandle'
  BY <1>11, <1>t, <1>m DEF SendEnter, Holds
<1>12. ASSUME NEW t \in Threads, SendWait(t) PROVE ReceiverHandle'
  BY <1>12, <1>t, <1>m DEF SendWait, Holds
<1>13. ASSUME NEW t \in Threads, SendPush(t) PROVE ReceiverHandle'
  BY <1>13, <1>t, <1>m DEF SendPush, Holds, Return
<1>14. ASSUME NEW t \in Threads, RecvWait(t) PROVE ReceiverHandle'
  BY <1>14, <1>t, <1>m DEF RecvWait, Holds
<1>15. ASSUME NEW t \in Threads, RecvEnd(t) PROVE ReceiverHandle'
  BY <1>15, <1>t, <1>m DEF RecvEnd, Holds, Return
<1>16. ASSUME NEW t \in Threads, RecvPop(t) PROVE ReceiverHandle'
  BY <1>16, <1>t, <1>m DEF RecvPop, PopFront, Holds, Return
<1>17. ASSUME NEW t \in Threads, TryRecvNothing(t) PROVE ReceiverHandle'
  BY <1>17, <1>t, <1>m DEF TryRecvNothing, Holds, Return
<1>18. ASSUME NEW t \in Threads, CloneTx(t) PROVE ReceiverHandle'
  BY <1>18, <1>t, <1>m DEF CloneTx, Holds, Return
<1>19. ASSUME NEW t \in Threads, DropTx(t) PROVE ReceiverHandle'
  BY <1>19, <1>t, <1>m DEF DropTx, Holds, Return
<1>20. ASSUME NEW t \in Threads, DropRx(t) PROVE ReceiverHandle'
  BY <1>20, <1>t, <1>m DEF DropRx, Holds, Return
<1>21. CASE Freed
  BY <1>21 DEF Freed, vars
<1>22. CASE UNCHANGED vars
  BY <1>22 DEF vars
<1>. QED
  BY <1>1, <1>2, <1>3, <1>4, <1>5, <1>6, <1>7, <1>8, <1>9, <1>10, <1>11,
     <1>12, <1>13, <1>14, <1>15, <1>16, <1>17, <1>18, <1>19, <1>20, <1>21,
     <1>22 DEF Next, Run

LEMMA NextSenderOwned == TypeInv /\ SenderOwned /\ [Next]_vars => SenderOwned'
<1>. SUFFICES ASSUME TypeInv, SenderOwned, [Next]_vars PROVE SenderOwned'
  OBVIOUS
<1>. USE ThreadsDisjoint DEF SenderOwned, PCs, state, hist
<1>t. ThreadsTyped
  BY ThreadTypes
<1>1. ASSUME NEW p \in Producers, SendCall(p) PROVE SenderOwned'
  BY <1>1, <1>t DEF SendCall, Call
<1>2. ASSUME NEW p \in Producers, CloneCall(p) PROVE SenderOwned'
  BY <1>2, <1>t DEF CloneCall, Call
<1>3. ASSUME NEW p \in Producers, DropTxCall(p) PROVE SenderOwned'
  BY <1>3, <1>t DEF DropTxCall, Call
<1>4. ASSUME NEW c \in Consumers, RecvCall(c) PROVE SenderOwned'
  BY <1>4, <1>t DEF RecvCall, Call, RxGone
<1>5. ASSUME NEW c \in Consumers, DropRxCall(c) PROVE SenderOwned'
  BY <1>5, <1>t DEF DropRxCall, Call, RxGone
<1>6. ASSUME NEW t \in Threads, Lock(t) PROVE SenderOwned'
  BY <1>6, <1>t DEF Lock
<1>7. ASSUME NEW t \in Threads, Relock(t) PROVE SenderOwned'
  BY <1>7, <1>t DEF Relock
<1>8. ASSUME NEW t \in Threads, Unlock(t) PROVE SenderOwned'
  BY <1>8, <1>t DEF Unlock
<1>9. ASSUME NEW t \in Threads, SpuriousWakeup(t) PROVE SenderOwned'
  BY <1>9, <1>t DEF SpuriousWakeup
<1>10. ASSUME NEW t \in Threads, SendRefuse(t) PROVE SenderOwned'
  BY <1>10, <1>t DEF SendRefuse, Holds, Return
<1>11. ASSUME NEW t \in Threads, SendEnter(t) PROVE SenderOwned'
  BY <1>11, <1>t DEF SendEnter, Holds
<1>12. ASSUME NEW t \in Threads, SendWait(t) PROVE SenderOwned'
  BY <1>12, <1>t DEF SendWait, Holds
<1>13. ASSUME NEW t \in Threads, SendPush(t) PROVE SenderOwned'
  BY <1>13, <1>t DEF SendPush, Holds, Return
<1>14. ASSUME NEW t \in Threads, RecvWait(t) PROVE SenderOwned'
  BY <1>14, <1>t DEF RecvWait, Holds
<1>15. ASSUME NEW t \in Threads, RecvEnd(t) PROVE SenderOwned'
  BY <1>15, <1>t DEF RecvEnd, Holds, Return
<1>16. ASSUME NEW t \in Threads, RecvPop(t) PROVE SenderOwned'
  BY <1>16, <1>t DEF RecvPop, PopFront, Holds, Return
<1>17. ASSUME NEW t \in Threads, TryRecvNothing(t) PROVE SenderOwned'
  BY <1>17, <1>t DEF TryRecvNothing, Holds, Return
<1>18. ASSUME NEW t \in Threads, CloneTx(t) PROVE SenderOwned'
  BY <1>18, <1>t DEF CloneTx, Holds, Return
<1>19. ASSUME NEW t \in Threads, DropTx(t) PROVE SenderOwned'
  BY <1>19, <1>t DEF DropTx, Holds, Return
<1>20. ASSUME NEW t \in Threads, DropRx(t) PROVE SenderOwned'
  BY <1>20, <1>t DEF DropRx, Holds, Return
<1>21. CASE Freed
  BY <1>21 DEF Freed, vars
<1>22. CASE UNCHANGED vars
  BY <1>22 DEF vars
<1>. QED
  BY <1>1, <1>2, <1>3, <1>4, <1>5, <1>6, <1>7, <1>8, <1>9, <1>10, <1>11,
     <1>12, <1>13, <1>14, <1>15, <1>16, <1>17, <1>18, <1>19, <1>20, <1>21,
     <1>22 DEF Next, Run

\* The steps that change who is alive, and what the others keep.
LEMMA HandleStep ==
    ASSUME TypeInv, [Next]_vars
    PROVE  \/ \E t \in Threads : CloneTx(t) \/ DropTx(t) \/ DropRx(t)
           \/ Owners' = Owners /\ UNCHANGED <<senders, receivers, closed>>
<1>h. handle \in [Producers -> {"fresh", "cloning", "live", "dropped"}]
  BY DEF TypeInv, TypeOK
<1>1. ASSUME NEW p \in Producers, CloneCall(p)
      PROVE  Owners' = Owners /\ UNCHANGED <<senders, receivers, closed>>
  BY <1>1, <1>h DEF CloneCall, Call, Owners, state
<1>2. \/ \E t \in Threads : CloneTx(t) \/ DropTx(t) \/ DropRx(t)
      \/ \E p \in Producers : CloneCall(p)
      \/ UNCHANGED <<handle, senders, receivers, closed>>
  BY DEF Next, Run, vars, state, hist, SendCall, DropTxCall, RecvCall,
         DropRxCall, Call, Lock, Relock, Unlock, SpuriousWakeup, SendRefuse,
         SendEnter, SendWait, SendPush, RecvWait, RecvEnd, RecvPop, PopFront,
         TryRecvNothing, Freed
<1>3. handle' = handle => Owners' = Owners
  BY DEF Owners
<1>. QED  BY <1>1, <1>2, <1>3

LEMMA NextCounts ==
    TypeInv /\ HandleInv /\ [Next]_vars => SendersCounted' /\ ClosedIffAbandoned'
<1>. SUFFICES ASSUME TypeInv, HandleInv, [Next]_vars
              PROVE  SendersCounted' /\ ClosedIffAbandoned'
  OBVIOUS
<1>. USE DEF SendersCounted, ClosedIffAbandoned
<1>t. /\ handle \in [Producers -> {"fresh", "cloning", "live", "dropped"}]
      /\ \A c \in Consumers : op[c] \in ConsumerOps
      /\ \A p \in Producers : op[p] \in ProducerOps
      /\ senders = Cardinality(Owners) /\ senders \in Nat
      /\ closed <=> (senders = 0 \/ receivers = 0)
  BY OwnersFinite DEF TypeInv, TypeOK, HandleInv
<1>1. ASSUME NEW t \in Threads, CloneTx(t)
      PROVE  SendersCounted' /\ ClosedIffAbandoned'
  <2>1. PICK q \in Producers :
          handle[q] = "cloning" /\ handle' = [handle EXCEPT ![q] = "live"]
    BY <1>1 DEF CloneTx
  <2>2. Owners' = Owners \cup {q} /\ q \notin Owners
    BY <2>1, <1>t DEF Owners
  <2>3. /\ senders' = senders + 1 /\ receivers' = receivers
        /\ closed' = closed
    BY <1>1 DEF CloneTx
  <2>4. senders # 0
    BY <1>1, <1>t, OwnsInside DEF CloneTx, Holds
  <2>5. senders' = Cardinality(Owners')
    BY <1>t, <2>2, <2>3, OwnersFinite, FS_AddElement
  <2>6. closed' <=> (senders' = 0 \/ receivers' = 0)
    BY <1>t, <2>3, <2>4
  <2>. QED  BY <2>5, <2>6
<1>2. ASSUME NEW t \in Threads, DropTx(t)
      PROVE  SendersCounted' /\ ClosedIffAbandoned'
  <2>1. t \in Owners /\ senders # 0
    BY <1>2, <1>t, OwnsInside DEF DropTx, Holds
  <2>2. senders' = senders - 1 /\ receivers' = receivers
    BY <1>2 DEF DropTx
  <2>3. Owners' = Owners \ {t}
    BY <1>2, <1>t DEF DropTx, Owners
  <2>4. senders' = Cardinality(Owners')
    BY <1>t, <2>1, <2>2, <2>3, OwnersFinite, FS_RemoveElement
  <2>5. CASE senders' = 0
    <3>1. closed'
      BY <1>2, <2>5, Zenon DEF DropTx
    <3>. QED  BY <2>4, <2>5, <3>1
  <2>6. CASE senders' # 0
    <3>1. closed' = closed
      BY <1>2, <2>6, Zenon DEF DropTx
    <3>. QED  BY <1>t, <2>1, <2>2, <2>4, <2>6, <3>1
  <2>. QED  BY <2>5, <2>6
<1>3. ASSUME NEW t \in Threads, DropRx(t)
      PROVE  SendersCounted' /\ ClosedIffAbandoned'
  <2>1. receivers' = 0
    BY <1>3, <1>t DEF DropRx, Holds, HandleInv, ReceiverHandle
  <2>2. closed'
    BY <1>3, <2>1, Zenon DEF DropRx
  <2>3. senders' = senders /\ Owners' = Owners
    BY <1>3 DEF DropRx, Owners
  <2>. QED  BY <1>t, <2>1, <2>2, <2>3
<1>4. CASE Owners' = Owners /\ UNCHANGED <<senders, receivers, closed>>
  BY <1>4, <1>t
<1>. QED  BY <1>1, <1>2, <1>3, <1>4, HandleStep

LEMMA HandleInvariant == Spec => []HandleInv
<1>1. TypeInv /\ MutexInv /\ HandleInv /\ [Next]_vars => HandleInv'
  BY NextReceiverHandle, NextSenderOwned, NextCounts DEF HandleInv
<1>. QED
  BY <1>1, InitHandleInv, TypeInvariant, MutexInvariant, PTL DEF Spec

------------------------------------------------------------------------------
(* The end of the stream                                                   *)

\* A step that accepts and delivers nothing, ends no stream and makes no
\* Sender live keeps EndOfStreamIsComplete.
QuietStep ==
    /\ UNCHANGED <<accepted, delivered>>
    /\ Owners' \subseteq Owners
    /\ \A c \in Consumers : reply'[c] = Ended => reply[c] = Ended

LEMMA StreamStep ==
    ASSUME TypeInv, [Next]_vars
    PROVE  \/ \E t \in Threads : SendPush(t) \/ RecvPop(t) \/ CloneTx(t)
                                  \/ RecvEnd(t)
           \/ QuietStep
<1>. USE ThreadsDisjoint DEF QuietStep, state, hist, Owners
<1>t. /\ handle \in [Producers -> {"fresh", "cloning", "live", "dropped"}]
      /\ reply \in [Threads -> Replies]
      /\ \A c \in Consumers : op[c] \in ConsumerOps
  BY DEF TypeInv, TypeOK
<1>e. Refused # Ended /\ NothingYet # Ended
  BY DEF Refused, NothingYet, Ended
<1>1. ASSUME NEW p \in Producers, SendCall(p) PROVE QuietStep
  BY <1>1, <1>t DEF SendCall, Call
<1>2. ASSUME NEW p \in Producers, CloneCall(p) PROVE QuietStep
  BY <1>2, <1>t DEF CloneCall, Call
<1>3. ASSUME NEW p \in Producers, DropTxCall(p) PROVE QuietStep
  BY <1>3, <1>t DEF DropTxCall, Call
<1>4. ASSUME NEW c \in Consumers, RecvCall(c) PROVE QuietStep
  BY <1>4, <1>t DEF RecvCall, Call, RxGone
<1>5. ASSUME NEW c \in Consumers, DropRxCall(c) PROVE QuietStep
  BY <1>5, <1>t DEF DropRxCall, Call, RxGone
<1>6. ASSUME NEW t \in Threads, Lock(t) PROVE QuietStep
  BY <1>6, <1>t DEF Lock
<1>7. ASSUME NEW t \in Threads, Relock(t) PROVE QuietStep
  BY <1>7, <1>t DEF Relock
<1>8. ASSUME NEW t \in Threads, Unlock(t) PROVE QuietStep
  BY <1>8, <1>t DEF Unlock
<1>9. ASSUME NEW t \in Threads, SpuriousWakeup(t) PROVE QuietStep
  BY <1>9, <1>t DEF SpuriousWakeup
<1>10. ASSUME NEW t \in Threads, SendRefuse(t) PROVE QuietStep
  BY <1>10, <1>t, <1>e DEF SendRefuse, Holds, Return
<1>11. ASSUME NEW t \in Threads, SendEnter(t) PROVE QuietStep
  BY <1>11, <1>t DEF SendEnter, Holds
<1>12. ASSUME NEW t \in Threads, SendWait(t) PROVE QuietStep
  BY <1>12, <1>t DEF SendWait, Holds
<1>13. ASSUME NEW t \in Threads, RecvWait(t) PROVE QuietStep
  BY <1>13, <1>t DEF RecvWait, Holds
<1>14. ASSUME NEW t \in Threads, TryRecvNothing(t) PROVE QuietStep
  BY <1>14, <1>t, <1>e DEF TryRecvNothing, Holds, Return
<1>15. ASSUME NEW t \in Threads, DropTx(t) PROVE QuietStep
  BY <1>15, <1>t DEF DropTx, Holds, Return
<1>16. ASSUME NEW t \in Threads, DropRx(t) PROVE QuietStep
  BY <1>16, <1>t DEF DropRx, Holds, Return
<1>17. CASE Freed
  BY <1>17 DEF Freed, vars
<1>18. CASE UNCHANGED vars
  BY <1>18 DEF vars
<1>. QED
  BY <1>1, <1>2, <1>3, <1>4, <1>5, <1>6, <1>7, <1>8, <1>9, <1>10, <1>11,
     <1>12, <1>13, <1>14, <1>15, <1>16, <1>17, <1>18 DEF Next, Run

LEMMA NextEndOfStream ==
    TypeInv /\ QueueInv /\ HandleInv /\ EndOfStreamIsComplete /\ [Next]_vars
        => EndOfStreamIsComplete'
<1>. SUFFICES ASSUME TypeInv, QueueInv, HandleInv, EndOfStreamIsComplete,
                     [Next]_vars, NEW c \in Consumers, reply'[c] = Ended
              PROVE  delivered' = accepted' /\ Owners' = {}
  BY DEF EndOfStreamIsComplete
<1>t. /\ \A p \in Producers : op[p] \in ProducerOps
      /\ \A d \in Consumers : op[d] \in ConsumerOps
      /\ reply \in [Threads -> Replies]
      /\ queue \in Seq(Messages) /\ delivered \in Seq(Messages)
      /\ accepted = delivered \o queue
  BY DEF TypeInv, TypeOK, QueueInv, FifoNoLoss
<1>e. Accepted # Ended /\ \A m : Got(m) # Ended
  BY DEF Accepted, Got, Ended
<1>1. ASSUME NEW t \in Threads, SendPush(t) \/ CloneTx(t) PROVE FALSE
  <2>1. t \in Owners
    BY <1>1, <1>t, OwnsInside DEF SendPush, CloneTx, Holds
  <2>2. t # c
    BY <2>1, ThreadsDisjoint DEF Owners
  <2>3. reply[c] = Ended
    BY <1>1, <1>t, <2>2 DEF SendPush, CloneTx
  <2>. QED  BY <2>1, <2>3 DEF EndOfStreamIsComplete
<1>2. ASSUME NEW t \in Threads, RecvPop(t) PROVE FALSE
  <2>1. queue # <<>> /\ reply' = [reply EXCEPT ![t] = Got(Head(queue))]
    BY <1>2 DEF RecvPop, PopFront
  <2>2. reply[c] = Ended
    BY <1>t, <1>e, <2>1
  <2>3. delivered = delivered \o queue
    BY <1>t, <2>2 DEF EndOfStreamIsComplete
  <2>. QED  BY <1>t, <2>1, <2>3, ConcatEqualIffEmpty
<1>3. ASSUME NEW t \in Threads, RecvEnd(t)
      PROVE  delivered' = accepted' /\ Owners' = {}
  <2>1. /\ queue = <<>> /\ closed
        /\ UNCHANGED <<accepted, delivered, handle>>
    BY <1>3 DEF RecvEnd, hist
  <2>2. t \in Consumers /\ op[t] # "dropRx" /\ pc[t] # "idle"
    BY <1>3, <1>t DEF RecvEnd, Holds
  <2>3. receivers = 1
    BY <2>2 DEF HandleInv, ReceiverHandle
  <2>4. Owners = {}
    BY <2>1, <2>3, OwnersFinite
       DEF HandleInv, ClosedIffAbandoned, SendersCounted
  <2>5. accepted = delivered
    BY <1>t, <2>1, ConcatEmptySeq
  <2>. QED  BY <2>1, <2>4, <2>5 DEF Owners
<1>4. CASE QuietStep
  BY <1>4 DEF QuietStep, EndOfStreamIsComplete
<1>. QED  BY <1>1, <1>2, <1>3, <1>4, StreamStep

\* recv and try_recv report the end of the stream only when every accepted
\* message was delivered and no Sender is left to send another, and this
\* stays so for ever after.
THEOREM EndOfStream == Spec => []EndOfStreamIsComplete
<1>1. Init => EndOfStreamIsComplete
  BY DEF Init, EndOfStreamIsComplete, Ended, NoReply
<1>. QED
  BY <1>1, NextEndOfStream, TypeInvariant, QueueInvariant, HandleInvariant,
     PTL DEF Spec

------------------------------------------------------------------------------
(* Sleeping threads                                                        *)

SleepersWait ==
    /\ \A c \in notEmpty : op[c] = "recv" /\ pc[c] = "wait"
    /\ \A p \in notFull : op[p] = "send" /\ pc[p] = "wait"
    /\ notFull # {} => Capacity >= 0

LEMMA NextSleepersWait ==
    TypeInv /\ SleepersWait /\ [Next]_vars => SleepersWait'
<1>. SUFFICES ASSUME TypeInv, SleepersWait, [Next]_vars PROVE SleepersWait'
  OBVIOUS
<1>. USE ThreadsDisjoint DEF SleepersWait, PCs, state, hist
<1>t. ThreadsTyped
  BY ThreadTypes
<1>1. ASSUME NEW p \in Producers, SendCall(p) PROVE SleepersWait'
  BY <1>1, <1>t DEF SendCall, Call
<1>2. ASSUME NEW p \in Producers, CloneCall(p) PROVE SleepersWait'
  BY <1>2, <1>t DEF CloneCall, Call
<1>3. ASSUME NEW p \in Producers, DropTxCall(p) PROVE SleepersWait'
  BY <1>3, <1>t DEF DropTxCall, Call
<1>4. ASSUME NEW c \in Consumers, RecvCall(c) PROVE SleepersWait'
  BY <1>4, <1>t DEF RecvCall, Call, RxGone
<1>5. ASSUME NEW c \in Consumers, DropRxCall(c) PROVE SleepersWait'
  BY <1>5, <1>t DEF DropRxCall, Call, RxGone
<1>6. ASSUME NEW t \in Threads, Lock(t) PROVE SleepersWait'
  BY <1>6, <1>t DEF Lock
<1>7. ASSUME NEW t \in Threads, Relock(t) PROVE SleepersWait'
  BY <1>7, <1>t DEF Relock
<1>8. ASSUME NEW t \in Threads, Unlock(t) PROVE SleepersWait'
  BY <1>8, <1>t DEF Unlock
<1>9. ASSUME NEW t \in Threads, SpuriousWakeup(t) PROVE SleepersWait'
  BY <1>9, <1>t DEF SpuriousWakeup
<1>10. ASSUME NEW t \in Threads, SendRefuse(t) PROVE SleepersWait'
  BY <1>10, <1>t DEF SendRefuse, Holds, Return
<1>11. ASSUME NEW t \in Threads, SendEnter(t) PROVE SleepersWait'
  BY <1>11, <1>t DEF SendEnter, Holds
<1>12. ASSUME NEW t \in Threads, SendWait(t) PROVE SleepersWait'
  BY <1>12, <1>t, CapacityIsBound DEF SendWait, Holds, Full
<1>13. ASSUME NEW t \in Threads, SendPush(t) PROVE SleepersWait'
  <2>1. notEmpty' \subseteq notEmpty /\ notFull' = notFull
    BY <1>13, WokenSubset DEF SendPush
  <2>. QED  BY <1>13, <1>t, <2>1 DEF SendPush, Holds, Return
<1>14. ASSUME NEW t \in Threads, RecvWait(t) PROVE SleepersWait'
  BY <1>14, <1>t DEF RecvWait, Holds
<1>15. ASSUME NEW t \in Threads, RecvEnd(t) PROVE SleepersWait'
  BY <1>15, <1>t DEF RecvEnd, Holds, Return
<1>16. ASSUME NEW t \in Threads, RecvPop(t) PROVE SleepersWait'
  <2>1. notFull' \subseteq notFull /\ notEmpty' = notEmpty
    <3>1. Woken(notFull, notFull') \/ notFull' = notFull
      BY <1>16 DEF RecvPop, PopFront
    <3>. QED  BY <1>16, <3>1, WokenSubset DEF RecvPop, PopFront
  <2>. QED  BY <1>16, <1>t, <2>1 DEF RecvPop, Holds, Return
<1>17. ASSUME NEW t \in Threads, TryRecvNothing(t) PROVE SleepersWait'
  BY <1>17, <1>t DEF TryRecvNothing, Holds, Return
<1>18. ASSUME NEW t \in Threads, CloneTx(t) PROVE SleepersWait'
  BY <1>18, <1>t DEF CloneTx, Holds, Return
<1>19. ASSUME NEW t \in Threads, DropTx(t) PROVE SleepersWait'
  <2>1. (notEmpty' = {} \/ notEmpty' = notEmpty) /\ notFull' = notFull
    BY <1>19, Zenon DEF DropTx
  <2>. QED  BY <1>19, <1>t, <2>1 DEF DropTx, Holds, Return
<1>20. ASSUME NEW t \in Threads, DropRx(t) PROVE SleepersWait'
  <2>1. (notFull' = {} \/ notFull' = notFull) /\ notEmpty' = notEmpty
    BY <1>20, Zenon DEF DropRx
  <2>. QED  BY <1>20, <1>t, <2>1 DEF DropRx, Holds, Return
<1>21. CASE Freed
  BY <1>21 DEF Freed, vars
<1>22. CASE UNCHANGED vars
  BY <1>22 DEF vars
<1>. QED
  BY <1>1, <1>2, <1>3, <1>4, <1>5, <1>6, <1>7, <1>8, <1>9, <1>10, <1>11,
     <1>12, <1>13, <1>14, <1>15, <1>16, <1>17, <1>18, <1>19, <1>20, <1>21,
     <1>22 DEF Next, Run

LEMMA SleepersInvariant == Spec => []SleepersWait
<1>1. Init => SleepersWait
  BY DEF Init, SleepersWait
<1>. QED  BY <1>1, NextSleepersWait, TypeInvariant, PTL DEF Spec

\* A sender between its first test and its wait loop saw an open channel,
\* and it has held the mutex since.
AdmittedOpen ==
    \A p \in Producers : op[p] = "send" /\ pc[p] = "loop" => ~closed

LEMMA NextAdmittedOpen ==
    TypeInv /\ MutexInv /\ AdmittedOpen /\ [Next]_vars => AdmittedOpen'
<1>. SUFFICES ASSUME TypeInv, MutexInv, AdmittedOpen, [Next]_vars
              PROVE  AdmittedOpen'
  OBVIOUS
<1>. USE ThreadsDisjoint DEF AdmittedOpen, PCs, state, hist
<1>t. /\ ThreadsTyped
      /\ \A t \in Threads : pc[t] \in Inside <=> mutex = t
  BY ThreadTypes DEF TypeInv, TypeOK, MutexInv, MutualExclusion
<1>1. ASSUME NEW p \in Producers, SendCall(p) PROVE AdmittedOpen'
  BY <1>1, <1>t DEF SendCall, Call
<1>2. ASSUME NEW p \in Producers, CloneCall(p) PROVE AdmittedOpen'
  BY <1>2, <1>t DEF CloneCall, Call
<1>3. ASSUME NEW p \in Producers, DropTxCall(p) PROVE AdmittedOpen'
  BY <1>3, <1>t DEF DropTxCall, Call
<1>4. ASSUME NEW c \in Consumers, RecvCall(c) PROVE AdmittedOpen'
  BY <1>4, <1>t DEF RecvCall, Call, RxGone
<1>5. ASSUME NEW c \in Consumers, DropRxCall(c) PROVE AdmittedOpen'
  BY <1>5, <1>t DEF DropRxCall, Call, RxGone
<1>6. ASSUME NEW t \in Threads, Lock(t) PROVE AdmittedOpen'
  BY <1>6, <1>t DEF Lock
<1>7. ASSUME NEW t \in Threads, Relock(t) PROVE AdmittedOpen'
  BY <1>7, <1>t DEF Relock
<1>8. ASSUME NEW t \in Threads, Unlock(t) PROVE AdmittedOpen'
  BY <1>8, <1>t DEF Unlock
<1>9. ASSUME NEW t \in Threads, SpuriousWakeup(t) PROVE AdmittedOpen'
  BY <1>9, <1>t DEF SpuriousWakeup
<1>10. ASSUME NEW t \in Threads, SendRefuse(t) PROVE AdmittedOpen'
  BY <1>10, <1>t DEF SendRefuse, Holds, Return
<1>11. ASSUME NEW t \in Threads, SendEnter(t) PROVE AdmittedOpen'
  BY <1>11, <1>t DEF SendEnter, Holds
<1>12. ASSUME NEW t \in Threads, SendWait(t) PROVE AdmittedOpen'
  BY <1>12, <1>t DEF SendWait, Holds
<1>13. ASSUME NEW t \in Threads, SendPush(t) PROVE AdmittedOpen'
  BY <1>13, <1>t DEF SendPush, Holds, Return
<1>14. ASSUME NEW t \in Threads, RecvWait(t) PROVE AdmittedOpen'
  BY <1>14, <1>t DEF RecvWait, Holds
<1>15. ASSUME NEW t \in Threads, RecvEnd(t) PROVE AdmittedOpen'
  BY <1>15, <1>t DEF RecvEnd, Holds, Return
<1>16. ASSUME NEW t \in Threads, RecvPop(t) PROVE AdmittedOpen'
  BY <1>16, <1>t DEF RecvPop, PopFront, Holds, Return
<1>17. ASSUME NEW t \in Threads, TryRecvNothing(t) PROVE AdmittedOpen'
  BY <1>17, <1>t DEF TryRecvNothing, Holds, Return
<1>18. ASSUME NEW t \in Threads, CloneTx(t) PROVE AdmittedOpen'
  BY <1>18, <1>t DEF CloneTx, Holds, Return
<1>19. ASSUME NEW t \in Threads, DropTx(t) PROVE AdmittedOpen'
  <2>1. \A p \in Producers : pc[p] # "loop"
    BY <1>19, <1>t DEF DropTx, Holds, Inside
  <2>. QED  BY <1>19, <1>t, <2>1 DEF DropTx, Return
<1>20. ASSUME NEW t \in Threads, DropRx(t) PROVE AdmittedOpen'
  <2>1. \A p \in Producers : pc[p] # "loop"
    BY <1>20, <1>t DEF DropRx, Holds, Inside
  <2>. QED  BY <1>20, <1>t, <2>1 DEF DropRx, Return
<1>21. CASE Freed
  BY <1>21 DEF Freed, vars
<1>22. CASE UNCHANGED vars
  BY <1>22 DEF vars
<1>. QED
  BY <1>1, <1>2, <1>3, <1>4, <1>5, <1>6, <1>7, <1>8, <1>9, <1>10, <1>11,
     <1>12, <1>13, <1>14, <1>15, <1>16, <1>17, <1>18, <1>19, <1>20, <1>21,
     <1>22 DEF Next, Run

LEMMA AdmittedInvariant == Spec => []AdmittedOpen
<1>1. Init => AdmittedOpen
  BY DEF Init, AdmittedOpen
<1>. QED
  BY <1>1, NextAdmittedOpen, TypeInvariant, MutexInvariant, PTL DEF Spec

------------------------------------------------------------------------------
(* No lost wakeup                                                          *)

LEMMA OnTheirWayFinite ==
    ASSUME NEW o, NEW ws
    PROVE  IsFiniteSet(OnTheirWay(o, ws))
<1>1. IsFiniteSet(Threads)
  BY ThreadsFinite, FS_Union
<1>. QED  BY <1>1, FS_Subset DEF OnTheirWay

\* Comparing the threads on their way before and after a step.
LEMMA CountGrows ==
    ASSUME NEW S, NEW T, IsFiniteSet(S), IsFiniteSet(T), S \subseteq T
    PROVE  /\ Cardinality(S) \in Nat /\ Cardinality(T) \in Nat
           /\ Cardinality(S) <= Cardinality(T)
BY FS_Subset, FS_CardinalityType

LEMMA CountLosesOne ==
    ASSUME NEW S, NEW T, IsFiniteSet(S), IsFiniteSet(T), NEW x, S \ {x} \subseteq T
    PROVE  /\ Cardinality(S) \in Nat /\ Cardinality(T) \in Nat
           /\ Cardinality(S) - 1 <= Cardinality(T)
<1>1. /\ IsFiniteSet(S \ {x}) /\ Cardinality(S) \in Nat
      /\ Cardinality(S) - 1 <= Cardinality(S \ {x})
  BY FS_RemoveElement, FS_CardinalityType
<1>. QED  BY <1>1, CountGrows

LEMMA CountGainsOne ==
    ASSUME NEW S, NEW T, IsFiniteSet(S), IsFiniteSet(T), NEW x, x \notin S,
           S \cup {x} \subseteq T
    PROVE  /\ Cardinality(S) \in Nat /\ Cardinality(T) \in Nat
           /\ Cardinality(S) + 1 <= Cardinality(T)
<1>1. /\ IsFiniteSet(S \cup {x}) /\ Cardinality(S) \in Nat
      /\ Cardinality(S \cup {x}) = Cardinality(S) + 1
  BY FS_AddElement, FS_CardinalityType
<1>. QED  BY <1>1, CountGrows

\* A step that neither queues nor takes a message, does not close, puts no
\* receiver to sleep and loses none of those on their way.
QuietForReceivers ==
    /\ notEmpty' \subseteq notEmpty
    /\ UNCHANGED <<queue, closed>>
    /\ OnTheirWay("recv", notEmpty) \subseteq OnTheirWay("recv", notEmpty)'

QuietForSenders ==
    /\ notFull' \subseteq notFull
    /\ UNCHANGED <<queue, closed>>
    /\ OnTheirWay("send", notFull) \subseteq OnTheirWay("send", notFull)'

LEMMA ReceiverStep ==
    ASSUME TypeInv, SleepersWait, [Next]_vars
    PROVE  \/ \E t \in Threads : SendPush(t) \/ RecvPop(t) \/ RecvWait(t)
                                  \/ RecvEnd(t) \/ DropTx(t) \/ DropRx(t)
           \/ QuietForReceivers
<1>. USE ThreadsDisjoint DEF QuietForReceivers, OnTheirWay, SleepersWait, state, hist
<1>t. ThreadsTyped
  BY ThreadTypes
<1>1. ASSUME NEW p \in Producers, SendCall(p) PROVE QuietForReceivers
  BY <1>1, <1>t DEF SendCall, Call
<1>2. ASSUME NEW p \in Producers, CloneCall(p) PROVE QuietForReceivers
  BY <1>2, <1>t DEF CloneCall, Call
<1>3. ASSUME NEW p \in Producers, DropTxCall(p) PROVE QuietForReceivers
  BY <1>3, <1>t DEF DropTxCall, Call
<1>4. ASSUME NEW c \in Consumers, RecvCall(c) PROVE QuietForReceivers
  BY <1>4, <1>t DEF RecvCall, Call, RxGone
<1>5. ASSUME NEW c \in Consumers, DropRxCall(c) PROVE QuietForReceivers
  BY <1>5, <1>t DEF DropRxCall, Call, RxGone
<1>6. ASSUME NEW t \in Threads, Lock(t) PROVE QuietForReceivers
  BY <1>6, <1>t DEF Lock
<1>7. ASSUME NEW t \in Threads, Relock(t) PROVE QuietForReceivers
  BY <1>7, <1>t DEF Relock
<1>8. ASSUME NEW t \in Threads, Unlock(t) PROVE QuietForReceivers
  BY <1>8, <1>t DEF Unlock
<1>9. ASSUME NEW t \in Threads, SpuriousWakeup(t) PROVE QuietForReceivers
  BY <1>9, <1>t DEF SpuriousWakeup
<1>10. ASSUME NEW t \in Threads, SendRefuse(t) PROVE QuietForReceivers
  BY <1>10, <1>t DEF SendRefuse, Holds, Return
<1>11. ASSUME NEW t \in Threads, SendEnter(t) PROVE QuietForReceivers
  BY <1>11, <1>t DEF SendEnter, Holds
<1>12. ASSUME NEW t \in Threads, SendWait(t) PROVE QuietForReceivers
  BY <1>12, <1>t DEF SendWait, Holds
<1>13. ASSUME NEW t \in Threads, TryRecvNothing(t) PROVE QuietForReceivers
  BY <1>13, <1>t DEF TryRecvNothing, Holds, Return
<1>14. ASSUME NEW t \in Threads, CloneTx(t) PROVE QuietForReceivers
  BY <1>14, <1>t DEF CloneTx, Holds, Return
<1>15. CASE Freed
  BY <1>15 DEF Freed, vars
<1>16. CASE UNCHANGED vars
  BY <1>16 DEF vars
<1>. QED
  BY <1>1, <1>2, <1>3, <1>4, <1>5, <1>6, <1>7, <1>8, <1>9, <1>10, <1>11,
     <1>12, <1>13, <1>14, <1>15, <1>16 DEF Next, Run

LEMMA SenderStep ==
    ASSUME TypeInv, SleepersWait, [Next]_vars
    PROVE  \/ \E t \in Threads : SendPush(t) \/ RecvPop(t) \/ SendWait(t)
                                  \/ SendRefuse(t) \/ DropTx(t) \/ DropRx(t)
           \/ QuietForSenders
<1>. USE ThreadsDisjoint DEF QuietForSenders, OnTheirWay, SleepersWait, state, hist
<1>t. ThreadsTyped
  BY ThreadTypes
<1>1. ASSUME NEW p \in Producers, SendCall(p) PROVE QuietForSenders
  BY <1>1, <1>t DEF SendCall, Call
<1>2. ASSUME NEW p \in Producers, CloneCall(p) PROVE QuietForSenders
  BY <1>2, <1>t DEF CloneCall, Call
<1>3. ASSUME NEW p \in Producers, DropTxCall(p) PROVE QuietForSenders
  BY <1>3, <1>t DEF DropTxCall, Call
<1>4. ASSUME NEW c \in Consumers, RecvCall(c) PROVE QuietForSenders
  BY <1>4, <1>t DEF RecvCall, Call, RxGone
<1>5. ASSUME NEW c \in Consumers, DropRxCall(c) PROVE QuietForSenders
  BY <1>5, <1>t DEF DropRxCall, Call, RxGone
<1>6. ASSUME NEW t \in Threads, Lock(t) PROVE QuietForSenders
  BY <1>6, <1>t DEF Lock
<1>7. ASSUME NEW t \in Threads, Relock(t) PROVE QuietForSenders
  BY <1>7, <1>t DEF Relock
<1>8. ASSUME NEW t \in Threads, Unlock(t) PROVE QuietForSenders
  BY <1>8, <1>t DEF Unlock
<1>9. ASSUME NEW t \in Threads, SpuriousWakeup(t) PROVE QuietForSenders
  BY <1>9, <1>t DEF SpuriousWakeup
<1>10. ASSUME NEW t \in Threads, SendEnter(t) PROVE QuietForSenders
  BY <1>10, <1>t DEF SendEnter, Holds
<1>11. ASSUME NEW t \in Threads, RecvWait(t) PROVE QuietForSenders
  BY <1>11, <1>t DEF RecvWait, Holds
<1>12. ASSUME NEW t \in Threads, RecvEnd(t) PROVE QuietForSenders
  BY <1>12, <1>t DEF RecvEnd, Holds, Return
<1>13. ASSUME NEW t \in Threads, TryRecvNothing(t) PROVE QuietForSenders
  BY <1>13, <1>t DEF TryRecvNothing, Holds, Return
<1>14. ASSUME NEW t \in Threads, CloneTx(t) PROVE QuietForSenders
  BY <1>14, <1>t DEF CloneTx, Holds, Return
<1>15. CASE Freed
  BY <1>15 DEF Freed, vars
<1>16. CASE UNCHANGED vars
  BY <1>16 DEF vars
<1>. QED
  BY <1>1, <1>2, <1>3, <1>4, <1>5, <1>6, <1>7, <1>8, <1>9, <1>10, <1>11,
     <1>12, <1>13, <1>14, <1>15, <1>16 DEF Next, Run

LEMMA NextNoStrandedReceiver ==
    ASSUME TypeInv, HandleInv, SleepersWait, NoStrandedReceiver, [Next]_vars,
           notEmpty' # {}
    PROVE  /\ ~closed'
           /\ Len(queue') <= Cardinality(OnTheirWay("recv", notEmpty)')
<1>. DEFINE R == OnTheirWay("recv", notEmpty)
<1>. USE ThreadsDisjoint
<1>f. IsFiniteSet(R) /\ IsFiniteSet(R')
  <2>1. IsFiniteSet(R)
    BY OnTheirWayFinite
  <2>2. IsFiniteSet(R')
    <3>1. IsFiniteSet(Threads)
      BY ThreadsFinite, FS_Union
    <3>. QED  BY <3>1, FS_Subset DEF OnTheirWay
  <2>. QED  BY <2>1, <2>2
<1>t. /\ ThreadsTyped
      /\ queue \in Seq(Messages) /\ Len(queue) \in Nat
  BY ThreadTypes, LenProperties DEF TypeInv, TypeOK
<1>n. notEmpty # {} => ~closed /\ Len(queue) <= Cardinality(R)
  BY DEF NoStrandedReceiver
<1>. HIDE DEF R
<1>1. ASSUME NEW t \in Threads, SendPush(t)
      PROVE  ~closed' /\ Len(queue') <= Cardinality(R')
  <2>1. PICK w \in notEmpty : notEmpty' = notEmpty \ {w}
    BY <1>1 DEF SendPush, Woken
  <2>2. Len(queue') = Len(queue) + 1 /\ closed' = closed
    BY <1>1, <1>t, MessageSent, AppendProperties DEF SendPush
  <2>3. w \notin R /\ R \cup {w} \subseteq R'
    BY <1>1, <1>t, <2>1
       DEF R, OnTheirWay, SendPush, Holds, Return, SleepersWait
  <2>. QED  BY <1>n, <1>t, <1>f, <2>1, <2>2, <2>3, CountGainsOne
<1>2. ASSUME NEW t \in Threads, RecvPop(t)
      PROVE  ~closed' /\ Len(queue') <= Cardinality(R')
  <2>1. notEmpty' = notEmpty /\ closed' = closed
    BY <1>2 DEF RecvPop, PopFront
  <2>2. queue # <<>> /\ queue' = Tail(queue)
    BY <1>2 DEF RecvPop, PopFront
  <2>3. Len(queue') = Len(queue) - 1
    BY <1>t, <2>2, HeadTailProperties
  <2>4. R \ {t} \subseteq R'
    BY <1>2, <1>t, <2>1 DEF R, OnTheirWay, RecvPop, Holds, Return
  <2>5. Cardinality(R) \in Nat /\ Cardinality(R) - 1 <= Cardinality(R')
        /\ Cardinality(R') \in Nat
    BY <1>f, <2>4, CountLosesOne
  <2>. QED  BY <1>n, <1>t, <2>1, <2>3, <2>5
<1>3. ASSUME NEW t \in Threads, RecvWait(t)
      PROVE  ~closed' /\ Len(queue') <= Cardinality(R')
  <2>1. queue = <<>> /\ ~closed /\ queue' = queue /\ closed' = closed
    BY <1>3 DEF RecvWait, state
  <2>2. Cardinality(R') \in Nat /\ Len(queue') = 0
    BY <1>f, <2>1, FS_CardinalityType, EmptySeq
  <2>. QED  BY <2>1, <2>2
<1>4. ASSUME NEW t \in Threads, RecvEnd(t) PROVE FALSE
  BY <1>4, <1>n DEF RecvEnd
<1>5. ASSUME NEW t \in Threads, DropTx(t)
      PROVE  ~closed' /\ Len(queue') <= Cardinality(R')
  <2>1. senders' # 0
    BY <1>5, Zenon DEF DropTx
  <2>2. notEmpty' = notEmpty /\ closed' = closed
    BY <1>5, <2>1, Zenon DEF DropTx
  <2>3. queue' = queue
    BY <1>5 DEF DropTx
  <2>4. R \subseteq R'
    BY <1>5, <1>t, <2>2 DEF R, OnTheirWay, DropTx, Holds, Return
  <2>. QED  BY <1>n, <1>t, <1>f, <2>2, <2>3, <2>4, CountGrows
<1>6. ASSUME NEW t \in Threads, DropRx(t) PROVE FALSE
  <2>1. PICK c \in notEmpty : c \in Consumers /\ op[c] = "recv" /\ pc[c] = "wait"
    BY <1>6, <1>t DEF DropRx, SleepersWait
  <2>2. t \in Consumers /\ op[t] = "dropRx"
    BY <1>6, <1>t DEF DropRx, Holds
  <2>. QED  BY <2>1, <2>2 DEF HandleInv, ReceiverHandle
<1>7. ASSUME QuietForReceivers
      PROVE  ~closed' /\ Len(queue') <= Cardinality(R')
  <2>1. R \subseteq R' /\ queue' = queue /\ closed' = closed /\ notEmpty # {}
    BY <1>7 DEF QuietForReceivers, R
  <2>. QED  BY <1>n, <1>t, <1>f, <2>1, CountGrows
<1>8. ~closed' /\ Len(queue') <= Cardinality(R')
  BY <1>1, <1>2, <1>3, <1>4, <1>5, <1>6, <1>7, ReceiverStep
<1>. QED  BY <1>8 DEF R

LEMMA NextNoStrandedSender ==
    ASSUME TypeInv, HandleInv, SleepersWait, NoStrandedSender, [Next]_vars,
           notFull' # {}
    PROVE  /\ ~closed'
           /\ Capacity - Len(queue')
                <= Cardinality(OnTheirWay("send", notFull)')
<1>. DEFINE S == OnTheirWay("send", notFull)
<1>. USE ThreadsDisjoint
<1>f. IsFiniteSet(S) /\ IsFiniteSet(S')
  <2>1. IsFiniteSet(S)
    BY OnTheirWayFinite
  <2>2. IsFiniteSet(S')
    <3>1. IsFiniteSet(Threads)
      BY ThreadsFinite, FS_Union
    <3>. QED  BY <3>1, FS_Subset DEF OnTheirWay
  <2>. QED  BY <2>1, <2>2
<1>t. /\ ThreadsTyped
      /\ queue \in Seq(Messages) /\ Len(queue) \in Nat
  BY ThreadTypes, LenProperties DEF TypeInv, TypeOK
<1>n. notFull # {} => ~closed /\ Capacity - Len(queue) <= Cardinality(S)
  BY DEF NoStrandedSender
<1>c. Capacity \in Int
  BY CapacityIsBound
<1>. HIDE DEF S
<1>1. ASSUME NEW t \in Threads, SendPush(t)
      PROVE  ~closed' /\ Capacity - Len(queue') <= Cardinality(S')
  <2>1. notFull' = notFull /\ closed' = closed
    BY <1>1 DEF SendPush
  <2>2. Len(queue') = Len(queue) + 1
    BY <1>1, <1>t, MessageSent, AppendProperties DEF SendPush
  <2>3. S \ {t} \subseteq S'
    BY <1>1, <1>t, <2>1 DEF S, OnTheirWay, SendPush, Holds, Return
  <2>4. Cardinality(S) \in Nat /\ Cardinality(S) - 1 <= Cardinality(S')
        /\ Cardinality(S') \in Nat
    BY <1>f, <2>3, CountLosesOne
  <2>. QED  BY <1>n, <1>t, <1>c, <2>1, <2>2, <2>4
<1>2. ASSUME NEW t \in Threads, RecvPop(t)
      PROVE  ~closed' /\ Capacity - Len(queue') <= Cardinality(S')
  <2>1. notFull # {} /\ Capacity >= 0
    <3>1. Woken(notFull, notFull') \/ notFull' = notFull
      BY <1>2 DEF RecvPop, PopFront
    <3>2. notFull # {}
      BY <3>1 DEF Woken
    <3>. QED  BY <3>2 DEF SleepersWait
  <2>2. PICK w \in notFull : notFull' = notFull \ {w}
    BY <1>2, <2>1 DEF RecvPop, PopFront, Woken
  <2>3. queue # <<>> /\ queue' = Tail(queue) /\ closed' = closed
    BY <1>2 DEF RecvPop, PopFront
  <2>4. Len(queue') = Len(queue) - 1
    BY <1>t, <2>3, HeadTailProperties
  <2>5. w \notin S /\ S \cup {w} \subseteq S'
    BY <1>2, <1>t, <2>2
       DEF S, OnTheirWay, RecvPop, Holds, Return, SleepersWait
  <2>. QED
    BY <1>n, <1>t, <1>f, <1>c, <2>1, <2>3, <2>4, <2>5, CountGainsOne
<1>3. ASSUME NEW t \in Threads, SendWait(t)
      PROVE  ~closed' /\ Capacity - Len(queue') <= Cardinality(S')
  <2>1. Len(queue) >= Capacity /\ ~closed /\ queue' = queue /\ closed' = closed
    BY <1>3 DEF SendWait, state, Full
  <2>2. Cardinality(S') \in Nat
    BY <1>f, FS_CardinalityType
  <2>. QED  BY <1>t, <1>c, <2>1, <2>2
<1>4. ASSUME NEW t \in Threads, SendRefuse(t) PROVE FALSE
  BY <1>4, <1>n DEF SendRefuse
<1>5. ASSUME NEW t \in Threads, DropTx(t)
      PROVE  ~closed' /\ Capacity - Len(queue') <= Cardinality(S')
  <2>1. notFull' = notFull /\ queue' = queue
    BY <1>5 DEF DropTx
  <2>2. PICK p \in notFull : p \in Producers /\ op[p] = "send" /\ pc[p] = "wait"
    BY <1>t, <2>1 DEF SleepersWait
  <2>3. senders' # 0
    <3>1. p \in Owners /\ t \in Owners /\ p # t
      BY <1>5, <1>t, <2>2, OwnsInside DEF DropTx, Holds
    <3>2. Cardinality(Owners \ {t}) # 0
      BY <3>1, OwnersFinite, FS_RemoveElement, FS_EmptySet
    <3>3. Cardinality(Owners \ {t}) = Cardinality(Owners) - 1
      BY <3>1, OwnersFinite, FS_RemoveElement
    <3>. QED  BY <1>5, <3>2, <3>3 DEF DropTx, HandleInv, SendersCounted
  <2>4. closed' = closed
    BY <1>5, <2>3, Zenon DEF DropTx
  <2>5. S \subseteq S'
    BY <1>5, <1>t, <2>1 DEF S, OnTheirWay, DropTx, Holds, Return
  <2>. QED  BY <1>n, <1>t, <1>f, <1>c, <2>1, <2>4, <2>5, CountGrows
<1>6. ASSUME NEW t \in Threads, DropRx(t) PROVE FALSE
  <2>1. receivers' = 0
    BY <1>6, <1>t DEF DropRx, Holds, HandleInv, ReceiverHandle
  <2>. QED  BY <1>6, <2>1, Zenon DEF DropRx
<1>7. ASSUME QuietForSenders
      PROVE  ~closed' /\ Capacity - Len(queue') <= Cardinality(S')
  <2>1. S \subseteq S' /\ queue' = queue /\ closed' = closed /\ notFull # {}
    BY <1>7 DEF QuietForSenders, S
  <2>. QED  BY <1>n, <1>t, <1>f, <1>c, <2>1, CountGrows
<1>8. ~closed' /\ Capacity - Len(queue') <= Cardinality(S')
  BY <1>1, <1>2, <1>3, <1>4, <1>5, <1>6, <1>7, SenderStep
<1>. QED  BY <1>8 DEF S

\* A receiver asleep in recv is never forgotten: the channel is open and each
\* queued message has a woken receiver that has not looked yet.
THEOREM NoReceiverStranded == Spec => []NoStrandedReceiver
<1>1. Init => NoStrandedReceiver
  BY DEF Init, NoStrandedReceiver
<1>2. TypeInv /\ HandleInv /\ SleepersWait /\ NoStrandedReceiver /\ [Next]_vars
        => NoStrandedReceiver'
  BY NextNoStrandedReceiver DEF NoStrandedReceiver
<1>. QED
  BY <1>1, <1>2, TypeInvariant, HandleInvariant, SleepersInvariant,
     PTL DEF Spec

\* A sender asleep in send is never forgotten: the channel is open and each
\* free place has a woken sender that has not looked yet.
THEOREM NoSenderStranded == Spec => []NoStrandedSender
<1>1. Init => NoStrandedSender
  BY DEF Init, NoStrandedSender
<1>2. TypeInv /\ HandleInv /\ SleepersWait /\ NoStrandedSender /\ [Next]_vars
        => NoStrandedSender'
  BY NextNoStrandedSender DEF NoStrandedSender
<1>. QED
  BY <1>1, <1>2, TypeInvariant, HandleInvariant, SleepersInvariant,
     PTL DEF Spec

------------------------------------------------------------------------------
(* Channel implements ChannelSpec: every step of the threads is one of the  *)
(* abstract channel's atomic actions, or none of its business.             *)

RefInv == TypeInv /\ MutexInv /\ HandleInv /\ AdmittedOpen

LEMMA RefInvariant == Spec => []RefInv
BY TypeInvariant, MutexInvariant, HandleInvariant, AdmittedInvariant, PTL
   DEF RefInv

\* The closed flag means what the abstract channel derives from the handles.
LEMMA AbstractClosed ==
    ASSUME TypeInv, HandleInv
    PROVE  Abstract!closed <=> closed
<1>1. Owners = {} <=> senders = 0
  BY OwnersFinite DEF HandleInv, SendersCounted
<1>. QED
  BY <1>1 DEF Abstract!closed, HandleInv, ClosedIffAbandoned

LEMMA AbstractRoom ==
    ASSUME TypeInv
    PROVE  Abstract!room <=> ~Full
<1>1. Len(queue) \in Nat
  BY LenProperties DEF TypeInv, TypeOK
<1>. QED  BY <1>1, CapacityIsBound DEF Abstract!room, Full

LEMMA InitRefines == Init => Abstract!Init
<1>. SUFFICES ASSUME Init PROVE Abstract!Init
  OBVIOUS
<1>1. PICK p \in Producers :
        handle = [q \in Producers |-> IF q = p THEN "live" ELSE "fresh"]
  BY DEF Init
<1>2. Owners = {p}
  BY <1>1 DEF Owners
<1>3. Parked = {}
  BY DEF Init, Parked
<1>4. (receivers # 0) = TRUE
  BY DEF Init
<1>5. queue = <<>> /\ reply = [t \in Producers \cup Consumers |-> NoReply]
  BY DEF Init
<1>. QED
  BY <1>2, <1>3, <1>4, <1>5 DEF Abstract!Init, Abstract!NoReply, NoReply

\* A step that the abstract channel does not see.
Hidden ==
    /\ UNCHANGED <<queue, receivers, reply>>
    /\ Owners' = Owners
    /\ Parked' = Parked

LEMMA HiddenStutters == Hidden => UNCHANGED Abstract!vars
BY DEF Hidden, Abstract!vars

LEMMA VisibleStep ==
    ASSUME RefInv, [Next]_vars
    PROVE  \/ \E t \in Threads :
                \/ SendPush(t) \/ SendWait(t) \/ SendRefuse(t)
                \/ RecvPop(t) \/ RecvEnd(t) \/ TryRecvNothing(t)
                \/ CloneTx(t) \/ DropTx(t) \/ DropRx(t)
           \/ Hidden
<1>. USE ThreadsDisjoint DEF Hidden, Owners, Parked, state, hist, RefInv
<1>t. ThreadsTyped
  BY ThreadTypes
<1>1. ASSUME NEW p \in Producers, SendCall(p) PROVE Hidden
  BY <1>1, <1>t DEF SendCall, Call
<1>2. ASSUME NEW p \in Producers, CloneCall(p) PROVE Hidden
  BY <1>2, <1>t DEF CloneCall, Call
<1>3. ASSUME NEW p \in Producers, DropTxCall(p) PROVE Hidden
  BY <1>3, <1>t DEF DropTxCall, Call
<1>4. ASSUME NEW c \in Consumers, RecvCall(c) PROVE Hidden
  BY <1>4, <1>t DEF RecvCall, Call, RxGone
<1>5. ASSUME NEW c \in Consumers, DropRxCall(c) PROVE Hidden
  BY <1>5, <1>t DEF DropRxCall, Call, RxGone
<1>6. ASSUME NEW t \in Threads, Lock(t) PROVE Hidden
  BY <1>6, <1>t DEF Lock
<1>7. ASSUME NEW t \in Threads, Relock(t) PROVE Hidden
  BY <1>7, <1>t DEF Relock
<1>8. ASSUME NEW t \in Threads, Unlock(t) PROVE Hidden
  BY <1>8, <1>t DEF Unlock
<1>9. ASSUME NEW t \in Threads, SpuriousWakeup(t) PROVE Hidden
  BY <1>9, <1>t DEF SpuriousWakeup
<1>10. ASSUME NEW t \in Threads, SendEnter(t) PROVE Hidden
  BY <1>10, <1>t DEF SendEnter, Holds
<1>11. ASSUME NEW t \in Threads, RecvWait(t) PROVE Hidden
  BY <1>11, <1>t DEF RecvWait, Holds
<1>12. CASE Freed
  BY <1>12 DEF Freed, vars
<1>13. CASE UNCHANGED vars
  BY <1>13 DEF vars
<1>. QED
  BY <1>1, <1>2, <1>3, <1>4, <1>5, <1>6, <1>7, <1>8, <1>9, <1>10, <1>11,
     <1>12, <1>13 DEF Next, Run

------------------------------------------------------------------------------
(* What each visible step is to the abstract channel.                      *)

LEMMA PushSends ==
    ASSUME RefInv, NEW t \in Threads, SendPush(t)
    PROVE  t \in Producers /\ \E m \in Messages : Abstract!Send(t, m)
<1>. USE ThreadsDisjoint DEF RefInv
<1>t. ThreadsTyped
  BY ThreadTypes
<1>1. t \in Producers /\ <<t, sent[t]>> \in Messages
  BY MessageSent DEF SendPush
<1>2. t \in Owners
  BY <1>1, OwnsInside DEF SendPush, Holds
<1>3. closed => t \in Parked
  BY <1>1 DEF SendPush, Holds, AdmittedOpen, Parked
<1>4. Abstract!closed => t \in Parked
  BY <1>3, AbstractClosed
<1>5. Abstract!room
  BY AbstractRoom DEF SendPush
<1>6. /\ queue' = Append(queue, <<t, sent[t]>>)
      /\ reply' = [reply EXCEPT ![t] = Accepted]
      /\ Owners' = Owners /\ (receivers # 0)' = (receivers # 0)
  BY DEF SendPush, Owners
<1>7. Parked' = Parked \ {t}
  BY <1>t, <1>1 DEF SendPush, Holds, Return, Parked
<1>. QED
  BY <1>1, <1>2, <1>4, <1>5, <1>6, <1>7
     DEF Abstract!Send, Abstract!SameHandles, Abstract!Accepted, Accepted

LEMMA WaitParks ==
    ASSUME RefInv, NEW t \in Threads, SendWait(t)
    PROVE  t \in Producers /\ (Abstract!Park(t) \/ Hidden)
<1>. USE ThreadsDisjoint DEF RefInv
<1>t. ThreadsTyped
  BY ThreadTypes
<1>1. t \in Producers /\ t \in Owners
  BY <1>t, OwnsInside DEF SendWait, Holds
<1>2. ~Abstract!closed /\ ~Abstract!room
  BY AbstractClosed, AbstractRoom DEF SendWait
<1>3. /\ queue' = queue /\ reply' = reply /\ receivers' = receivers
      /\ Owners' = Owners /\ (receivers # 0)' = (receivers # 0)
  BY DEF SendWait, Owners, state
<1>4. Parked' = Parked \cup {t}
  BY <1>t, <1>1 DEF SendWait, Holds, Parked
<1>. QED
  BY <1>1, <1>2, <1>3, <1>4 DEF Abstract!Park, Abstract!SameHandles

LEMMA RefuseRefuses ==
    ASSUME RefInv, NEW t \in Threads, SendRefuse(t)
    PROVE  t \in Producers /\ Abstract!Refuse(t)
<1>. USE ThreadsDisjoint DEF RefInv
<1>t. ThreadsTyped
  BY ThreadTypes
<1>1. t \in Producers /\ t \in Owners
  BY <1>t, OwnsInside DEF SendRefuse, Holds
<1>2. Abstract!closed
  BY AbstractClosed DEF SendRefuse
<1>3. t \in Parked => ~Abstract!room
  BY AbstractRoom DEF SendRefuse, Holds, Parked
<1>4. /\ queue' = queue /\ reply' = [reply EXCEPT ![t] = Refused]
      /\ Owners' = Owners /\ (receivers # 0)' = (receivers # 0)
  BY DEF SendRefuse, Owners, state
<1>5. Parked' = Parked \ {t}
  BY <1>t, <1>1 DEF SendRefuse, Holds, Return, Parked
<1>. QED
  BY <1>1, <1>2, <1>3, <1>4, <1>5
     DEF Abstract!Refuse, Abstract!SameHandles, Abstract!Refused, Refused

LEMMA PopReceives ==
    ASSUME RefInv, NEW t \in Threads, RecvPop(t)
    PROVE  t \in Consumers /\ Abstract!Recv(t)
<1>. USE ThreadsDisjoint DEF RefInv
<1>t. ThreadsTyped
  BY ThreadTypes
<1>1. t \in Consumers /\ op[t] # "dropRx" /\ pc[t] # "idle"
  BY <1>t DEF RecvPop, Holds
<1>2. (receivers # 0) = TRUE
  BY <1>1 DEF HandleInv, ReceiverHandle
<1>3. /\ queue # <<>> /\ queue' = Tail(queue)
      /\ reply' = [reply EXCEPT ![t] = Got(Head(queue))]
      /\ Owners' = Owners /\ (receivers # 0)' = (receivers # 0)
  BY DEF RecvPop, PopFront, Owners
<1>4. Parked' = Parked
  BY <1>t, <1>1 DEF RecvPop, Return, Parked
<1>. QED
  BY <1>1, <1>2, <1>3, <1>4
     DEF Abstract!Recv, Abstract!SameHandles, Abstract!Got, Got

LEMMA EndEnds ==
    ASSUME RefInv, NEW t \in Threads, RecvEnd(t)
    PROVE  t \in Consumers /\ Abstract!RecvEnd(t)
<1>. USE ThreadsDisjoint DEF RefInv
<1>t. ThreadsTyped
  BY ThreadTypes
<1>1. t \in Consumers /\ op[t] # "dropRx" /\ pc[t] # "idle"
  BY <1>t DEF RecvEnd, Holds
<1>2. receivers = 1 /\ (receivers # 0) = TRUE
  BY <1>1 DEF HandleInv, ReceiverHandle
<1>3. Owners = {}
  BY <1>2, OwnersFinite
     DEF RecvEnd, HandleInv, ClosedIffAbandoned, SendersCounted
<1>4. /\ queue = <<>> /\ queue' = queue
      /\ reply' = [reply EXCEPT ![t] = Ended]
      /\ Owners' = Owners /\ (receivers # 0)' = (receivers # 0)
  BY DEF RecvEnd, Owners, state
<1>5. Parked' = Parked
  BY <1>t, <1>1 DEF RecvEnd, Return, Parked
<1>. QED
  BY <1>1, <1>2, <1>3, <1>4, <1>5
     DEF Abstract!RecvEnd, Abstract!SameHandles, Abstract!Ended, Ended

LEMMA NothingIsNothing ==
    ASSUME RefInv, NEW t \in Threads, TryRecvNothing(t)
    PROVE  t \in Consumers /\ Abstract!RecvNothing(t)
<1>. USE ThreadsDisjoint DEF RefInv
<1>t. ThreadsTyped
  BY ThreadTypes
<1>1. t \in Consumers /\ op[t] # "dropRx" /\ pc[t] # "idle"
  BY <1>t DEF TryRecvNothing, Holds
<1>2. (receivers # 0) = TRUE
  BY <1>1 DEF HandleInv, ReceiverHandle
<1>3. Owners # {}
  BY OwnersFinite
     DEF TryRecvNothing, HandleInv, ClosedIffAbandoned, SendersCounted
<1>4. /\ queue = <<>> /\ queue' = queue
      /\ reply' = [reply EXCEPT ![t] = NothingYet]
      /\ Owners' = Owners /\ (receivers # 0)' = (receivers # 0)
  BY DEF TryRecvNothing, Owners, state
<1>5. Parked' = Parked
  BY <1>t, <1>1 DEF TryRecvNothing, Return, Parked
<1>. QED
  BY <1>1, <1>2, <1>3, <1>4, <1>5
     DEF Abstract!RecvNothing, Abstract!SameHandles, Abstract!NothingYet,
         NothingYet

LEMMA CloneClones ==
    ASSUME RefInv, NEW t \in Threads, CloneTx(t)
    PROVE  t \in Producers /\ \E q \in Producers : Abstract!CloneTx(t, q)
<1>. USE ThreadsDisjoint DEF RefInv
<1>t. ThreadsTyped
  BY ThreadTypes
<1>1. t \in Producers /\ t \in Owners
  BY <1>t, OwnsInside DEF CloneTx, Holds
<1>2. PICK q \in Producers :
        handle[q] = "cloning" /\ handle' = [handle EXCEPT ![q] = "live"]
  BY DEF CloneTx
<1>3. Owners' = Owners \cup {q} /\ q \notin Owners
  BY <1>2, <1>t DEF Owners
<1>4. queue' = queue /\ reply' = reply /\ (receivers # 0)' = (receivers # 0)
  BY DEF CloneTx
<1>5. Parked' = Parked
  BY <1>t, <1>1 DEF CloneTx, Holds, Return, Parked
<1>. QED
  BY <1>1, <1>3, <1>4, <1>5 DEF Abstract!CloneTx

LEMMA DropTxDrops ==
    ASSUME RefInv, NEW t \in Threads, DropTx(t)
    PROVE  t \in Producers /\ Abstract!DropTx(t)
<1>. USE ThreadsDisjoint DEF RefInv
<1>t. ThreadsTyped
  BY ThreadTypes
<1>1. t \in Producers /\ t \in Owners /\ t \notin Parked
  BY <1>t, OwnsInside DEF DropTx, Holds, Parked
<1>2. Owners' = Owners \ {t}
  BY <1>1, <1>t DEF DropTx, Owners
<1>3. queue' = queue /\ reply' = reply /\ (receivers # 0)' = (receivers # 0)
  BY DEF DropTx
<1>4. Parked' = Parked
  BY <1>t, <1>1 DEF DropTx, Holds, Return, Parked
<1>. QED
  BY <1>1, <1>2, <1>3, <1>4 DEF Abstract!DropTx

LEMMA DropRxDrops ==
    ASSUME RefInv, NEW t \in Threads, DropRx(t)
    PROVE  Abstract!DropRx
<1>. USE ThreadsDisjoint DEF RefInv
<1>t. ThreadsTyped
  BY ThreadTypes
<1>1. t \in Consumers /\ receivers = 1 /\ receivers' = 0
  BY <1>t DEF DropRx, Holds, HandleInv, ReceiverHandle
<1>2. (receivers # 0) = TRUE /\ (receivers # 0)' = FALSE
  BY <1>1
<1>3. queue' = queue /\ reply' = reply /\ Owners' = Owners
  BY DEF DropRx, Owners
<1>4. Parked' = Parked
  BY <1>t, <1>1 DEF DropRx, Holds, Return, Parked
<1>. QED
  BY <1>2, <1>3, <1>4 DEF Abstract!DropRx

------------------------------------------------------------------------------
LEMMA StepRefines == RefInv /\ [Next]_vars => [Abstract!Next]_Abstract!vars
<1>. SUFFICES ASSUME RefInv, [Next]_vars
              PROVE  [Abstract!Next]_Abstract!vars
  OBVIOUS
<1>1. ASSUME NEW t \in Threads,
             \/ SendPush(t) \/ SendWait(t) \/ SendRefuse(t)
             \/ RecvPop(t) \/ RecvEnd(t) \/ TryRecvNothing(t)
             \/ CloneTx(t) \/ DropTx(t) \/ DropRx(t)
      PROVE  Abstract!Next \/ Hidden
  <2>1. CASE SendPush(t)
    BY <2>1, PushSends DEF Abstract!Next
  <2>2. CASE SendWait(t)
    BY <2>2, WaitParks DEF Abstract!Next
  <2>3. CASE SendRefuse(t)
    BY <2>3, RefuseRefuses DEF Abstract!Next
  <2>4. CASE RecvPop(t)
    BY <2>4, PopReceives DEF Abstract!Next
  <2>5. CASE RecvEnd(t)
    BY <2>5, EndEnds DEF Abstract!Next
  <2>6. CASE TryRecvNothing(t)
    BY <2>6, NothingIsNothing DEF Abstract!Next
  <2>7. CASE CloneTx(t)
    BY <2>7, CloneClones DEF Abstract!Next
  <2>8. CASE DropTx(t)
    BY <2>8, DropTxDrops DEF Abstract!Next
  <2>9. CASE DropRx(t)
    BY <2>9, DropRxDrops DEF Abstract!Next
  <2>. QED
    BY <1>1, <2>1, <2>2, <2>3, <2>4, <2>5, <2>6, <2>7, <2>8, <2>9
<1>2. Abstract!Next \/ Hidden
  BY <1>1, VisibleStep
<1>. QED  BY <1>2, HiddenStutters

\* The channel of lib/std implements the abstract FIFO channel: whatever its
\* threads do, what callers see is one atomic send, receive, clone, drop or
\* close at a time, with the answers ChannelSpec allows.
THEOREM Refinement == Spec => Implements
<1>1. Spec => Abstract!Init /\ [][Abstract!Next]_Abstract!vars
  BY InitRefines, StepRefines, RefInvariant, PTL DEF Spec
<1>. QED  BY <1>1 DEF Implements, Abstract!Spec
==============================================================================
