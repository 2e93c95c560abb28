-------------------------- MODULE SoulBridge_proofs -------------------------
(***************************************************************************)
(* Proofs about SoulBridge, for every number of events and replies, every  *)
(* queue capacity, every poll limit and every number of restarts.          *)
(***************************************************************************)
EXTENDS SoulBridge, SequenceTheorems, FiniteSetTheorems, TLAPS

----------------------------------------------------------------------------
(* Facts about queues without repetition.                                  *)

\* An empty queue holds nothing.
LEMMA EmptyQueue == Range(<<>>) = {} /\ IsInjective(<<>>)
BY DEF Range, IsInjective

\* push_back adds its argument to the elements of a queue, and keeps them
\* distinct if the queue did not hold it.
LEMMA AppendQueue ==
    ASSUME NEW S, NEW s \in Seq(S), NEW e \in S
    PROVE  /\ Append(s, e) \in Seq(S)
           /\ Range(Append(s, e)) = Range(s) \cup {e}
           /\ IsInjective(s) /\ e \notin Range(s) => IsInjective(Append(s, e))
<1>1. /\ Append(s, e) \in Seq(S)
      /\ DOMAIN s = 1 .. Len(s)
      /\ DOMAIN Append(s, e) = 1 .. Len(s) + 1
      /\ Len(s) \in Nat
      /\ \A i \in 1 .. Len(s) : Append(s, e)[i] = s[i]
      /\ Append(s, e)[Len(s) + 1] = e
  BY AppendProperties, LenProperties
<1>2. Range(Append(s, e)) = Range(s) \cup {e}
  BY <1>1 DEF Range
<1>3. IsInjective(s) /\ e \notin Range(s) => IsInjective(Append(s, e))
  BY <1>1 DEF Range, IsInjective
<1> QED BY <1>1, <1>2, <1>3

\* pop_front removes the head, and only the head, of a queue without
\* repetition.
LEMMA PopQueue ==
    ASSUME NEW S, NEW s \in Seq(S), s # <<>>, IsInjective(s)
    PROVE  /\ Head(s) \in S /\ Head(s) \in Range(s)
           /\ Tail(s) \in Seq(S)
           /\ Range(Tail(s)) = Range(s) \ {Head(s)}
           /\ IsInjective(Tail(s))
<1>1. /\ Head(s) \in S /\ Tail(s) \in Seq(S)
      /\ DOMAIN s = 1 .. Len(s)
      /\ DOMAIN Tail(s) = 1 .. Len(s) - 1
      /\ Len(s) \in Nat /\ Len(s) > 0
      /\ \A i \in 1 .. Len(s) - 1 : Tail(s)[i] = s[i + 1]
      /\ Head(s) = s[1]
  BY HeadTailProperties, LenProperties, EmptySeq
<1>2. Range(Tail(s)) \subseteq Range(s) \ {Head(s)}
  BY <1>1 DEF Range, IsInjective
<1>3. ASSUME NEW x \in Range(s) \ {Head(s)} PROVE x \in Range(Tail(s))
  <2>1. PICK i \in 1 .. Len(s) : s[i] = x
    BY <1>1, <1>3 DEF Range
  <2>2. i # 1 /\ i - 1 \in 1 .. Len(s) - 1
    BY <1>1, <1>3, <2>1
  <2>3. Tail(s)[i - 1] = x
    BY <1>1, <2>1, <2>2
  <2> QED BY <1>1, <2>2, <2>3 DEF Range
<1>4. IsInjective(Tail(s))
  BY <1>1 DEF IsInjective
<1> QED BY <1>1, <1>2, <1>3, <1>4 DEF Range

----------------------------------------------------------------------------
(* Type correctness.                                                       *)

\* Every variable keeps its type and the event queue its bound, whatever the
\* threads, the network, the service and the players do.
LEMMA TypeInit == Init => TypeOK
BY BridgeAssumption DEF Init, TypeOK, Events, Replies, NoEvent, NoReply

LEMMA TypeStep == TypeOK /\ PhaseOK /\ [Next]_vars => TypeOK'
<1> SUFFICES ASSUME TypeOK, PhaseOK, [Next]_vars PROVE TypeOK'
  OBVIOUS
<1> USE DEF TypeOK, PhaseOK, serviceVars, processVars, eventVars, replyVars,
            queueVars, ackVars, worldVars
<1>1. CASE Enqueue
  <2>1. produced + 1 \in Events
    BY <1>1, BridgeAssumption DEF Enqueue, Events
  <2>2. events' \in Seq(Events) /\ Len(events') <= Capacity
    <3>1. CASE events' = Append(events, produced + 1) /\ Len(events) < Capacity
      BY <2>1, <3>1, BridgeAssumption
    <3>2. CASE UNCHANGED events
      BY <3>2
    <3> QED BY <1>1, <3>1, <3>2 DEF Enqueue
  <2>3. dropped' \in 0 .. NumEvents /\ produced' \in 0 .. NumEvents
    BY <1>1, BridgeAssumption DEF Enqueue
  <2> QED BY <1>1, <2>2, <2>3 DEF Enqueue
<1>2. CASE TakeReply
  <2>1. Head(replies) \in Replies /\ Tail(replies) \in Seq(Replies)
    BY <1>2 DEF TakeReply
  <2> QED BY <1>2, <2>1 DEF TakeReply
<1>3. CASE Speak
  BY <1>3 DEF Speak
<1>4. CASE GiveUp
  BY <1>4 DEF GiveUp
<1>5. CASE QueueAcknowledgement
  <2>1. hand \in Replies
    BY <1>5 DEF QueueAcknowledgement
  <2>2. acknowledgements' \in Seq(Replies)
    BY <1>5, <2>1 DEF QueueAcknowledgement
  <2> QED BY <1>5, <2>2 DEF QueueAcknowledgement
<1>6. CASE TakeEvent
  <2>1. CASE events = <<>>
    BY <1>6, <2>1 DEF TakeEvent
  <2>2. CASE events # <<>>
    <3>1. Head(events) \in Events /\ Tail(events) \in Seq(Events)
      BY <2>2
    <3>2. Len(Tail(events)) <= Capacity
      BY <2>2, BridgeAssumption
    <3> QED BY <1>6, <2>2, <3>1, <3>2 DEF TakeEvent
  <2> QED BY <2>1, <2>2
<1>7. CASE PostEvent
  BY <1>7 DEF PostEvent
<1>8. CASE SwapAcknowledgements
  BY <1>8 DEF SwapAcknowledgements
<1>9. CASE AckAnswered
  BY <1>9 DEF AckAnswered, Acknowledge
<1>10. CASE AckUnanswered
  <2>1. Head(batch) \in Replies /\ batch' \in Seq(Replies)
    BY <1>10 DEF AckUnanswered
  <2>2. acknowledgements' \in Seq(Replies)
    BY <1>10, <2>1 DEF AckUnanswered
  <2>3. acked' \in SUBSET Replies /\ lateAcks' \in SUBSET Replies
    BY <1>10, <2>1 DEF AckUnanswered, Acknowledge
  <2> QED BY <1>10, <2>1, <2>2, <2>3 DEF AckUnanswered
<1>11. ASSUME NEW n \in 0 .. PollLimit, Poll(n) PROVE TypeOK'
  <2>1. polled' \subseteq 1 .. published
    BY <1>11 DEF Poll, Oldest, Pending, Rows
  <2>2. 1 .. published \subseteq Replies
    BY BridgeAssumption DEF Replies
  <2> QED BY <1>11, <2>1, <2>2 DEF Poll
<1>12. CASE ParseReply
  <2>1. PICK r \in polled :
            /\ polled' = polled \ {r}
            /\ \/ UNCHANGED <<pendingReplyIds, replies>>
               \/ /\ pendingReplyIds' = pendingReplyIds \cup {r}
                  /\ replies' = Append(replies, r)
    BY <1>12 DEF ParseReply
  <2>2. replies' \in Seq(Replies)
    <3>1. CASE UNCHANGED replies
      BY <3>1
    <3>2. CASE replies' = Append(replies, r)
      <4>1. r \in Replies
        OBVIOUS
      <4> QED BY <3>2, <4>1
    <3> QED BY <2>1, <3>1, <3>2
  <2>3. polled' \in SUBSET Replies /\ pendingReplyIds' \in SUBSET Replies
    BY <2>1
  <2> QED BY <1>12, <2>2, <2>3 DEF ParseReply
<1>13. CASE ParseDone
  BY <1>13 DEF ParseDone
<1>14. CASE EndProcess
  <2>1. /\ <<>> \in Seq(Events) /\ <<>> \in Seq(Replies)
        /\ Len(<<>>) <= Capacity
        /\ 0 \in 0 .. NumEvents
    BY BridgeAssumption
  <2>2. [r \in Replies |-> 0] \in [Replies -> Nat]
    OBVIOUS
  <2> QED BY <1>14, <2>1, <2>2 DEF EndProcess
<1>15. CASE Stop
  BY <1>15 DEF Stop
<1>16. CASE Start
  BY <1>16, BridgeAssumption DEF Start
<1>17. CASE Publish
  <2>1. published' \in 0 .. NumReplies
    BY <1>17, BridgeAssumption DEF Publish
  <2>2. pruned' \in SUBSET Replies
    BY <1>17 DEF Publish
  <2> QED BY <1>17, <2>1, <2>2 DEF Publish
<1>18. ASSUME NEW r \in Replies, Expire(r) PROVE TypeOK'
  BY <1>18 DEF Expire
<1>19. ASSUME NEW r \in Replies, LateAck(r) PROVE TypeOK'
  BY <1>19 DEF LateAck, Acknowledge
<1>20. ASSUME NEW r \in Replies, Roam(r) PROVE TypeOK'
  BY <1>20 DEF Roam
<1>21. CASE UNCHANGED vars
  BY <1>21 DEF vars
<1> QED
  BY <1>1, <1>2, <1>3, <1>4, <1>5, <1>6, <1>7, <1>8, <1>9, <1>10, <1>11,
     <1>12, <1>13, <1>14, <1>15, <1>16, <1>17, <1>18, <1>19, <1>20, <1>21
     DEF Next, World, Worker, Process, Service, Players, WorkerExit, Crash

----------------------------------------------------------------------------
(* The inductive invariant.                                                *)

\* Initially nothing is held, created or spoken.
LEMMA InvInit == Init => IInv
<1> SUFFICES ASSUME Init PROVE IInv
  OBVIOUS
<1>1. TypeOK
  BY TypeInit
<1>2. PhaseOK
  BY BridgeAssumption DEF Init, PhaseOK
<1>3. HeldOnce /\ PendingIdsTracked /\ SpokenTracked
  BY EmptyQueue DEF Init, HeldOnce, PendingIdsTracked, SpokenTracked, InBridge,
                    InHand, AwaitingAck
<1>4. SpokenOncePerRun /\ AckedOnlyIfSpoken
  BY DEF Init, SpokenOncePerRun, AckedOnlyIfSpoken
<1> QED BY <1>1, <1>2, <1>3, <1>4 DEF IInv

\* What the queues hold are replies, and no reply is the absent one.
LEMMA QueuesOfReplies ==
    ASSUME TypeOK
    PROVE  /\ Range(replies) \subseteq Replies
           /\ Range(acknowledgements) \subseteq Replies
           /\ Range(batch) \subseteq Replies
           /\ NoReply \notin Replies
<1>1. NoReply \notin Replies
  BY DEF NoReply, Replies
<1>2. ASSUME NEW s \in Seq(Replies) PROVE Range(s) \subseteq Replies
  BY <1>2, LenProperties DEF Range
<1> QED BY <1>1, <1>2 DEF TypeOK

\* Every step keeps each reply held once, its id tracked, and the spoken
\* replies out of the queue and of the poll's answer until they are settled.
LEMMA InvStep == IInv /\ [Next]_vars => IInv'
<1> SUFFICES ASSUME IInv, [Next]_vars PROVE IInv'
  OBVIOUS
<1> USE DEF serviceVars, processVars, eventVars, replyVars, queueVars, ackVars,
            worldVars
<1>0. TypeOK /\ PhaseOK /\ TypeOK'
  BY TypeStep DEF IInv
<1>a. /\ Range(replies) \subseteq Replies
      /\ Range(acknowledgements) \subseteq Replies
      /\ Range(batch) \subseteq Replies
      /\ NoReply \notin Replies
  BY <1>0, QueuesOfReplies
<1> DEFINE Same == /\ UNCHANGED <<replyVars, acked, pruned, lateAcks>>
                   /\ published' = published
<1>d. /\ HeldOnce /\ PendingIdsTracked /\ SpokenTracked
      /\ SpokenOncePerRun /\ AckedOnlyIfSpoken
  BY DEF IInv
<1>c. ASSUME Same
      PROVE  /\ HeldOnce' /\ PendingIdsTracked' /\ SpokenTracked'
             /\ SpokenOncePerRun' /\ AckedOnlyIfSpoken'
  BY <1>c, <1>d DEF HeldOnce, PendingIdsTracked, SpokenTracked, SpokenOncePerRun,
     AckedOnlyIfSpoken, InBridge, InHand, AwaitingAck, Rows
<1>1. CASE Enqueue
  BY <1>0, <1>1, <1>c DEF Enqueue, IInv, PhaseOK, TypeOK
<1>2. CASE TakeReply
  <2>1. /\ Head(replies) \in Range(replies) /\ Head(replies) \in Replies
        /\ Range(replies') = Range(replies) \ {Head(replies)}
        /\ IsInjective(replies')
    BY <1>0, <1>2, <1>d, PopQueue DEF TakeReply, TypeOK, HeldOnce
  <2>2. HeldOnce' /\ PendingIdsTracked'
    BY <1>0, <1>2, <1>a, <1>d, <2>1
       DEF TakeReply, HeldOnce, PendingIdsTracked, InBridge, InHand, PhaseOK
  <2>3. SpokenTracked'
    BY <1>0, <1>2, <1>d, <2>1
       DEF TakeReply, SpokenTracked, AwaitingAck, Rows, PhaseOK
  <2>4. PhaseOK'
    BY <1>0, <1>2, <1>a, <2>1 DEF TakeReply, PhaseOK
  <2> QED
    BY <1>0, <1>2, <1>d, <2>2, <2>3, <2>4
       DEF IInv, TakeReply, SpokenOncePerRun, AckedOnlyIfSpoken
<1>3. CASE Speak
  <2>0. hand \in Replies /\ hand \in pendingReplyIds /\ spoken[hand] = 0
    BY <1>0, <1>3, <1>d
       DEF Speak, TypeOK, PhaseOK, PendingIdsTracked, InBridge, InHand, SpokenTracked
  <2>1. /\ spoken'[hand] = 1
        /\ \A r \in Replies \ {hand} : spoken'[r] = spoken[r]
    BY <1>0, <1>3, <2>0 DEF Speak, TypeOK
  <2>2. HeldOnce' /\ PendingIdsTracked'
    BY <1>3, <1>d DEF Speak, HeldOnce, PendingIdsTracked, InBridge, InHand
  <2>3. SpokenTracked'
    <3>1. \A r \in Range(replies) : spoken'[r] = 0
      BY <1>a, <1>d, <2>1 DEF HeldOnce, SpokenTracked
    <3>2. \A r \in AwaitingAck' : spoken'[r] = 1
      BY <1>3, <1>a, <1>d, <2>1 DEF Speak, HeldOnce, SpokenTracked, AwaitingAck
    <3>3. \A r \in Replies : spoken'[r] > 0 =>
              /\ r \in everSpoken'
              /\ r \in pendingReplyIds \/ r \notin Rows \ acked
      BY <1>3, <1>d, <2>0, <2>1 DEF Speak, SpokenTracked
    <3>4. \A r \in polled : spoken'[r] > 0 => r \in pendingReplyIds
      BY <1>0, <1>d, <2>0, <2>1 DEF SpokenTracked, TypeOK
    <3> QED BY <1>3, <3>1, <3>2, <3>3, <3>4 DEF Speak, SpokenTracked, Rows
  <2>4. PhaseOK'
    BY <1>0, <1>3, <2>0 DEF Speak, PhaseOK
  <2>5. SpokenOncePerRun' /\ AckedOnlyIfSpoken'
    BY <1>3, <1>d, <2>1 DEF Speak, SpokenOncePerRun, AckedOnlyIfSpoken
  <2> QED BY <1>0, <2>2, <2>3, <2>4, <2>5 DEF IInv
<1>4. CASE GiveUp
  <2>1. hand \in Replies /\ spoken[hand] = 0
    BY <1>0, <1>4, <1>d DEF GiveUp, TypeOK, PhaseOK, SpokenTracked
  <2>2. HeldOnce' /\ PendingIdsTracked'
    BY <1>4, <1>a, <1>d, <2>1 DEF GiveUp, HeldOnce, PendingIdsTracked, InBridge, InHand
  <2>3. SpokenTracked'
    BY <1>0, <1>4, <1>d, <2>1
       DEF GiveUp, SpokenTracked, AwaitingAck, Rows, TypeOK
  <2>4. PhaseOK'
    BY <1>0, <1>4 DEF GiveUp, PhaseOK
  <2> QED
    BY <1>0, <1>4, <1>d, <2>2, <2>3, <2>4
       DEF IInv, GiveUp, SpokenOncePerRun, AckedOnlyIfSpoken
<1>5. CASE QueueAcknowledgement
  <2>1. hand \in Replies
    BY <1>0, <1>5 DEF QueueAcknowledgement, TypeOK, PhaseOK
  <2>2. /\ Range(acknowledgements') = Range(acknowledgements) \cup {hand}
        /\ IsInjective(acknowledgements')
    BY <1>0, <1>5, <1>d, <2>1, AppendQueue DEF QueueAcknowledgement, TypeOK, HeldOnce
  <2>3. HeldOnce' /\ PendingIdsTracked'
    BY <1>5, <1>a, <1>d, <2>1, <2>2
       DEF QueueAcknowledgement, HeldOnce, PendingIdsTracked, InBridge, InHand
  <2>4. SpokenTracked'
    BY <1>5, <1>d, <2>2
       DEF QueueAcknowledgement, SpokenTracked, AwaitingAck, Rows
  <2>5. PhaseOK'
    BY <1>0, <1>5 DEF QueueAcknowledgement, PhaseOK
  <2> QED
    BY <1>0, <1>5, <1>d, <2>3, <2>4, <2>5
       DEF IInv, QueueAcknowledgement, SpokenOncePerRun, AckedOnlyIfSpoken
<1>6. CASE TakeEvent
  BY <1>0, <1>6, <1>c DEF TakeEvent, IInv, PhaseOK, TypeOK
<1>7. CASE PostEvent
  BY <1>0, <1>7, <1>c DEF PostEvent, IInv, PhaseOK, TypeOK
<1>8. CASE SwapAcknowledgements
  <2>1. batch = <<>>
    BY <1>0, <1>8 DEF SwapAcknowledgements, PhaseOK
  <2>2. HeldOnce' /\ PendingIdsTracked'
    BY <1>8, <1>d, <2>1, EmptyQueue
       DEF SwapAcknowledgements, HeldOnce, PendingIdsTracked, InBridge, InHand
  <2>3. SpokenTracked'
    BY <1>8, <1>d, <2>1, EmptyQueue
       DEF SwapAcknowledgements, SpokenTracked, AwaitingAck, Rows
  <2>4. PhaseOK'
    BY <1>0, <1>8 DEF SwapAcknowledgements, PhaseOK
  <2> QED
    BY <1>0, <1>8, <1>d, <2>2, <2>3, <2>4
       DEF IInv, SwapAcknowledgements, SpokenOncePerRun, AckedOnlyIfSpoken
<1>9. CASE AckAnswered
  <2>1. /\ Head(batch) \in Replies /\ Head(batch) \in Range(batch)
        /\ Range(batch') = Range(batch) \ {Head(batch)}
        /\ IsInjective(batch')
    BY <1>0, <1>9, <1>d, PopQueue DEF AckAnswered, TypeOK, HeldOnce
  <2>2. HeldOnce' /\ PendingIdsTracked'
    BY <1>9, <1>a, <1>d, <2>1
       DEF AckAnswered, HeldOnce, PendingIdsTracked, InBridge, InHand
  <2>3. SpokenTracked'
    <3>1. acked \subseteq acked' /\ Head(batch) \notin Rows \ acked'
      BY <1>9 DEF AckAnswered, Acknowledge
    <3>2. Head(batch) \notin polled'
      BY <1>0, <1>9 DEF AckAnswered, PhaseOK
    <3> QED
      BY <1>9, <1>d, <2>1, <3>1, <3>2
         DEF AckAnswered, SpokenTracked, AwaitingAck, Rows
  <2>4. PhaseOK'
    BY <1>0, <1>9 DEF AckAnswered, PhaseOK
  <2>5. Head(batch) \in everSpoken
    BY <1>d, <2>1 DEF SpokenTracked, AwaitingAck
  <2> QED
    BY <1>0, <1>9, <1>d, <2>2, <2>3, <2>4, <2>5
       DEF IInv, AckAnswered, Acknowledge, SpokenOncePerRun, AckedOnlyIfSpoken
<1>10. CASE AckUnanswered
  <2>1. /\ Head(batch) \in Replies /\ Head(batch) \in Range(batch)
        /\ Range(batch') = Range(batch) \ {Head(batch)}
        /\ IsInjective(batch')
    BY <1>0, <1>10, <1>d, PopQueue DEF AckUnanswered, TypeOK, HeldOnce
  <2>2. /\ Range(acknowledgements') = Range(acknowledgements) \cup {Head(batch)}
        /\ IsInjective(acknowledgements')
    <3>1. Head(batch) \notin Range(acknowledgements)
      BY <1>d, <2>1 DEF HeldOnce
    <3> QED
      BY <1>0, <1>10, <1>d, <2>1, <3>1, AppendQueue
         DEF AckUnanswered, TypeOK, HeldOnce
  <2>3. HeldOnce' /\ PendingIdsTracked'
    BY <1>10, <1>a, <1>d, <2>1, <2>2
       DEF AckUnanswered, HeldOnce, PendingIdsTracked, InBridge, InHand
  <2>4. SpokenTracked'
    <3>1. acked \subseteq acked'
      BY <1>10 DEF AckUnanswered, Acknowledge
    <3> QED
      BY <1>10, <1>d, <2>1, <2>2, <3>1
         DEF AckUnanswered, SpokenTracked, AwaitingAck, Rows
  <2>5. PhaseOK'
    BY <1>0, <1>10 DEF AckUnanswered, PhaseOK
  <2>6. Head(batch) \in everSpoken
    BY <1>d, <2>1 DEF SpokenTracked, AwaitingAck
  <2>7. AckedOnlyIfSpoken'
    BY <1>10, <1>d, <2>6 DEF AckUnanswered, Acknowledge, AckedOnlyIfSpoken
  <2> QED
    BY <1>0, <1>10, <1>d, <2>3, <2>4, <2>5, <2>7
       DEF IInv, AckUnanswered, SpokenOncePerRun
<1>11. ASSUME NEW n \in 0 .. PollLimit, Poll(n) PROVE IInv'
  <2>1. polled' \subseteq Rows \ acked
    BY <1>11 DEF Poll, Oldest, Pending
  <2>2. HeldOnce' /\ PendingIdsTracked'
    BY <1>11, <1>d DEF Poll, HeldOnce, PendingIdsTracked, InBridge, InHand
  <2>3. SpokenTracked'
    <3>1. \A r \in polled' : spoken[r] > 0 => r \in pendingReplyIds
      BY <1>0, <1>11, <1>d, <2>1 DEF Poll, SpokenTracked, TypeOK
    <3> QED BY <1>11, <1>d, <3>1 DEF Poll, SpokenTracked, AwaitingAck, Rows
  <2>4. PhaseOK'
    BY <1>0, <1>11, <2>1 DEF Poll, PhaseOK, Rows
  <2> QED
    BY <1>0, <1>11, <1>d, <2>2, <2>3, <2>4
       DEF IInv, Poll, SpokenOncePerRun, AckedOnlyIfSpoken
<1>12. CASE ParseReply
  <2>1. PICK r \in polled :
            /\ polled' = polled \ {r}
            /\ \/ /\ r \in pendingReplyIds
                  /\ UNCHANGED <<pendingReplyIds, replies>>
               \/ /\ r \notin pendingReplyIds
                  /\ pendingReplyIds' = pendingReplyIds \cup {r}
                  /\ replies' = Append(replies, r)
    BY <1>12 DEF ParseReply
  <2>2. UNCHANGED <<eventVars, worldVars, ackVars, processVars, workerPc,
                    reachable, serviceVars>>
    BY <1>12 DEF ParseReply
  <2>3. workerPc = "parse" /\ r \in Replies /\ r \in 1 .. published
    BY <1>0, <1>12, <2>1 DEF ParseReply, TypeOK, PhaseOK
  <2>4. PhaseOK'
    BY <1>0, <2>1, <2>2, <2>3 DEF PhaseOK
  <2>5. CASE UNCHANGED <<pendingReplyIds, replies>>
    <3>1. HeldOnce' /\ PendingIdsTracked'
      BY <1>d, <2>2, <2>5 DEF HeldOnce, PendingIdsTracked, InBridge, InHand
    <3>2. SpokenTracked'
      BY <1>d, <2>1, <2>2, <2>5 DEF SpokenTracked, AwaitingAck, Rows
    <3> QED
      BY <1>0, <1>d, <2>2, <2>4, <3>1, <3>2
         DEF IInv, SpokenOncePerRun, AckedOnlyIfSpoken
  <2>6. CASE /\ r \notin pendingReplyIds
             /\ pendingReplyIds' = pendingReplyIds \cup {r}
             /\ replies' = Append(replies, r)
    <3>0. r \notin InBridge /\ spoken[r] = 0
      <4>1. spoken[r] \in Nat
        BY <1>0, <2>3 DEF TypeOK
      <4> QED BY <1>d, <2>1, <2>6, <4>1 DEF PendingIdsTracked, SpokenTracked
    <3>1. /\ Range(replies') = Range(replies) \cup {r}
          /\ IsInjective(replies')
      <4>1. replies \in Seq(Replies) /\ IsInjective(replies) /\ r \notin Range(replies)
        BY <1>0, <1>d, <3>0 DEF InBridge, TypeOK, HeldOnce
      <4> QED BY <2>3, <2>6, <4>1, AppendQueue
    <3>2. HeldOnce' /\ PendingIdsTracked'
      BY <1>a, <1>d, <2>2, <2>3, <2>6, <3>0, <3>1
         DEF HeldOnce, PendingIdsTracked, InBridge, InHand
    <3>3. SpokenTracked'
      BY <1>d, <2>1, <2>2, <2>6, <3>0, <3>1 DEF SpokenTracked, AwaitingAck, Rows
    <3> QED
      BY <1>0, <1>d, <2>2, <2>4, <3>2, <3>3
         DEF IInv, SpokenOncePerRun, AckedOnlyIfSpoken
  <2> QED BY <2>1, <2>5, <2>6
<1>13. CASE ParseDone
  BY <1>0, <1>13, <1>c DEF ParseDone, IInv, PhaseOK, TypeOK
<1>14. CASE EndProcess
  <2>1. HeldOnce' /\ PendingIdsTracked'
    BY <1>14, EmptyQueue
       DEF EndProcess, HeldOnce, PendingIdsTracked, InBridge, InHand
  <2>2. SpokenTracked' /\ SpokenOncePerRun'
    BY <1>14, EmptyQueue
       DEF EndProcess, SpokenTracked, AwaitingAck, SpokenOncePerRun
  <2>3. PhaseOK'
    BY <1>0, <1>14 DEF EndProcess, PhaseOK, TypeOK
  <2> QED
    BY <1>0, <1>14, <1>d, <2>1, <2>2, <2>3
       DEF IInv, EndProcess, AckedOnlyIfSpoken
<1>15. CASE Stop
  BY <1>0, <1>15, <1>c DEF Stop, IInv, PhaseOK, TypeOK
<1>16. CASE Start
  BY <1>0, <1>16, <1>c DEF Start, IInv, PhaseOK, TypeOK
<1>17. CASE Publish
  <2>1. UNCHANGED <<replyVars, acked, expired, lateAcks, workerPc, posting,
                    dropped, produced>>
    BY <1>17 DEF Publish
  <2>2. published \in Nat /\ published' = published + 1
    BY <1>0, <1>17, BridgeAssumption DEF Publish, TypeOK
  <2>3. pruned \subseteq pruned' /\ pruned' \subseteq expired
    BY <1>0, <1>17 DEF Publish, PhaseOK
  <2>4. PhaseOK'
    <3>1. 1 .. published \subseteq 1 .. published'
      BY <2>2
    <3> QED BY <1>0, <2>1, <2>3, <3>1 DEF PhaseOK
  <2>5. HeldOnce' /\ PendingIdsTracked'
    BY <1>d, <2>1 DEF HeldOnce, PendingIdsTracked, InBridge, InHand
  <2>6. SpokenTracked'
    <3>1. \A r \in everSpoken : r \notin Rows \ acked => r \notin Rows' \ acked
      BY <1>0, <2>3 DEF Rows, PhaseOK
    <3>2. \A r \in Replies :
            spoken[r] > 0 => /\ r \in everSpoken
                             /\ r \in pendingReplyIds \/ r \notin Rows' \ acked
      BY <1>d, <3>1 DEF SpokenTracked
    <3>3. AwaitingAck' = AwaitingAck
      BY <2>1 DEF AwaitingAck
    <3> QED BY <1>d, <2>1, <3>2, <3>3 DEF SpokenTracked
  <2> QED
    BY <1>0, <1>d, <2>1, <2>4, <2>5, <2>6
       DEF IInv, SpokenOncePerRun, AckedOnlyIfSpoken
<1>18. ASSUME NEW r \in Replies, Expire(r) PROVE IInv'
  <2>1. Same
    BY <1>18 DEF Expire
  <2>2. PhaseOK'
    BY <1>0, <1>18 DEF Expire, PhaseOK
  <2> QED BY <1>0, <1>c, <2>1, <2>2 DEF IInv
<1>19. ASSUME NEW r \in Replies, LateAck(r) PROVE IInv'
  <2>1. PhaseOK'
    BY <1>0, <1>19 DEF LateAck, PhaseOK
  <2>2. HeldOnce' /\ PendingIdsTracked'
    BY <1>19, <1>d DEF LateAck, HeldOnce, PendingIdsTracked, InBridge, InHand
  <2>3. SpokenTracked'
    <3>1. acked \subseteq acked'
      BY <1>19 DEF LateAck, Acknowledge
    <3> QED BY <1>19, <1>d, <3>1 DEF LateAck, SpokenTracked, AwaitingAck, Rows
  <2>4. AckedOnlyIfSpoken'
    BY <1>19, <1>d DEF LateAck, Acknowledge, AckedOnlyIfSpoken
  <2> QED
    BY <1>0, <1>19, <1>d, <2>1, <2>2, <2>3, <2>4 DEF IInv, LateAck, SpokenOncePerRun
<1>20. ASSUME NEW r \in Replies, Roam(r) PROVE IInv'
  BY <1>0, <1>20, <1>c DEF Roam, IInv, PhaseOK
<1>21. CASE UNCHANGED vars
  BY <1>0, <1>21, <1>c DEF vars, IInv, PhaseOK
<1> QED
  BY <1>1, <1>2, <1>3, <1>4, <1>5, <1>6, <1>7, <1>8, <1>9, <1>10, <1>11,
     <1>12, <1>13, <1>14, <1>15, <1>16, <1>17, <1>18, <1>19, <1>20, <1>21
     DEF Next, World, Worker, Process, Service, Players, WorkerExit, Crash

----------------------------------------------------------------------------
(* The theorems.                                                           *)

\* The inductive invariant holds of every behaviour: no interleaving of the
\* world thread, the worker thread, the network, the service, the players and
\* restarts takes the bridge out of it.
THEOREM Invariance == Spec => []IInv
<1>1. Init => IInv
  BY InvInit
<1>2. IInv /\ [Next]_vars => IInv'
  BY InvStep
<1> QED BY <1>1, <1>2, PTL DEF Spec

\* The variables keep their types and the event queue its bound.
THEOREM TypeCorrect == Spec => []TypeOK
<1>1. IInv => TypeOK
  BY DEF IInv
<1> QED BY <1>1, Invariance, PTL

\* A worldserver speaks each reply at most once: Bridge's deduplication by
\* _pendingReplyIds is enough, though ids leave it when a request is answered.
THEOREM NeverSpokenTwice == Spec => []SpokenOncePerRun
<1>1. IInv => SpokenOncePerRun
  BY DEF IInv
<1> QED BY <1>1, Invariance, PTL

\* _pendingReplyIds and the queues of the bridge never disagree.
THEOREM IdsTracked == Spec => []PendingIdsTracked
<1>1. IInv => PendingIdsTracked
  BY DEF IInv
<1> QED BY <1>1, Invariance, PTL

\* No acknowledgement of a spoken reply is forgotten while its row waits for it.
THEOREM NoAckForgotten == Spec => []AckOwed
<1>1. ASSUME IInv PROVE AckOwed
  <2> SUFFICES ASSUME NEW r \in Replies, spoken[r] > 0, r \in Rows \ acked
               PROVE  r \in AwaitingAck
    BY DEF AckOwed
  <2>1. r \in InBridge
    BY <1>1 DEF IInv, SpokenTracked, PendingIdsTracked
  <2>2. r \notin Range(replies)
    BY <1>1 DEF IInv, SpokenTracked
  <2>3. CASE r \in InHand
    BY <1>1, <2>3 DEF IInv, InHand, PhaseOK, TypeOK, SpokenTracked, AwaitingAck
  <2> QED BY <2>1, <2>2, <2>3 DEF InBridge, AwaitingAck
<1> QED BY <1>1, Invariance, PTL

\* No row is acknowledged, not even by a request handled after a restart,
\* unless its reply was spoken.
THEOREM NoAckUnspoken == Spec => []AckedOnlyIfSpoken
<1>1. IInv => AckedOnlyIfSpoken
  BY DEF IInv
<1> QED BY <1>1, Invariance, PTL

----------------------------------------------------------------------------
(* The order of delivery.                                                  *)

\* A row that the outbox leaves out of its answer, though it is older than one
\* the answer lists, is not pending: the oldest rows come first.
LEMMA OldestFirst ==
    ASSUME TypeOK, NEW n \in Nat, NEW r \in Oldest(n), NEW q \in Pending, q < r
    PROVE  q \in Oldest(n)
<1> DEFINE Before(x) == {p \in Pending : p < x}
<1>1. Pending \subseteq 1 .. published /\ published \in Nat
  BY DEF TypeOK, Pending, Rows
<1>2. IsFiniteSet(Before(r)) /\ Cardinality(Before(r)) < n
  <2>1. IsFiniteSet(1 .. published)
    BY <1>1, FS_Interval
  <2>2. Before(r) \subseteq 1 .. published
    BY <1>1
  <2> QED BY <2>1, <2>2, FS_Subset DEF Oldest
<1>3. Before(q) \subseteq Before(r)
  <2>1. r \in Int /\ q \in Int
    BY <1>1 DEF Oldest
  <2>2. ASSUME NEW p \in Pending, p < q PROVE p < r
    <3>1. p \in Int
      BY <1>1
    <3> QED BY <2>1, <2>2, <3>1
  <2> QED BY <2>2
<1>4. /\ IsFiniteSet(Before(q))
      /\ Cardinality(Before(q)) <= Cardinality(Before(r))
  BY <1>2, <1>3, FS_Subset
<1>5. Cardinality(Before(q)) \in Nat /\ Cardinality(Before(r)) \in Nat
  BY <1>2, <1>4, FS_CardinalityType
<1>6. Cardinality(Before(q)) < n
  BY <1>2, <1>4, <1>5
<1> QED BY <1>6 DEF Oldest

\* Once passed, a reply stays passed as long as the process runs.
LEMMA PassedStays ==
    ASSUME TypeOK, TypeOK', [Next]_vars, ~EndProcess, NEW q \in Replies, Passed(q)
    PROVE  Passed(q)'
<1> USE DEF serviceVars, processVars, eventVars, replyVars, queueVars, ackVars,
            worldVars, Passed
<1>1. CASE Speak
  <2>1. acked' = acked /\ expired' = expired /\ givenUp' = givenUp \ {hand}
    BY <1>1 DEF Speak
  <2>2. CASE q = hand
    BY <1>1, <2>2 DEF Speak, TypeOK
  <2>3. CASE q # hand
    BY <1>1, <2>1, <2>3 DEF Speak, TypeOK
  <2> QED BY <2>2, <2>3
<1>2. CASE GiveUp
  BY <1>2 DEF GiveUp
<1>3. CASE AckAnswered
  BY <1>3 DEF AckAnswered, Acknowledge
<1>4. CASE AckUnanswered
  BY <1>4 DEF AckUnanswered, Acknowledge
<1>5. ASSUME NEW r \in Replies, Expire(r) \/ LateAck(r) \/ Roam(r)
      PROVE  Passed(q)'
  BY <1>5 DEF Expire, LateAck, Acknowledge, Roam
<1>6. CASE TakeReply \/ QueueAcknowledgement
  BY <1>6 DEF TakeReply, QueueAcknowledgement
<1>7. CASE TakeEvent \/ PostEvent \/ SwapAcknowledgements \/ ParseReply \/ ParseDone
  BY <1>7 DEF TakeEvent, PostEvent, SwapAcknowledgements, ParseReply, ParseDone
<1>8. ASSUME NEW n \in 0 .. PollLimit, Poll(n) PROVE Passed(q)'
  BY <1>8 DEF Poll
<1>9. CASE Stop \/ Start \/ Publish \/ Enqueue
  BY <1>9 DEF Stop, Start, Publish, Enqueue
<1>10. CASE UNCHANGED vars
  BY <1>10 DEF vars
<1> QED
  BY <1>1, <1>2, <1>3, <1>4, <1>5, <1>6, <1>7, <1>8, <1>9, <1>10
     DEF Next, World, Worker, Process, Service, Players, WorkerExit, Crash

\* A reply whose id is held has passed, is in hand, or is in the queue.
LEMMA HeldAhead ==
    ASSUME IInv, NEW q \in pendingReplyIds
    PROVE  \/ Passed(q)
           \/ worldPc = "holding" /\ q = hand
           \/ \E j \in DOMAIN replies : replies[j] = q
<1>1. q \in InBridge
  BY DEF IInv, PendingIdsTracked
<1>2. CASE q \in Range(replies)
  BY <1>2 DEF Range
<1>3. CASE q \in AwaitingAck
  BY <1>3 DEF IInv, SpokenTracked, Passed
<1>4. CASE q \in InHand
  BY <1>3, <1>4 DEF IInv, PhaseOK, TypeOK, InHand, AwaitingAck
<1> QED BY <1>1, <1>2, <1>3, <1>4 DEF InBridge, AwaitingAck

\* Every step keeps what is older than a held reply passed or ahead of it.
LEMMA OrderStep == IInv /\ IInv' /\ OrderTracked /\ [Next]_vars => OrderTracked'
<1> SUFFICES ASSUME IInv, IInv', OrderTracked, [Next]_vars PROVE OrderTracked'
  OBVIOUS
<1> USE DEF serviceVars, processVars, eventVars, replyVars, queueVars, ackVars,
            worldVars
<1>0. TypeOK /\ TypeOK' /\ PhaseOK /\ PhaseOK' /\ HeldOnce
  BY DEF IInv
<1>a. CASE EndProcess
  <2>1. replies' = <<>> /\ worldPc' = "idle" /\ polled' = {}
    BY <1>a DEF EndProcess
  <2>2. DOMAIN replies' = {}
    BY <2>1
  <2> QED BY <2>1, <2>2 DEF OrderTracked
<1> SUFFICES ASSUME ~EndProcess PROVE OrderTracked'
  BY <1>a
<1>b. \A q \in Replies : Passed(q) => Passed(q)'
  BY <1>0, PassedStays
<1> DEFINE Ahead(i, q) == \/ worldPc = "holding" /\ q = hand
                          \/ \E j \in DOMAIN replies : j < i /\ replies[j] = q
<1>c. ASSUME UNCHANGED <<replies, hand, worldPc, polled, pendingReplyIds>>
      PROVE  OrderTracked'
  BY <1>b, <1>c DEF OrderTracked
<1>1. CASE TakeReply
  <2>1. /\ DOMAIN replies = 1 .. Len(replies) /\ Len(replies) \in Nat
        /\ Len(replies) > 0
        /\ DOMAIN replies' = 1 .. Len(replies) - 1
        /\ \A i \in 1 .. Len(replies) - 1 : replies'[i] = replies[i + 1]
        /\ hand' = replies[1] /\ hand' \in Replies
    BY <1>0, <1>1, HeadTailProperties, LenProperties, EmptySeq
       DEF TakeReply, TypeOK
  <2>2. /\ worldPc = "idle" /\ worldPc' = "holding"
        /\ UNCHANGED <<polled, pendingReplyIds>>
    BY <1>1 DEF TakeReply
  <2>3. \A q \in Replies : q < hand' => Passed(q)'
    <3>1. 1 \in DOMAIN replies
      BY <2>1
    <3>2. ASSUME NEW q \in Replies, q < hand' PROVE Passed(q)
      <4>1. Passed(q) \/ \E j \in DOMAIN replies : j < 1 /\ replies[j] = q
        BY <2>1, <2>2, <3>1, <3>2 DEF OrderTracked
      <4> QED BY <2>1, <4>1
    <3> QED BY <1>b, <3>2
  <2>4. ASSUME NEW i \in DOMAIN replies', NEW q \in Replies, q < replies'[i]
        PROVE  \/ Passed(q)'
               \/ q = hand'
               \/ \E j \in DOMAIN replies' : j < i /\ replies'[j] = q
    <3>1. i + 1 \in DOMAIN replies /\ q < replies[i + 1]
      BY <2>1, <2>4
    <3>2. Passed(q) \/ \E j \in DOMAIN replies : j < i + 1 /\ replies[j] = q
      BY <2>2, <3>1 DEF OrderTracked
    <3>3. ASSUME NEW j \in DOMAIN replies, j < i + 1, replies[j] = q, j # 1
          PROVE  \E k \in DOMAIN replies' : k < i /\ replies'[k] = q
      <4>1. /\ j - 1 \in DOMAIN replies' /\ j - 1 < i
            /\ replies'[j - 1] = q
        BY <2>1, <2>4, <3>3
      <4> QED BY <4>1
    <3> QED BY <1>b, <2>1, <3>2, <3>3
  <2> QED BY <1>b, <2>2, <2>3, <2>4 DEF OrderTracked
<1>2. CASE Speak
  <2>1. UNCHANGED <<replies, hand, polled, pendingReplyIds>> /\ worldPc' = "said"
    BY <1>2 DEF Speak
  <2>2. Passed(hand)'
    BY <1>0, <1>2 DEF Speak, TypeOK, PhaseOK, Passed
  <2> QED BY <1>b, <2>1, <2>2 DEF OrderTracked
<1>3. CASE GiveUp
  <2>1. /\ UNCHANGED <<replies, polled>> /\ worldPc' = "idle"
        /\ pendingReplyIds' = pendingReplyIds \ {hand}
    BY <1>3 DEF GiveUp
  <2>2. hand \in givenUp'
    BY <1>3 DEF GiveUp
  <2>3. \A q \in Replies : q = hand => Passed(q)'
    BY <2>2 DEF Passed
  <2> QED BY <1>b, <2>1, <2>3 DEF OrderTracked
<1>4. CASE QueueAcknowledgement
  <2>1. /\ UNCHANGED <<replies, polled, pendingReplyIds>>
        /\ worldPc = "said" /\ worldPc' = "idle"
    BY <1>4 DEF QueueAcknowledgement
  <2> QED BY <1>b, <2>1 DEF OrderTracked
<1>5. CASE AckAnswered
  <2>1. UNCHANGED <<replies, hand, worldPc, polled>> /\ polled = {}
    BY <1>0, <1>5 DEF AckAnswered, PhaseOK
  <2> QED BY <1>b, <2>1 DEF OrderTracked
<1>6. ASSUME NEW n \in 0 .. PollLimit, Poll(n) PROVE OrderTracked'
  <2>1. /\ UNCHANGED <<replies, hand, worldPc, pendingReplyIds>>
        /\ UNCHANGED <<acked, expired, pruned, published>>
        /\ polled' = Oldest(n)
    BY <1>6 DEF Poll
  <2>2. ASSUME NEW r \in Oldest(n), NEW q \in Replies, q < r
        PROVE  Passed(q) \/ q \in Oldest(n)
    <3>1. CASE q \in Pending
      BY <1>0, <2>2, <3>1, OldestFirst, BridgeAssumption
    <3>2. CASE q \notin Pending
      <4>1. r \in 1 .. published
        BY DEF Oldest, Pending, Rows
      <4>2. q \in 1 .. published
        BY <1>0, <2>2, <4>1 DEF TypeOK, Replies
      <4> QED BY <1>0, <3>2, <4>2 DEF Pending, Rows, PhaseOK, Passed
    <3> QED BY <3>1, <3>2
  <2> QED BY <1>b, <2>1, <2>2 DEF OrderTracked
<1>7. CASE ParseReply
  <2>1. PICK r \in polled :
            /\ \A q \in polled : r <= q
            /\ polled' = polled \ {r}
            /\ \/ /\ r \in pendingReplyIds
                  /\ UNCHANGED <<pendingReplyIds, replies>>
               \/ /\ r \notin pendingReplyIds
                  /\ pendingReplyIds' = pendingReplyIds \cup {r}
                  /\ replies' = Append(replies, r)
    BY <1>7 DEF ParseReply
  <2>2. UNCHANGED <<hand, worldPc>> /\ r \in Replies
    BY <1>0, <1>7 DEF ParseReply, TypeOK
  <2>3. \A x \in polled' : \A q \in Replies : q < x =>
            Passed(q)' \/ q \in polled' \cup pendingReplyIds'
    BY <1>b, <2>1 DEF OrderTracked
  <2>4. CASE UNCHANGED replies
    BY <1>b, <2>2, <2>3, <2>4 DEF OrderTracked
  <2>5. CASE replies' = Append(replies, r)
    <3>1. /\ DOMAIN replies = 1 .. Len(replies) /\ Len(replies) \in Nat
          /\ DOMAIN replies' = 1 .. Len(replies) + 1
          /\ \A i \in 1 .. Len(replies) : replies'[i] = replies[i]
          /\ replies'[Len(replies) + 1] = r
      BY <1>0, <2>2, <2>5, AppendProperties, LenProperties DEF TypeOK
    <3>2. ASSUME NEW q \in Replies, q < r
          PROVE  \/ Passed(q)
                 \/ worldPc = "holding" /\ q = hand
                 \/ \E j \in DOMAIN replies : replies[j] = q
      <4>1. q \notin polled
        BY <2>1, <2>2, <3>2 DEF Replies
      <4>2. CASE q \in pendingReplyIds
        BY <4>2, HeldAhead
      <4> QED BY <2>1, <3>2, <4>1, <4>2 DEF OrderTracked
    <3>3. ASSUME NEW i \in DOMAIN replies', NEW q \in Replies, q < replies'[i]
          PROVE  \/ Passed(q)'
                 \/ worldPc' = "holding" /\ q = hand'
                 \/ \E j \in DOMAIN replies' : j < i /\ replies'[j] = q
      <4>1. CASE i = Len(replies) + 1
        <5>1. \/ Passed(q)
              \/ worldPc = "holding" /\ q = hand
              \/ \E j \in DOMAIN replies : replies[j] = q
          BY <3>1, <3>2, <3>3, <4>1
        <5>2. ASSUME NEW j \in DOMAIN replies, replies[j] = q
              PROVE  j \in DOMAIN replies' /\ j < i /\ replies'[j] = q
          BY <3>1, <4>1, <5>2
        <5> QED BY <1>b, <2>2, <5>1, <5>2
      <4>2. CASE i # Len(replies) + 1
        <5>1. i \in DOMAIN replies /\ q < replies[i]
          BY <3>1, <3>3, <4>2
        <5>2. \/ Passed(q)
              \/ worldPc = "holding" /\ q = hand
              \/ \E j \in DOMAIN replies : j < i /\ replies[j] = q
          BY <5>1 DEF OrderTracked
        <5>3. ASSUME NEW j \in DOMAIN replies, j < i, replies[j] = q
              PROVE  j \in DOMAIN replies' /\ j < i /\ replies'[j] = q
          BY <3>1, <5>3
        <5> QED BY <1>b, <2>2, <5>2, <5>3
      <4> QED BY <4>1, <4>2
    <3>4. worldPc' = "holding" => \A q \in Replies : q < hand' => Passed(q)'
      BY <1>b, <2>2 DEF OrderTracked
    <3> QED BY <2>3, <3>3, <3>4 DEF OrderTracked
  <2> QED BY <2>1, <2>4, <2>5
<1>8. CASE TakeEvent \/ PostEvent \/ SwapAcknowledgements \/ AckUnanswered \/ ParseDone
  BY <1>c, <1>8
     DEF TakeEvent, PostEvent, SwapAcknowledgements, AckUnanswered, ParseDone
<1>9. CASE Stop \/ Start \/ Publish \/ Enqueue
  BY <1>c, <1>9 DEF Stop, Start, Publish, Enqueue
<1>10. ASSUME NEW r \in Replies, Expire(r) \/ LateAck(r) \/ Roam(r)
       PROVE  OrderTracked'
  BY <1>c, <1>10 DEF Expire, LateAck, Roam
<1>11. CASE UNCHANGED vars
  BY <1>c, <1>11 DEF vars
<1> QED
  BY <1>1, <1>2, <1>3, <1>4, <1>5, <1>6, <1>7, <1>8, <1>9, <1>10, <1>11
     DEF Next, World, Worker, Process, Service, Players, WorkerExit, Crash

\* Only Speak speaks, and only the reply in hand, before which everything has
\* passed.
LEMMA SpeakInOrder ==
    ASSUME IInv, OrderTracked, [Next]_vars
    PROVE  \A r \in Replies : spoken'[r] > spoken[r] =>
               \A q \in Replies : q < r => Passed(q)
<1> USE DEF serviceVars, processVars, eventVars, replyVars, queueVars, ackVars,
            worldVars
<1>0. TypeOK /\ PhaseOK
  BY DEF IInv
<1>1. CASE Speak
  <2>1. worldPc = "holding" /\ hand \in Replies
        /\ \A r \in Replies \ {hand} : spoken'[r] = spoken[r]
    BY <1>0, <1>1 DEF Speak, TypeOK, PhaseOK
  <2>2. \A r \in Replies : spoken'[r] > spoken[r] => r = hand
    BY <1>0, <2>1 DEF TypeOK
  <2> QED BY <2>1, <2>2 DEF OrderTracked
<1>2. CASE EndProcess
  BY <1>0, <1>2 DEF EndProcess, TypeOK
<1>3. ASSUME spoken' = spoken
      PROVE  \A r \in Replies : ~(spoken'[r] > spoken[r])
  BY <1>0, <1>3 DEF TypeOK
<1>4. CASE TakeReply \/ GiveUp \/ QueueAcknowledgement
  BY <1>3, <1>4 DEF TakeReply, GiveUp, QueueAcknowledgement
<1>5. CASE TakeEvent \/ PostEvent \/ SwapAcknowledgements \/ ParseReply \/ ParseDone
  BY <1>3, <1>5 DEF TakeEvent, PostEvent, SwapAcknowledgements, ParseReply, ParseDone
<1>6. CASE AckAnswered \/ AckUnanswered \/ Stop \/ Start \/ Publish \/ Enqueue
  BY <1>3, <1>6 DEF AckAnswered, AckUnanswered, Stop, Start, Publish, Enqueue
<1>7. ASSUME NEW n \in 0 .. PollLimit, Poll(n) PROVE spoken' = spoken
  BY <1>7 DEF Poll
<1>8. ASSUME NEW r \in Replies, Expire(r) \/ LateAck(r) \/ Roam(r)
      PROVE  spoken' = spoken
  BY <1>8 DEF Expire, LateAck, Roam
<1>9. CASE UNCHANGED vars
  BY <1>3, <1>9 DEF vars
<1> QED
  BY <1>1, <1>2, <1>3, <1>4, <1>5, <1>6, <1>7, <1>8, <1>9
     DEF Next, World, Worker, Process, Service, Players, WorkerExit, Crash

\* At every moment, what is older than a reply in the queue, in hand or in an
\* answer has passed or is ahead of it.
THEOREM OrderInvariance == Spec => [](IInv /\ OrderTracked)
<1>1. Init => IInv /\ OrderTracked
  <2>1. Init => OrderTracked
    BY DEF Init, OrderTracked
  <2> QED BY <2>1, InvInit
<1>2. (IInv /\ OrderTracked) /\ [Next]_vars => (IInv /\ OrderTracked)'
  BY InvStep, OrderStep
<1> QED BY <1>1, <1>2, PTL DEF Spec

\* A reply is never spoken before an older one that could still be delivered
\* and has not had its turn, whatever the answers of the outbox were cut to.
THEOREM OldestSpokenFirst == Spec => SpokenInOrder
<1>1. (IInv /\ OrderTracked) /\ [Next]_vars =>
        [\A r \in Replies : spoken'[r] > spoken[r] =>
             \A q \in Replies : q < r => Passed(q)]_vars
  BY SpeakInOrder
<1> QED BY <1>1, OrderInvariance, PTL DEF Spec, SpokenInOrder

----------------------------------------------------------------------------
(* Implementation of the abstract delivery.                                *)

\* A handled acknowledgement settles a reply that was heard, or nothing.
LEMMA AcknowledgeSettles ==
    ASSUME TypeOK, NEW r \in everSpoken, Acknowledge(r),
           UNCHANGED <<published, spoken, everSpoken>>
    PROVE  [RD!Next]_(RD!vars)
<1>1. r \in RD!Replies
  BY DEF TypeOK, Replies, RD!Replies
<1>2. CASE r \in Rows
  <2>1. RD!Settle(r)
    BY <1>2 DEF Acknowledge, RD!Settle
  <2> QED BY <1>1, <2>1 DEF RD!Next
<1>3. CASE r \notin Rows
  BY <1>3 DEF Acknowledge, RD!vars
<1> QED BY <1>2, <1>3

\* Every step of the bridge is a step of the abstract delivery or leaves it
\* alone: Publish creates, Speak says, a handled acknowledgement settles and
\* the end of the process begins a new session.
LEMMA StepDelivers == IInv /\ [Next]_vars => [RD!Next]_(RD!vars)
<1> SUFFICES ASSUME IInv, [Next]_vars PROVE [RD!Next]_(RD!vars)
  OBVIOUS
<1> USE DEF serviceVars, processVars, replyVars, worldVars
<1>0. TypeOK /\ PhaseOK /\ SpokenTracked /\ AckedOnlyIfSpoken
  BY DEF IInv
<1>1. CASE Speak
  <2>1. hand \in Replies /\ spoken[hand] = 0
    BY <1>0, <1>1 DEF Speak, TypeOK, PhaseOK, SpokenTracked
  <2>2. spoken' = [spoken EXCEPT ![hand] = 1]
    BY <1>1, <2>1 DEF Speak
  <2>3. hand \in 1 .. published
    <3>1. hand \in pendingReplyIds
      BY <1>0, <1>1 DEF IInv, Speak, PhaseOK, PendingIdsTracked, InBridge, InHand
    <3> QED BY <1>0, <3>1 DEF PhaseOK
  <2>4. RD!Say(hand)
    BY <1>0, <1>1, <2>1, <2>2, <2>3 DEF Speak, RD!Say, TypeOK
  <2> QED BY <2>1, <2>4 DEF RD!Next, RD!Replies, Replies
<1>2. CASE AckAnswered
  <2>1. Head(batch) \in everSpoken
    <3>1. batch \in Seq(Replies) /\ batch # <<>> /\ IsInjective(batch)
      BY <1>0, <1>2 DEF IInv, TypeOK, HeldOnce, AckAnswered
    <3>2. Head(batch) \in Replies /\ Head(batch) \in AwaitingAck
      BY <3>1, PopQueue DEF AwaitingAck
    <3> QED BY <1>0, <3>2 DEF SpokenTracked
  <2> QED BY <1>0, <1>2, <2>1, AcknowledgeSettles DEF AckAnswered
<1>3. CASE AckUnanswered
  <2>1. Head(batch) \in everSpoken
    <3>1. batch \in Seq(Replies) /\ batch # <<>> /\ IsInjective(batch)
      BY <1>0, <1>3 DEF IInv, TypeOK, HeldOnce, AckUnanswered
    <3>2. Head(batch) \in Replies /\ Head(batch) \in AwaitingAck
      BY <3>1, PopQueue DEF AwaitingAck
    <3> QED BY <1>0, <3>2 DEF SpokenTracked
  <2>2. CASE Acknowledge(Head(batch))
    BY <1>0, <1>3, <2>1, <2>2, AcknowledgeSettles DEF AckUnanswered
  <2>3. CASE UNCHANGED acked
    BY <1>3, <2>3 DEF AckUnanswered, RD!vars
  <2> QED BY <1>3, <2>2, <2>3 DEF AckUnanswered
<1>4. ASSUME NEW r \in Replies, LateAck(r) PROVE [RD!Next]_(RD!vars)
  <2>1. r \in everSpoken
    BY <1>0, <1>4 DEF LateAck, AckedOnlyIfSpoken
  <2> QED BY <1>0, <1>4, <2>1, AcknowledgeSettles DEF LateAck
<1>5. CASE EndProcess
  <2>1. RD!NewSession
    BY <1>5 DEF EndProcess, RD!NewSession, RD!Replies, Replies
  <2> QED BY <2>1 DEF RD!Next
<1>6. CASE Publish
  <2>1. RD!Create
    BY <1>6 DEF Publish, RD!Create
  <2> QED BY <2>1 DEF RD!Next
<1>7. ASSUME UNCHANGED <<published, spoken, everSpoken, acked>>
      PROVE  [RD!Next]_(RD!vars)
  BY <1>7 DEF RD!vars
<1>8. CASE Enqueue \/ TakeReply \/ GiveUp \/ QueueAcknowledgement
  BY <1>7, <1>8 DEF Enqueue, TakeReply, GiveUp, QueueAcknowledgement
<1>9. CASE TakeEvent \/ PostEvent \/ SwapAcknowledgements \/ ParseReply \/ ParseDone
  BY <1>7, <1>9 DEF TakeEvent, PostEvent, SwapAcknowledgements, ParseReply, ParseDone
<1>10. ASSUME NEW n \in 0 .. PollLimit, Poll(n) PROVE [RD!Next]_(RD!vars)
  BY <1>7, <1>10 DEF Poll
<1>11. CASE Stop \/ Start
  BY <1>7, <1>11 DEF Stop, Start
<1>12. ASSUME NEW r \in Replies, Expire(r) \/ Roam(r) PROVE [RD!Next]_(RD!vars)
  BY <1>7, <1>12 DEF Expire, Roam
<1>13. CASE UNCHANGED vars
  BY <1>7, <1>13 DEF vars
<1> QED
  BY <1>1, <1>2, <1>3, <1>4, <1>5, <1>6, <1>8, <1>9, <1>10, <1>11, <1>12, <1>13
     DEF Next, World, Worker, Process, Service, Players, WorkerExit, Crash

\* The bridge implements ReplyDelivery: once per worldserver, only what was
\* created, settled only what was heard.
THEOREM Delivery == Spec => DeliversReplies
<1>1. Init => RD!Init
  BY DEF Init, RD!Init, Replies, RD!Replies
<1>2. IInv /\ [Next]_vars => [RD!Next]_(RD!vars)
  BY StepDelivers
<1> QED BY <1>1, <1>2, Invariance, PTL DEF Spec, DeliversReplies, RD!Spec

=============================================================================
