----------------------------- MODULE SoulBridge -----------------------------
(***************************************************************************)
(* The worldserver half of the Soulforge message path: class Bridge of     *)
(* mod-soulbridge/src/SoulBridgeModule.cpp, together with the durable      *)
(* outbox rows of the Soul Service that it polls and acknowledges.         *)
(*                                                                         *)
(* Two threads share the bridge.  The world thread enqueues game events    *)
(* and, on each world update, takes replies off a queue and speaks them    *)
(* through a bot.  The worker thread posts one event, acknowledges what    *)
(* was spoken and polls the outbox, over synchronous HTTP requests that    *)
(* may fail, be answered with a cut body, take effect without being        *)
(* answered, or take effect after the client has given up.  Each action    *)
(* below is one critical section or one HTTP exchange of the code.         *)
(*                                                                         *)
(* The roster requests of the worker loop use queues of their own and are  *)
(* not part of this module.                                                *)
(***************************************************************************)
EXTENDS Integers, Sequences, FiniteSets, Functions

CONSTANTS NumEvents,     \* game events the world produces
          NumReplies,    \* outbox rows the Soul Service creates
          Capacity,      \* SoulBridge.QueueCapacity
          PollLimit,     \* limit=20 of the outbox poll
          MaxRestarts    \* bound on worldserver restarts

ASSUME BridgeAssumption ==
    /\ NumEvents \in Nat
    /\ NumReplies \in Nat
    /\ Capacity \in Nat \ {0}
    /\ PollLimit \in Nat \ {0}
    /\ MaxRestarts \in Nat

Events  == 1 .. NumEvents      \* in the order the world produces them
Replies == 1 .. NumReplies     \* in the order of created_at
NoEvent == 0
NoReply == 0

VARIABLES
    running,           \* _running
    workerPc,          \* where WorkerLoop is; "stopped" before and after it
    worldPc,           \* where DeliverReplies is with the reply in hand
    events,            \* _events
    dropped,           \* _dropped
    posting,           \* the event WorkerLoop took and is about to post
    replies,           \* _replies
    hand,              \* the reply DeliverReplies took off the queue
    acknowledgements,  \* _acknowledgements
    batch,             \* the acknowledgements swapped out to be sent
    pendingReplyIds,   \* _pendingReplyIds
    polled,            \* the rows of the poll's answer still to be parsed
    produced,          \* events the world has produced
    reachable,         \* replies whose bot, recipient and channel are there
    restarts,          \* worldservers started after the first
    inbox,             \* events the Soul Service has accepted
    published,         \* outbox rows created so far
    acked,             \* rows with acknowledged_at set
    expired,           \* rows whose expires_at has passed
    pruned,            \* rows deleted from the outbox
    lateAcks,          \* acknowledgements given up by the bridge, not yet handled
    spoken,            \* how often each reply was spoken by this worldserver
    givenUp,           \* those it took in vain and has not spoken since
    everSpoken         \* replies spoken by any worldserver so far

eventVars   == <<events, dropped, posting, produced>>
queueVars   == <<replies, pendingReplyIds, polled>>
ackVars     == <<acknowledgements, batch>>
worldVars   == <<hand, worldPc, spoken, givenUp, everSpoken>>
replyVars   == <<queueVars, ackVars, worldVars>>
processVars == <<running, restarts>>
serviceVars == <<inbox, published, acked, expired, pruned, lateAcks>>
vars == <<eventVars, replyVars, processVars, workerPc, reachable, serviceVars>>

----------------------------------------------------------------------------
(* The outbox as SoulStore.pending sees it.                                *)

Rows    == (1 .. published) \ pruned
Pending == Rows \ (acked \cup expired)

\* The answer to a poll with the given limit: the oldest pending rows.
Oldest(n) == {r \in Pending : Cardinality({q \in Pending : q < r}) < n}

Init ==
    /\ running = TRUE /\ workerPc = "event" /\ worldPc = "idle"
    /\ events = <<>> /\ dropped = 0 /\ posting = NoEvent
    /\ replies = <<>> /\ hand = NoReply
    /\ acknowledgements = <<>> /\ batch = <<>>
    /\ pendingReplyIds = {} /\ polled = {}
    /\ produced = 0 /\ reachable = {} /\ restarts = 0
    /\ inbox = {} /\ published = 0
    /\ acked = {} /\ expired = {} /\ pruned = {}
    /\ lateAcks = {}
    /\ spoken = [r \in Replies |-> 0] /\ givenUp = {} /\ everSpoken = {}

----------------------------------------------------------------------------
(* The world thread.                                                       *)

\* A slip: the capacity test is off by one.
EnqueueOneTooMany ==
    /\ running
    /\ produced < NumEvents
    /\ produced' = produced + 1
    /\ \/ /\ Len(events) > Capacity
          /\ dropped' = dropped + 1
          /\ UNCHANGED events
       \/ /\ Len(events) <= Capacity
          /\ events' = Append(events, produced + 1)
          /\ UNCHANGED dropped
    /\ UNCHANGED <<posting, replyVars, processVars, workerPc, reachable,
                   serviceVars>>

\* Enqueue and EnqueueGameplay: a full queue drops the new event.
Enqueue ==
    /\ running
    /\ produced < NumEvents
    /\ produced' = produced + 1
    /\ \/ /\ Len(events) >= Capacity
          /\ dropped' = dropped + 1
          /\ UNCHANGED events
       \/ /\ Len(events) < Capacity
          /\ events' = Append(events, produced + 1)
          /\ UNCHANGED dropped
    /\ UNCHANGED <<posting, replyVars, processVars, workerPc, reachable,
                   serviceVars>>

\* DeliverReplies takes the front reply under the reply lock.
TakeReply ==
    /\ running /\ worldPc = "idle" /\ replies # <<>>
    /\ hand' = Head(replies)
    /\ replies' = Tail(replies)
    /\ worldPc' = "holding"
    /\ UNCHANGED <<eventVars, ackVars, pendingReplyIds, polled, spoken,
                   givenUp, everSpoken, processVars, workerPc, reachable,
                   serviceVars>>

\* The bot speaks the reply on its channel, outside the lock.
Speak ==
    /\ worldPc = "holding" /\ hand \in reachable
    /\ spoken' = [spoken EXCEPT ![hand] = @ + 1]
    /\ givenUp' = givenUp \ {hand}
    /\ everSpoken' = everSpoken \cup {hand}
    /\ worldPc' = "said"
    /\ UNCHANGED <<eventVars, queueVars, hand, ackVars, processVars, workerPc,
                   reachable, serviceVars>>

\* A slip: the id of an undeliverable reply is not forgotten.
GiveUpKeepingId ==
    /\ worldPc = "holding" /\ hand \notin reachable
    /\ givenUp' = givenUp \cup {hand}
    /\ hand' = NoReply
    /\ worldPc' = "idle"
    /\ UNCHANGED <<eventVars, queueVars, ackVars, spoken, everSpoken,
                   processVars, workerPc, reachable, serviceVars>>

\* No bot, no recipient or no channel: the id is forgotten, so that a later
\* poll can bring the reply back.
GiveUp ==
    /\ worldPc = "holding" /\ hand \notin reachable
    /\ pendingReplyIds' = pendingReplyIds \ {hand}
    /\ givenUp' = givenUp \cup {hand}
    /\ hand' = NoReply
    /\ worldPc' = "idle"
    /\ UNCHANGED <<eventVars, replies, ackVars, polled, spoken, everSpoken,
                   processVars, workerPc, reachable, serviceVars>>

\* A slip: the id is forgotten once spoken instead of once acknowledged.
QueueAcknowledgementForgetting ==
    /\ worldPc = "said"
    /\ acknowledgements' = Append(acknowledgements, hand)
    /\ pendingReplyIds' = pendingReplyIds \ {hand}
    /\ hand' = NoReply
    /\ worldPc' = "idle"
    /\ UNCHANGED <<eventVars, replies, batch, polled, spoken, givenUp,
                   everSpoken, processVars, workerPc, reachable, serviceVars>>

\* The spoken reply is queued for acknowledgement under the reply lock.
QueueAcknowledgement ==
    /\ worldPc = "said"
    /\ acknowledgements' = Append(acknowledgements, hand)
    /\ hand' = NoReply
    /\ worldPc' = "idle"
    /\ UNCHANGED <<eventVars, queueVars, batch, spoken, givenUp, everSpoken,
                   processVars, workerPc, reachable, serviceVars>>

----------------------------------------------------------------------------
(* The worker thread, WorkerLoop.                                          *)

TakeEvent ==
    /\ workerPc = "event" /\ running
    /\ \/ /\ events = <<>>
          /\ workerPc' = "swap"
          /\ UNCHANGED <<events, posting>>
       \/ /\ events # <<>>
          /\ posting' = Head(events)
          /\ events' = Tail(events)
          /\ workerPc' = "post"
    /\ UNCHANGED <<dropped, produced, replyVars, processVars, reachable,
                   serviceVars>>

\* POST /v1/events.  Whatever the answer, the loop goes on and the event is
\* gone from the bridge.
PostEvent ==
    /\ workerPc = "post"
    /\ \/ inbox' = inbox \cup {posting}   \* accepted, whether answered in time or not
       \/ UNCHANGED inbox                  \* never reached the service
    /\ posting' = NoEvent
    /\ workerPc' = "swap"
    /\ UNCHANGED <<events, dropped, produced, replyVars, processVars,
                   reachable, published, acked, expired, pruned, lateAcks>>

\* AcknowledgeReplies swaps the queue out under the reply lock.
SwapAcknowledgements ==
    /\ workerPc = "swap"
    /\ batch' = acknowledgements
    /\ acknowledgements' = <<>>
    /\ workerPc' = "ack"
    /\ UNCHANGED <<eventVars, queueVars, worldVars, processVars, reachable,
                   serviceVars>>

\* SoulStore.acknowledge: sets acknowledged_at if the row is there.
Acknowledge(r) == acked' = IF r \in Rows THEN acked \cup {r} ELSE acked

\* POST /v1/outbox/{id}/ack answered with 204, or 404 for a deleted row.
AckAnswered ==
    /\ workerPc = "ack" /\ batch # <<>>
    /\ Acknowledge(Head(batch))
    /\ pendingReplyIds' = pendingReplyIds \ {Head(batch)}
    /\ batch' = Tail(batch)
    /\ UNCHANGED <<eventVars, replies, worldVars, acknowledgements, polled,
                   processVars, workerPc, reachable, inbox, published,
                   expired, pruned, lateAcks>>

\* A slip: an unanswered acknowledgement is not queued again.
AckUnansweredDropped ==
    /\ workerPc = "ack" /\ batch # <<>>
    /\ batch' = Tail(batch)
    /\ UNCHANGED <<eventVars, queueVars, worldVars, acknowledgements,
                   processVars, workerPc, reachable, serviceVars>>

\* No usable answer: handled unanswered, still on its way, or never sent.
\* The id goes back to the queue and stays pending.
AckUnanswered ==
    /\ workerPc = "ack" /\ batch # <<>>
    /\ \/ /\ Acknowledge(Head(batch))
          /\ UNCHANGED lateAcks
       \/ /\ lateAcks' = lateAcks \cup {Head(batch)}
          /\ UNCHANGED acked
       \/ UNCHANGED <<acked, lateAcks>>
    /\ acknowledgements' = Append(acknowledgements, Head(batch))
    /\ batch' = Tail(batch)
    /\ UNCHANGED <<eventVars, queueVars, worldVars, processVars, workerPc,
                   reachable, inbox, published, expired, pruned>>

\* GET /v1/outbox once every acknowledgement was tried.  A failed poll, or a
\* body cut by the timeout, yields fewer rows than the service selected,
\* down to none.
Poll(n) ==
    /\ workerPc = "ack" /\ batch = <<>>
    /\ polled' = Oldest(n)
    /\ workerPc' = "parse"
    /\ UNCHANGED <<eventVars, replies, worldVars, ackVars, pendingReplyIds,
                   processVars, reachable, serviceVars>>

\* A slip: rows are queued without looking at the ids already held.
ParseReplyUnchecked ==
    /\ workerPc = "parse"
    /\ \E r \in polled :
          /\ \A q \in polled : r <= q
          /\ polled' = polled \ {r}
          /\ pendingReplyIds' = pendingReplyIds \cup {r}
          /\ replies' = Append(replies, r)
    /\ UNCHANGED <<eventVars, worldVars, ackVars, processVars, workerPc,
                   reachable, serviceVars>>

\* A slip: the rows of an answer are not taken in the order it lists them.
ParseReplyAnyOrder ==
    /\ workerPc = "parse"
    /\ \E r \in polled :
          /\ polled' = polled \ {r}
          /\ \/ /\ r \in pendingReplyIds
                /\ UNCHANGED <<pendingReplyIds, replies>>
             \/ /\ r \notin pendingReplyIds
                /\ pendingReplyIds' = pendingReplyIds \cup {r}
                /\ replies' = Append(replies, r)
    /\ UNCHANGED <<eventVars, worldVars, ackVars, processVars, workerPc,
                   reachable, serviceVars>>

\* PollReplies parses the next row; a reply already held is skipped.
ParseReply ==
    /\ workerPc = "parse"
    /\ \E r \in polled :
          /\ \A q \in polled : r <= q
          /\ polled' = polled \ {r}
          /\ \/ /\ r \in pendingReplyIds
                /\ UNCHANGED <<pendingReplyIds, replies>>
             \/ /\ r \notin pendingReplyIds
                /\ pendingReplyIds' = pendingReplyIds \cup {r}
                /\ replies' = Append(replies, r)
    /\ UNCHANGED <<eventVars, worldVars, ackVars, processVars, workerPc,
                   reachable, serviceVars>>

ParseDone ==
    /\ workerPc = "parse" /\ polled = {}
    /\ workerPc' = "event"
    /\ UNCHANGED <<eventVars, replyVars, processVars, reachable, serviceVars>>

----------------------------------------------------------------------------
(* The worldserver process.                                                *)

\* The end of the process: everything the bridge held in memory is gone.
EndProcess ==
    /\ running' = FALSE /\ workerPc' = "stopped" /\ worldPc' = "idle"
    /\ events' = <<>> /\ dropped' = 0 /\ posting' = NoEvent
    /\ replies' = <<>> /\ hand' = NoReply
    /\ acknowledgements' = <<>> /\ batch' = <<>>
    /\ pendingReplyIds' = {} /\ polled' = {}
    /\ spoken' = [r \in Replies |-> 0] /\ givenUp' = {}
    /\ UNCHANGED <<everSpoken, produced, restarts, reachable,
                   serviceVars>>

\* Stop, called by OnShutdown on the world thread.
Stop ==
    /\ running /\ worldPc = "idle"
    /\ running' = FALSE
    /\ UNCHANGED <<eventVars, replyVars, restarts, workerPc, reachable,
                   serviceVars>>

\* The worker leaves its loop, Stop joins it and the process exits.
WorkerExit ==
    /\ workerPc = "event" /\ ~running
    /\ EndProcess

Crash ==
    /\ workerPc # "stopped"
    /\ restarts < MaxRestarts
    /\ EndProcess

\* Start, called by OnStartup of the next worldserver.
Start ==
    /\ workerPc = "stopped"
    /\ restarts < MaxRestarts
    /\ restarts' = restarts + 1
    /\ running' = TRUE
    /\ workerPc' = "event"
    /\ UNCHANGED <<eventVars, replyVars, reachable, serviceVars>>

----------------------------------------------------------------------------
(* The Soul Service and the players.                                       *)

\* complete inserts a reply and, in the same transaction, deletes the rows
\* that have expired (acknowledged rows older than seven days are among them:
\* no row lives longer than fifteen minutes).  complete_ambient and
\* enqueue_proactive only insert.
Publish ==
    /\ published < NumReplies
    /\ published' = published + 1
    /\ \/ pruned' = pruned \cup expired
       \/ UNCHANGED pruned
    /\ UNCHANGED <<eventVars, replyVars, processVars, workerPc, reachable,
                   inbox, acked, expired, lateAcks>>

\* The clock passes a row's expires_at.
Expire(r) ==
    /\ r \in (1 .. published) \ expired
    /\ expired' = expired \cup {r}
    /\ UNCHANGED <<eventVars, replyVars, processVars, workerPc, reachable,
                   inbox, published, acked, pruned, lateAcks>>

\* The service handles an acknowledgement whose client no longer waits.
LateAck(r) ==
    /\ r \in lateAcks
    /\ lateAcks' = lateAcks \ {r}
    /\ Acknowledge(r)
    /\ UNCHANGED <<eventVars, replyVars, processVars, workerPc, reachable,
                   inbox, published, expired, pruned>>

\* A bot or a player logs in or out, joins or leaves a group or a channel.
Roam(r) ==
    /\ reachable' = IF r \in reachable THEN reachable \ {r}
                                       ELSE reachable \cup {r}
    /\ UNCHANGED <<eventVars, replyVars, processVars, workerPc, serviceVars>>

----------------------------------------------------------------------------
World   == TakeReply \/ Speak \/ GiveUp \/ QueueAcknowledgement
Worker  == \/ TakeEvent \/ PostEvent
           \/ SwapAcknowledgements \/ AckAnswered \/ AckUnanswered
           \/ \E n \in 0 .. PollLimit : Poll(n)
           \/ ParseReply \/ ParseDone \/ WorkerExit
Process == Stop \/ Crash \/ Start
Service == \/ Publish
           \/ \E r \in Replies : Expire(r) \/ LateAck(r)
Players == Enqueue \/ \E r \in Replies : Roam(r)

Next == World \/ Worker \/ Process \/ Service \/ Players

Spec == Init /\ [][Next]_vars

----------------------------------------------------------------------------
(* Properties.                                                             *)

InHand   == IF hand = NoReply THEN {} ELSE {hand}
InBridge == Range(replies) \cup InHand \cup Range(acknowledgements) \cup Range(batch)

\* Replies spoken by this worldserver whose acknowledgement is still to be
\* sent or to be answered.
AwaitingAck == Range(acknowledgements) \cup Range(batch)
               \cup (IF worldPc = "said" THEN {hand} ELSE {})

\* The types of the variables; the event queue respects its capacity.
TypeOK ==
    /\ running \in BOOLEAN
    /\ workerPc \in {"event", "post", "swap", "ack", "parse", "stopped"}
    /\ worldPc \in {"idle", "holding", "said"}
    /\ events \in Seq(Events) /\ Len(events) <= Capacity
    /\ dropped \in 0 .. NumEvents
    /\ posting \in Events \cup {NoEvent}
    /\ replies \in Seq(Replies)
    /\ hand \in Replies \cup {NoReply}
    /\ acknowledgements \in Seq(Replies)
    /\ batch \in Seq(Replies)
    /\ pendingReplyIds \in SUBSET Replies
    /\ polled \in SUBSET Replies
    /\ produced \in 0 .. NumEvents
    /\ reachable \in SUBSET Replies
    /\ restarts \in 0 .. MaxRestarts
    /\ inbox \in SUBSET Events
    /\ published \in 0 .. NumReplies
    /\ acked \in SUBSET Replies
    /\ expired \in SUBSET Replies
    /\ pruned \in SUBSET Replies
    /\ lateAcks \in SUBSET Replies
    /\ spoken \in [Replies -> Nat]
    /\ givenUp \in SUBSET Replies
    /\ everSpoken \in SUBSET Replies

\* One worldserver speaks a reply at most once, however often the outbox
\* offers it, whichever acknowledgements are lost or late, and however the
\* two threads interleave (the deduplication by _pendingReplyIds).
SpokenOncePerRun == \A r \in Replies : spoken[r] <= 1

\* An id is in _pendingReplyIds exactly while some stage of the bridge holds
\* the reply: an id left behind would mute its reply for good, a missing one
\* would let the next poll bring the reply in twice.
PendingIdsTracked == pendingReplyIds = InBridge

\* Until its row is acknowledged or deleted, a spoken reply is owed an
\* acknowledgement: failed ones are queued again (AcknowledgeReplies).
AckOwed ==
    \A r \in Replies : spoken[r] > 0 /\ r \in Rows \ acked => r \in AwaitingAck

\* The outbox row of a reply is acknowledged, at once or by a late request,
\* only if a worldserver has spoken it: an undeliverable reply is not lost.
AckedOnlyIfSpoken == acked \cup lateAcks \subseteq everSpoken

\* Nothing keeps a later reply waiting for q any more: it was acknowledged,
\* has expired, was spoken by this worldserver, or could not be delivered
\* when its turn came.
Passed(q) == q \in acked \cup expired \cup givenUp \/ spoken[q] > 0

\* Replies are spoken in the order they were created.  A reply overtakes an
\* older one only if that one had its turn and its bot, recipient or channel
\* was away (DeliverReplies); an answer that is cut short, the skipping of
\* held ids, lost acknowledgements and new rows never reorder them.
SpokenInOrder ==
    [][\A r \in Replies : spoken'[r] > spoken[r] =>
           \A q \in Replies : q < r => Passed(q)]_vars

\* The inductive invariant behind the properties above.  Each held reply is
\* held once; replies in the queue or just taken from it are unspoken, those
\* awaiting acknowledgement were spoken once; a spoken reply whose id was
\* forgotten has its row acknowledged or deleted, so that it is in no poll's
\* answer.
PhaseOK ==
    /\ worldPc = "idle" <=> hand = NoReply
    /\ workerPc # "ack" => batch = <<>>
    /\ workerPc # "parse" => polled = {}
    /\ workerPc = "post" => posting \in Events
    /\ dropped <= produced
    /\ pruned \subseteq expired
    /\ polled \cup pendingReplyIds \cup expired \cup everSpoken \subseteq 1 .. published

HeldOnce ==
    /\ IsInjective(replies) /\ IsInjective(acknowledgements) /\ IsInjective(batch)
    /\ Range(replies) \cap Range(acknowledgements) = {}
    /\ Range(replies) \cap Range(batch) = {}
    /\ Range(acknowledgements) \cap Range(batch) = {}
    /\ hand \notin Range(replies) \cup Range(acknowledgements) \cup Range(batch)

SpokenTracked ==
    /\ \A r \in Range(replies) : spoken[r] = 0
    /\ worldPc = "holding" => spoken[hand] = 0
    /\ \A r \in AwaitingAck : spoken[r] = 1
    /\ \A r \in Replies :
          spoken[r] > 0 => /\ r \in everSpoken
                           /\ r \in pendingReplyIds \/ r \notin Rows \ acked
    /\ \A r \in polled : spoken[r] > 0 => r \in pendingReplyIds

IInv == /\ TypeOK /\ PhaseOK /\ HeldOnce /\ PendingIdsTracked
        /\ SpokenTracked /\ SpokenOncePerRun /\ AckedOnlyIfSpoken

\* What is older than a reply in the bridge has passed or is ahead of it: the
\* invariant behind SpokenInOrder, inductive together with IInv.
OrderTracked ==
    /\ \A i \in DOMAIN replies : \A q \in Replies : q < replies[i] =>
          \/ Passed(q)
          \/ worldPc = "holding" /\ q = hand
          \/ \E j \in DOMAIN replies : j < i /\ replies[j] = q
    /\ worldPc = "holding" => \A q \in Replies : q < hand => Passed(q)
    /\ \A r \in polled : \A q \in Replies : q < r =>
          Passed(q) \/ q \in polled \cup pendingReplyIds

\* The bridge implements the abstract delivery of replies.
RD == INSTANCE ReplyDelivery
          WITH created <- published, said <- spoken,
               heard <- everSpoken, settled <- acked
DeliversReplies == RD!Spec

\* docs/PROJECT.md: "Expired replies are not spoken."
ExpiredNotSpoken ==
    [][\A r \in Replies : spoken'[r] > spoken[r] => r \notin expired]_vars

\* mod-soulbridge/README.md: "Worker threads own transport and retry."  While
\* the first worldserver runs and no event was dropped for want of room, an
\* event that has not reached the service is still held by the bridge.
UnsentEventKept ==
    running /\ restarts = 0 /\ dropped = 0 =>
        \A e \in 1 .. produced :
            e \in Range(events) \cup {posting} \cup inbox

----------------------------------------------------------------------------
(* Liveness.  World updates recur and the worker thread keeps running while *)
(* the process is up; a request repeated for ever is sometimes answered.    *)

Fairness ==
    /\ WF_vars(World)
    /\ WF_vars(Worker)
    /\ SF_vars(AckAnswered)
    /\ SF_vars(Poll(PollLimit))

FairSpec == Spec /\ Fairness

\* A pending reply does not stay pending for ever while the worldserver is up
\* and its bot, recipient and channel are there: it is spoken and its
\* acknowledgement reaches the service, or it expires.  It supposes that all
\* pending replies fit one poll.
DeliverableIsSettled ==
    \A r \in Replies : []<>(r \notin Pending \/ r \notin reachable \/ ~running)

\* A spoken reply is eventually acknowledged (or its row deleted), even if
\* the bot has left since, unless the worldserver stops.
SpokenIsAcknowledged ==
    \A r \in Replies : spoken[r] > 0 ~> (r \notin Rows \ acked \/ ~running)

=============================================================================
