----------------------------- MODULE SoulService ----------------------------
(***************************************************************************)
(* The Soul Service half of the message path: the way of an event from     *)
(* POST /v1/events to a row of the outbox (soul-service/src/soulforge/     *)
(* server.py and world.py).                                                *)
(*                                                                         *)
(* Request threads insert the event into the events table and then put a   *)
(* job on one bounded in-memory queue; a single worker takes the jobs in   *)
(* order and runs them to an end through several generations and several   *)
(* transactions.  The owner turns the AI kill switch, the service restarts *)
(* and rows expire at any moment in between.  Each action is one           *)
(* transaction, or one generation with the check of the switch after it.   *)
(*                                                                         *)
(* Three kinds of event differ in what the worker does with them: direct   *)
(* chat, ambient chat of random bots, and gameplay events.  A world is     *)
(* supposed to be active.  The jobs of the forge and of the presence        *)
(* monitor share the queue and the worker: of them this module keeps only  *)
(* that they come at any time, that they end or fail, and that the report  *)
(* of a failure may itself end the worker; the modules Companions and      *)
(* Director follow what they do.  The session buffer and the souls' own    *)
(* memories are not part of this module.                                   *)
(***************************************************************************)
EXTENDS Integers, Sequences, FiniteSets, Functions

CONSTANTS DirectEvents,    \* chat with a companion (dialogue)
          AmbientEvents,   \* chat near a random bot (dialogue_tier ambient)
          GameEvents,      \* gameplay events (social_event)
          QueueCapacity,   \* maxsize=2048 of the job queue
          KeptEvents,      \* the 2,000 completed events that are kept
          BufferSize,      \* the 12 exchanges world_memory_candidates keeps
          CompactAt,       \* the 8 exchanges that ask for a compaction
          MaxPosts,        \* bound on the requests to POST /v1/events
          MaxRestarts      \* bound on restarts of the service

Events  == DirectEvents \cup AmbientEvents \cup GameEvents
NoJob   == "no job"
Compaction == "memory_compaction"
Story   == "story"    \* world_forge or director_event: a failure is reported
Visit   == "visit"    \* session_reflection or return_callback: it is not
OtherJobs == {Compaction, Story, Visit}

ASSUME ServiceAssumption ==
    /\ DirectEvents \cap AmbientEvents = {}
    /\ DirectEvents \cap GameEvents = {}
    /\ AmbientEvents \cap GameEvents = {}
    /\ Events \cap (OtherJobs \cup {NoJob}) = {}
    /\ QueueCapacity \in Nat \ {0}
    /\ KeptEvents \in Nat
    /\ BufferSize \in Nat /\ CompactAt \in Nat \ {0}
    /\ MaxPosts \in Nat
    /\ MaxRestarts \in Nat

\* The sources of outbox rows (source_event_id): an event, or its ":banter".
Sources   == Events \X {"reply", "banter"}
Reply(e)  == <<e, "reply">>
Banter(e) == <<e, "banter">>

VARIABLES
    status,      \* events.status, "absent" when the row is not there
    accepting,   \* events committed by accept whose job is still to be queued
    jobs,        \* self.jobs
    pc, job,     \* what _worker is doing, and for which job; pc may be "dead"
    ai,          \* self.ai_enabled
    reactions,   \* the keys of social_reactions
    outbox,      \* the sources of the rows in the outbox
    expired,     \* those whose expires_at has passed
    buffer,      \* number of rows in world_memory_candidates
    posts,       \* requests received
    restarts,    \* restarts so far
    forgotten,   \* events whose row was ever deleted
    inserted,    \* how many rows each source was ever given
    allowance    \* rows the worker may still insert after a switch-off

workerVars  == <<pc, job>>
eventVars   == <<status, accepting, posts, forgotten>>
outboxVars  == <<outbox, expired, inserted, allowance>>
vars == <<eventVars, jobs, workerVars, ai, reactions, outboxVars, buffer, restarts>>

Init ==
    /\ status = [e \in Events |-> "absent"]
    /\ accepting = {} /\ jobs = <<>>
    /\ pc = "idle" /\ job = NoJob
    /\ ai = TRUE
    /\ reactions = {} /\ outbox = {} /\ expired = {}
    /\ buffer = 0 /\ posts = 0 /\ restarts = 0
    /\ forgotten = {} /\ inserted = [s \in Sources |-> 0]
    /\ allowance = 0

----------------------------------------------------------------------------
(* POST /v1/events.                                                        *)

\* A slip: accept replaces the row of an event it already has.
AcceptReplacing(e) ==
    /\ posts < MaxPosts
    /\ posts' = posts + 1
    /\ status' = [status EXCEPT ![e] = "queued"]
    /\ accepting' = accepting \cup {e}
    /\ UNCHANGED <<forgotten, jobs, workerVars, ai, reactions, outboxVars,
                   buffer, restarts>>

\* accept inserts the row and commits; the job is queued after that.
Accept(e) ==
    /\ posts < MaxPosts
    /\ status[e] = "absent"
    /\ posts' = posts + 1
    /\ status' = [status EXCEPT ![e] = "queued"]
    /\ accepting' = accepting \cup {e}
    /\ UNCHANGED <<forgotten, jobs, workerVars, ai, reactions, outboxVars,
                   buffer, restarts>>

\* INSERT OR IGNORE finds the event_id: the client is told "duplicate".
AcceptDuplicate(e) ==
    /\ posts < MaxPosts
    /\ status[e] # "absent"
    /\ posts' = posts + 1
    /\ UNCHANGED <<status, accepting, forgotten, jobs, workerVars, ai,
                   reactions, outboxVars, buffer, restarts>>

\* A slip: the queue takes one job too many.
QueueJobOneTooMany(e) ==
    /\ e \in accepting
    /\ accepting' = accepting \ {e}
    /\ \/ Len(jobs) <= QueueCapacity /\ jobs' = Append(jobs, e)
       \/ /\ Len(jobs) > QueueCapacity \/ e \in GameEvents
          /\ UNCHANGED jobs
    /\ UNCHANGED <<status, posts, forgotten, workerVars, ai, reactions,
                   outboxVars, buffer, restarts>>

\* put_nowait: a full queue raises, and so may record_session_event, called
\* before it for a gameplay event; the request then ends without an answer
\* although its event is stored.
QueueJob(e) ==
    /\ e \in accepting
    /\ accepting' = accepting \ {e}
    /\ \/ Len(jobs) < QueueCapacity /\ jobs' = Append(jobs, e)
       \/ /\ Len(jobs) >= QueueCapacity \/ e \in GameEvents
          /\ UNCHANGED jobs
    /\ UNCHANGED <<status, posts, forgotten, workerVars, ai, reactions,
                   outboxVars, buffer, restarts>>

\* The presence monitor or POST /admin/v1/world/forge puts a job of another
\* kind; on a full queue put_nowait raises and nothing happens here.
QueueOther ==
    /\ Len(jobs) < QueueCapacity
    /\ \E other \in {Story, Visit} : jobs' = Append(jobs, other)
    /\ UNCHANGED <<eventVars, workerVars, ai, reactions, outboxVars, buffer, restarts>>

----------------------------------------------------------------------------
(* The worker.                                                             *)

Finish == pc' = "idle" /\ job' = NoJob
GoTo(next) == pc' = next /\ UNCHANGED job

\* UPDATE events SET status=s for the event in hand, if its row is there.
Settle(s) ==
    /\ status' = [status EXCEPT ![job] = IF @ = "absent" THEN @ ELSE s]
    /\ UNCHANGED <<accepting, posts, forgotten>>

TakeJob ==
    /\ pc = "idle" /\ jobs # <<>>
    /\ job' = Head(jobs)
    /\ jobs' = Tail(jobs)
    /\ pc' = "start"
    /\ UNCHANGED <<eventVars, ai, reactions, outboxVars, buffer, restarts>>

\* A slip: a job that failed is tried again at once.
JobFailsRetrying ==
    /\ pc \notin {"idle", "dead"}
    /\ pc' = "start" /\ UNCHANGED job
    /\ UNCHANGED <<eventVars, jobs, ai, reactions, outboxVars, buffer, restarts>>

\* Any exception in a job: AI switched off before or during a generation, a
\* provider that fails or answers nonsense, a locked database.  The event
\* keeps its status and nothing runs it again; the failure of a forge or of a
\* story beat is reported (update_job, release_plan).
JobFails ==
    /\ pc \notin {"idle", "dead"}
    /\ Finish
    /\ UNCHANGED <<eventVars, jobs, ai, reactions, outboxVars, buffer, restarts>>

\* The report raises in its turn: the exception leaves the loop of _worker,
\* and with it the only thread that takes jobs ends.
WorkerDies ==
    /\ pc = "start" /\ job = Story
    /\ pc' = "dead" /\ job' = NoJob
    /\ UNCHANGED <<eventVars, jobs, ai, reactions, outboxVars, buffer, restarts>>

\* A job of another kind runs to its end.
RunOther ==
    /\ pc = "start" /\ job \in {Story, Visit}
    /\ Finish
    /\ UNCHANGED <<eventVars, jobs, ai, reactions, outboxVars, buffer, restarts>>

\* _dialogue does nothing while AI is off.
Refuse ==
    /\ pc = "start" /\ job \in DirectEvents \cup AmbientEvents /\ ~ai
    /\ Finish
    /\ UNCHANGED <<eventVars, jobs, ai, reactions, outboxVars, buffer, restarts>>

\* build_prompt finds the soul disabled.
PauseSoul ==
    /\ pc = "start" /\ job \in DirectEvents /\ ai
    /\ Settle("paused") /\ Finish
    /\ UNCHANGED <<jobs, ai, reactions, outboxVars, buffer, restarts>>

\* _ambient_dialogue or _social_event turn the event down: disabled, wrong
\* channel, cooldown or chance; not notable, or no companion took part.
TurnDown ==
    /\ pc = "start"
    /\ \/ job \in AmbientEvents /\ ai
       \/ job \in GameEvents
    /\ Settle("ignored") /\ Finish
    /\ UNCHANGED <<jobs, ai, reactions, outboxVars, buffer, restarts>>

\* The prompt is built; a gameplay event goes through triage first.
Prompt ==
    /\ pc = "start" /\ ai
    /\ \/ job \in DirectEvents \cup AmbientEvents /\ GoTo("generate")
       \/ job \in GameEvents /\ GoTo("triage")
    /\ UNCHANGED <<eventVars, jobs, ai, reactions, outboxVars, buffer, restarts>>

\* Triage decides against a reaction, or claim_reaction refuses it because
\* the speaker spoke a moment ago or the event was claimed before.
NoReaction ==
    /\ pc = "triage" /\ ai
    /\ Settle("ignored") /\ Finish
    /\ UNCHANGED <<jobs, ai, reactions, outboxVars, buffer, restarts>>

\* claim_reaction records the reaction before its line is generated.
ClaimReaction ==
    /\ pc = "triage" /\ ai
    /\ Reply(job) \notin reactions
    /\ reactions' = reactions \cup {Reply(job)}
    /\ GoTo("generate")
    /\ UNCHANGED <<eventVars, jobs, ai, outboxVars, buffer, restarts>>

\* A slip: the switch is not looked at again when the reply arrives.
AnswerUnchecked ==
    /\ pc = "generate"
    /\ GoTo("commit")
    /\ UNCHANGED <<eventVars, jobs, ai, reactions, outboxVars, buffer, restarts>>

\* The reply arrives, is not empty, and AI is still on.
Answer ==
    /\ pc = "generate" /\ ai
    /\ GoTo("commit")
    /\ UNCHANGED <<eventVars, jobs, ai, reactions, outboxVars, buffer, restarts>>

\* The reply is empty or a narration (or "[silence]"), or AI went off after
\* it came: ambient and gameplay events are dismissed, a direct one is left.
NoAnswer ==
    /\ pc = "generate"
    /\ \/ job \in DirectEvents /\ UNCHANGED eventVars
       \/ job \in AmbientEvents \cup GameEvents /\ Settle("ignored")
    /\ Finish
    /\ UNCHANGED <<jobs, ai, reactions, outboxVars, buffer, restarts>>

\* INSERT OR IGNORE INTO outbox, keyed by the source.
Insert(s) ==
    /\ inserted' = [inserted EXCEPT ![s] = IF s \in outbox THEN @ ELSE @ + 1]
    /\ allowance' = IF ai \/ s \in outbox THEN allowance ELSE allowance - 1

Completed == {e \in Events : status'[e] = "complete"}

\* SoulStore.complete, one transaction: the row, the status, the pruning of
\* completed events (by age or beyond the newest KeptEvents; which ones are
\* old is left open) and of expired rows, and the exchange for the world's
\* memory.  Afterwards a message to a group may draw a second companion in.
Complete ==
    /\ pc = "commit" /\ job \in DirectEvents
    /\ Insert(Reply(job))
    /\ outbox' = (outbox \cup {Reply(job)}) \ expired
    /\ expired' = {}
    /\ \E gone \in SUBSET {e \in Events : status[e] = "complete" \/ e = job} :
          /\ status' = [e \in Events |-> IF e \in gone THEN "absent"
                                         ELSE IF e = job THEN "complete"
                                         ELSE status[e]]
          /\ Cardinality(Completed) <= KeptEvents
          /\ forgotten' = forgotten \cup gone
    /\ buffer' = IF buffer < BufferSize THEN buffer + 1 ELSE BufferSize
    /\ \/ GoTo("banter")
       \/ GoTo("finish")
    /\ UNCHANGED <<accepting, posts, jobs, ai, reactions, restarts>>

\* complete_ambient, one transaction, without any pruning.
CompleteAmbient ==
    /\ pc = "commit" /\ job \in AmbientEvents
    /\ Insert(Reply(job))
    /\ outbox' = outbox \cup {Reply(job)}
    /\ Settle("complete") /\ Finish
    /\ UNCHANGED <<expired, jobs, ai, reactions, buffer, restarts>>

\* enqueue_proactive for a gameplay event ...
EnqueueReaction ==
    /\ pc = "commit" /\ job \in GameEvents
    /\ Insert(Reply(job))
    /\ outbox' = outbox \cup {Reply(job)}
    /\ GoTo("mark")
    /\ UNCHANGED <<eventVars, expired, jobs, ai, reactions, buffer, restarts>>

\* ... and mark_complete, in a transaction of its own.
MarkComplete ==
    /\ pc = "mark"
    /\ Settle("complete") /\ Finish
    /\ UNCHANGED <<jobs, ai, reactions, outboxVars, buffer, restarts>>

\* _banter_followup: no second companion, or none that wants to speak, or
\* claim_reaction refuses.
NoBanter ==
    /\ pc = "banter"
    /\ GoTo("finish")
    /\ UNCHANGED <<eventVars, jobs, ai, reactions, outboxVars, buffer, restarts>>

\* A slip: the key of the follow-up is not looked up.
ClaimBanterAgain ==
    /\ pc = "banter" /\ ai
    /\ reactions' = reactions \cup {Banter(job)}
    /\ GoTo("followup")
    /\ UNCHANGED <<eventVars, jobs, ai, outboxVars, buffer, restarts>>

ClaimBanter ==
    /\ pc = "banter" /\ ai
    /\ Banter(job) \notin reactions
    /\ reactions' = reactions \cup {Banter(job)}
    /\ GoTo("followup")
    /\ UNCHANGED <<eventVars, jobs, ai, outboxVars, buffer, restarts>>

FollowUp ==
    /\ pc = "followup" /\ ai
    /\ GoTo("followCommit")
    /\ UNCHANGED <<eventVars, jobs, ai, reactions, outboxVars, buffer, restarts>>

\* A slip: the follow-up that stays silent dismisses the event.
NoFollowUpDismissing ==
    /\ pc = "followup"
    /\ Settle("ignored") /\ GoTo("finish")
    /\ UNCHANGED <<jobs, ai, reactions, outboxVars, buffer, restarts>>

NoFollowUp ==
    /\ pc = "followup"
    /\ GoTo("finish")
    /\ UNCHANGED <<eventVars, jobs, ai, reactions, outboxVars, buffer, restarts>>

EnqueueFollowUp ==
    /\ pc = "followCommit"
    /\ Insert(Banter(job))
    /\ outbox' = outbox \cup {Banter(job)}
    /\ GoTo("finish")
    /\ UNCHANGED <<eventVars, expired, jobs, ai, reactions, buffer, restarts>>

\* The end of _dialogue: a buffer that is long enough asks for a compaction;
\* a full queue raises and the request is dropped.
EndDialogue ==
    /\ pc = "finish"
    /\ \/ /\ buffer >= CompactAt /\ Len(jobs) < QueueCapacity
          /\ jobs' = Append(jobs, Compaction)
       \/ /\ buffer < CompactAt \/ Len(jobs) >= QueueCapacity
          /\ UNCHANGED jobs
    /\ Finish
    /\ UNCHANGED <<eventVars, ai, reactions, outboxVars, buffer, restarts>>

\* _compact_world_memory: nothing to do, or a generation and then one
\* transaction that removes the exchanges it was given.  Only the worker
\* adds exchanges, so they are all there are.
Compact ==
    /\ pc = "start" /\ job = Compaction
    /\ buffer = 0 \/ ai
    /\ buffer' = 0
    /\ Finish
    /\ UNCHANGED <<eventVars, jobs, ai, reactions, outboxVars, restarts>>

----------------------------------------------------------------------------
(* The owner, the clock and the host.                                      *)

\* The worker is past its last look at the switch and about to insert.
Committed == pc \in {"commit", "followCommit"}

\* PUT /admin/v1/ai/state.
Switch ==
    /\ ai' = ~ai
    /\ allowance' = IF ai /\ Committed THEN 1 ELSE 0
    /\ UNCHANGED <<eventVars, jobs, workerVars, reactions, outbox, expired,
                   inserted, buffer, restarts>>

Expire(s) ==
    /\ s \in outbox \ expired
    /\ expired' = expired \cup {s}
    /\ UNCHANGED <<eventVars, jobs, workerVars, ai, reactions, outbox, inserted,
                   allowance, buffer, restarts>>

\* The service stops at any point and starts again.  The tables stay; the
\* queue, the requests and the job in hand are gone; a new worker is started.
Restart ==
    /\ restarts < MaxRestarts
    /\ restarts' = restarts + 1
    /\ accepting' = {} /\ jobs' = <<>>
    /\ Finish
    /\ UNCHANGED <<status, posts, forgotten, ai, reactions, outboxVars, buffer>>

----------------------------------------------------------------------------
Requests == \E e \in Events : Accept(e) \/ AcceptDuplicate(e) \/ QueueJob(e)
Worker   == \/ TakeJob \/ JobFails \/ WorkerDies \/ RunOther
            \/ Refuse \/ PauseSoul \/ TurnDown \/ Prompt
            \/ NoReaction \/ ClaimReaction \/ Answer \/ NoAnswer
            \/ Complete \/ CompleteAmbient \/ EnqueueReaction \/ MarkComplete
            \/ NoBanter \/ ClaimBanter \/ FollowUp \/ NoFollowUp
            \/ EnqueueFollowUp \/ EndDialogue \/ Compact
Next == Requests \/ QueueOther \/ Worker \/ Switch \/ Restart \/ \E s \in Sources : Expire(s)

Spec == Init /\ [][Next]_vars

----------------------------------------------------------------------------
(* Properties.                                                             *)

Statuses == {"absent", "queued", "paused", "ignored", "complete"}
Pcs == {"idle", "dead", "start", "triage", "generate", "commit", "mark", "banter",
        "followup", "followCommit", "finish"}

\* The worker has its event in hand and may still answer it.
Unanswered == pc \in {"start", "triage", "generate", "commit"}
InHand     == IF Unanswered /\ job \in Events THEN {job} ELSE {}

\* Events the service still means to answer.
Held == accepting \cup (Range(jobs) \cap Events) \cup InHand

\* The types of the variables; the job queue respects its bound.
TypeOK ==
    /\ status \in [Events -> Statuses]
    /\ accepting \in SUBSET Events
    /\ jobs \in Seq(Events \cup OtherJobs) /\ Len(jobs) <= QueueCapacity
    /\ pc \in Pcs
    /\ job \in Events \cup OtherJobs \cup {NoJob}
    /\ ai \in BOOLEAN
    /\ reactions \in SUBSET Sources
    /\ outbox \in SUBSET Sources
    /\ expired \in SUBSET Sources
    /\ buffer \in 0 .. BufferSize
    /\ posts \in 0 .. MaxPosts
    /\ restarts \in 0 .. MaxRestarts
    /\ forgotten \in SUBSET Events
    /\ inserted \in [Sources -> Nat]
    /\ allowance \in Int

\* While its row is kept, an event is answered at most once, however often it
\* is posted, though rows of the outbox expire and are deleted: event
\* ingestion is idempotent (test_event_ingestion_is_idempotent), and a
\* restart does not run an event again.
AnsweredOnce == \A e \in Events \ forgotten : inserted[Reply(e)] <= 1

\* "One human party message may cause at most one relationship-driven
\* companion follow-up" (docs/PROJECT.md), even if the message is posted
\* again after its row was deleted, and only once it was itself answered.
OneFollowUp ==
    \A e \in Events : /\ inserted[Banter(e)] <= 1
                      /\ inserted[Banter(e)] > 0 => inserted[Reply(e)] > 0

\* An event is completed only if it was given a row of the outbox, whatever
\* fails or stops between the row and the status (_social_event writes them
\* in two transactions).
CompleteIsAnswered ==
    \A e \in Events : status[e] = "complete" => inserted[Reply(e)] > 0

\* The kill switch: once AI is off no further row is created, but for one
\* whose reply had passed its last check before ("AI was disabled while the
\* response was in flight", _route_generation).
KillSwitchHolds == ~ai => allowance >= 0

\* A settled event is never opened again, nor a completed one dismissed,
\* until its row is deleted.
SettledStays ==
    [][\A e \in Events :
          status[e] \in {"paused", "ignored", "complete"} =>
              \/ status'[e] = status[e]
              \/ status[e] = "complete" /\ status'[e] = "absent"]_vars

\* "durable inbox" (docs/PROJECT.md): the events a restart interrupts are
\* still to be answered after it.
InboxDurable ==
    [][restarts' # restarts =>
          \A e \in Held : status'[e] = "queued" => e \in Held']_vars

\* The inductive invariant behind the properties above.  An event is held in
\* one place at most and is "queued" while it is; one that is held, or not yet
\* accepted, has no row unless it was forgotten; a row is behind every
\* completed event and every follow-up; a follow-up about to be made was
\* claimed and has no row; after a switch-off the allowance covers the worker.
PhaseOK ==
    /\ pc \in {"idle", "dead"} <=> job = NoJob
    /\ pc \in {"triage", "mark"} => job \in GameEvents
    /\ pc \in {"generate", "commit"} => job \in Events
    /\ pc \in {"banter", "followup", "followCommit", "finish"} => job \in DirectEvents

HeldOnce ==
    /\ accepting \cap Range(jobs) = {}
    /\ InHand \cap (accepting \cup Range(jobs)) = {}
    /\ \A i, j \in DOMAIN jobs : jobs[i] = jobs[j] /\ jobs[i] \in Events => i = j
    /\ \A e \in Held : status[e] = "queued"
    /\ pc = "mark" => status[job] = "queued" /\ job \notin Held

AnswersTracked ==
    /\ \A e \in Events \ forgotten :
          e \in Held \/ status[e] = "absent" => inserted[Reply(e)] = 0
    /\ \A s \in outbox : inserted[s] > 0
    /\ pc \in {"mark", "banter", "followup", "followCommit"} =>
          inserted[Reply(job)] > 0

FollowUpsTracked ==
    /\ \A e \in Events : inserted[Banter(e)] > 0 => Banter(e) \in reactions
    /\ pc \in {"followup", "followCommit"} =>
          inserted[Banter(job)] = 0 /\ Banter(job) \in reactions

AllowanceCovers == ~ai => allowance >= IF Committed THEN 1 ELSE 0

IInv == /\ TypeOK /\ PhaseOK /\ HeldOnce /\ AnswersTracked /\ FollowUpsTracked
        /\ AllowanceCovers /\ AnsweredOnce /\ OneFollowUp /\ CompleteIsAnswered

\* The way of an event through requests, queue, worker and restarts
\* implements the abstract answering of events: only an event that was absent
\* is opened, only an open one is answered or dismissed, and a follow-up comes
\* once and only after the answer.
EA == INSTANCE EventAnswering
          WITH open <- Held,
               replies <- [e \in Events |-> inserted[Reply(e)]],
               followUps <- [e \in Events |-> inserted[Banter(e)]]
AnswersEvents == EA!Spec

----------------------------------------------------------------------------
(* Liveness.  The request threads and the worker keep running; a generation *)
(* ends, because every provider request has a timeout.                     *)

FairSpec == Spec /\ WF_vars(Worker) /\ \A e \in Events : WF_vars(QueueJob(e))

\* No event waits for ever, whatever fails in the jobs before it: it is taken
\* up and brought to an end (or dropped), unless the report of a failed forge
\* or story beat fails as well, which ends the worker, and the service is
\* never started again.
NothingWaitsForever ==
    \A e \in Events : []<>(e \notin Held) \/ <>[](pc = "dead")

=============================================================================
