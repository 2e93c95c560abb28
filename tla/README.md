# Formal verification of Azeroth Soulforge

TLA+ models of the parts of Soulforge where several threads, processes and
crashes meet, TLC configurations that check them on small instances, and TLAPS
proofs of what matters most for every value of the parameters. Paths below are
relative to the repository's root.

    tlc -workers 2 -config SoulBridge_delivery.cfg SoulBridge
    tlapm SoulBridge_proofs.tla

## 1. The system

Soulforge puts language-model companions into a private AzerothCore realm.

    worldserver process                  soul-service process           host
    +------------------------+  events   +--------------------------+
    | hooks -> event queue   | --------> | request threads -> events|
    | (world thread)         |   POST    |   table + job queue      |
    |        worker thread   |           | worker: one generation   |
    | reply queue <- poll    | <-------- |   at a time -> outbox    |
    | world thread speaks    |   ack     | presence monitor ------->| control agent
    +------------------------+ --------> +--------------------------+  stop, presence
            ^ chat                               ^ admin API
      players, addon                         dashboard

| Component | State | Operations | Hard part |
|---|---|---|---|
| Soulbridge (`mod-soulbridge/src/SoulBridgeModule.cpp`) | event, reply, roster and acknowledgement queues, pending ids | Enqueue, WorkerLoop, DeliverReplies, AcknowledgeReplies, PollReplies, roster | two threads, three mutexes, synchronous HTTP with timeouts, crash of the worldserver |
| Event pipeline (`soul-service/src/soulforge/server.py`) | tables events, outbox, reactions, buffers; job queue | POST events, worker's jobs, kill switch | several transactions per job, in-memory queue over a durable table, restart |
| Director (`server.py`, `world.py`) | sessions, plans, callbacks, presence state | monitor tick, reflections, greetings, automatic stop | any exception abandons a tick; restarts; readings that are old when used |
| Forge and companions (`server.py`, `world.py`) | worlds, bindings, souls, forge jobs, skill documents | forge, activate, promote, seed, edit, write the document | several transactions per forge, request threads beside the worker, a lock, a full queue |
| World memory (`world.py`) | memories, relationships, moods | compact, update | bounds on retained rows, clamps; one transaction each |
| AI control (`server.py`, `world.py`, `providers.py`) | kill switch in memory and in the table, cap, profiles, routes, usage | PUT ai state, PUT settings, PUT routing, save and delete providers, generate | two copies changed in opposite orders, statements of two requests interleaved, cost booked after the call |
| Control agent (`control-agent/server.py`) | the realm's configuration files, containers | POST settings, start, stop, restart, presence | threads that rewrite one file by way of one temporary file, no lock, a restart of the realm at the end |
| Authentication (`server.py`) | nonces, admin sessions, login attempts | signed requests, login | nonces are deleted while requests with the same ones may arrive |
| Addon (`addons/SoulforgeCommander`) | companions, pending roster, assembly queue | sync, assemble, edit | messages from a server that may stop in the middle |
| Reference broker (`broker.py`) | events, replies | accept, enqueue, acknowledge | none, a lock around each operation |
| Dashboard, scripts, site, contracts | - | - | not modelled |

**How they interact.** The bridge and the service share nothing but HTTP. The
bridge's two threads share deques under mutexes. The service's request threads,
worker and monitor share SQLite (one transaction at a time) and a few plain
attributes (`ai_enabled`, `humans_online`, ...) without locks. The monitor and
the admin API reach the realm only through the control agent.

**What makes each correct.**

- Bridge: a reply is spoken at most once by one worldserver, however often the
  outbox offers it; an id is pending exactly while the reply is held; a spoken
  reply is acknowledged in the end; nothing is acknowledged unspoken.
- Pipeline: an event is answered once; a message causes one follow-up; the
  kill switch stops rows; the status and the row agree whatever stops between
  the transactions; nothing waits behind a failing job for ever.
- Director: a story beat happens once; a callback is used as often as it may;
  sessions end when people leave; an empty realm is stopped, once.
- Forge and companions: a forge that says it is complete made the world, with
  every founder bound, seeded and shaped; one that says it is under way is; a
  companion that is bound has a soul; a document shows the soul as it is.
- AI control: an AI switched off stays off until somebody switches it on; memory
  and table agree; spending passes the cap by one call at most; a route leads
  somewhere.
- Control agent: files are never seen in pieces, what belongs together is
  written together, and a worldserver on outdated settings is restarted.

The hazards behind these properties are listed, each with its line, in
`PROJECT.json`.

## 2. Modules

### ReplyDelivery: what the delivery path promises

Four variables and four actions: rows are created, a reply is said at most once
in the life of one worldserver, it is settled only after it was heard, and a new
session may say it again ("at-least-once until acknowledgement; consumers
deduplicate by reply ID").

### EventAnswering: what the pipeline promises of an event

An event that is taken in is open. An open event is answered, dismissed or,
when its job fails or the service stops, dropped: it stays `queued` and is never
opened again. Only an answered event is complete, only completed events are
deleted, and an answered event draws one follow-up at most.

### WorldForging: what the forge promises the owner

A forge that is asked for is queued, runs and ends, complete or failed, each of
these once. The first running forge that gets so far makes the world, no other
ever does. Only that forge, while it runs, makes the world ready (its founders
bound, with souls and the profiles made for them), and it is complete only then.

### SoulBridge: the worldserver half

One action per critical section or HTTP exchange of `class Bridge`.

| Code | Model |
|---|---|
| `Enqueue`, `EnqueueGameplay` | `Enqueue` (drops when the queue is full) |
| `DeliverReplies` | `TakeReply`, then `Speak` and `QueueAcknowledgement`, or `GiveUp` |
| `WorkerLoop` | `workerPc`: event, post, swap, ack, parse |
| POST of an event | `PostEvent`: arrives or not; the loop does not care |
| `AcknowledgeReplies` | `SwapAcknowledgements`, `AckAnswered` (204 and 404), `AckUnanswered` (not handled, handled unanswered, or handled later by `LateAck`) |
| `PollReplies` | `Poll(n)` (any prefix of the oldest pending rows), `ParseReply`, `ParseDone` |
| `Start`, `Stop`, crash | `Start`, `Stop` and `WorkerExit`, `Crash` |
| service side of the exchange | `Publish`, `Expire`, `LateAck` |

Whether a bot, its recipient and the channel are there changes at any time
(`Roam`). Abstractions: the limit of five replies per world update is left out
(an update may deliver any number); acknowledging one reply is atomic with its
effect on the row unless it is late; rows with a malformed guid, which the code
skips, and the deletion of acknowledged rows after seven days, which comes after
their expiry, are left out; the roster leg has its own queues. `created_at` is in
whole seconds: rows of one second come in the order of their rows in the table,
which the model takes as the order of creation. The ghost
`givenUp` holds the replies whose turn came in vain and that this worldserver has
not spoken since: they are what may be overtaken.

### SoulService: the service half

One action per transaction, or per generation together with the look at the kill
switch that follows it. Events are direct chat, ambient chat or gameplay; they
differ in what the worker does with them.

| Code | Model |
|---|---|
| POST `/v1/events` | `Accept` or `AcceptDuplicate`, then `QueueJob` (or the job is lost: queue full, or `record_session_event` raised) |
| `_worker` | `TakeJob`, `JobFails` (any exception), `WorkerDies` (the report of a forge's or a beat's failure raises as well) |
| jobs of forge, director and presence, which share the queue | `QueueOther`, `RunOther` |
| `_dialogue` | `Refuse`, `PauseSoul`, `Prompt`, `Answer`/`NoAnswer`, `Complete`, then the follow-up, `EndDialogue` |
| `_ambient_dialogue` | `TurnDown`, `Prompt`, `Answer`/`NoAnswer`, `CompleteAmbient` |
| `_social_event` | `TurnDown`, `Prompt`, `NoReaction`/`ClaimReaction`, `Answer`/`NoAnswer`, `EnqueueReaction`, `MarkComplete` |
| `_banter_followup` | `NoBanter`/`ClaimBanter`, `FollowUp`/`NoFollowUp`, `EnqueueFollowUp` |
| `_compact_world_memory` | `EndDialogue` asks for it, `Compact` |
| `PUT /admin/v1/ai/state` | `Switch` |

Left open: which completed rows are old enough to be pruned, cooldowns, chances
and what the model says. Supposed: a world is active. Not in it: the souls' own
memories, relationship updates, acknowledgements (SoulBridge has them). What the
jobs of the forge and the monitor do is in Companions and Director; here they
take places in the queue and the worker's time, fail, and may end the worker: the
handler in `_worker` writes to the database when a forge or a beat has failed
(server.py:774-778), and an exception there ends the only thread that takes jobs.
`NothingWaitsForever` therefore says that an event is let go sooner or later
unless the worker has ended for good; while it has, accepted events do wait,
until the service is restarted and forgets them.

Ghost variables: `inserted` counts the rows a source was ever given,
`forgotten` holds the events whose row was deleted, `allowance` is the number of
rows the worker may still insert after the switch went off.

### Director: the narrative life of a world

| Code | Model |
|---|---|
| `_presence_monitor` | `monitorPc`: `ReadPresence`/`PresenceUnavailable`, `Record`/`RecordQueueFull`/`RecordFails`, `ClaimPlan`/`NoPlan`, `StopRealm`/`StopUnanswered`/`KeepRealm` |
| `record_presence` | `RecordSession` |
| `_director_event`, `finish_plan`, `release_plan` | `TellPlan`, `FinishPlan`, `LeavePlan`, `FailPlan`; `WorkerDies` when `release_plan` raises |
| `_reflect_session` | `StartReflection`, `FinishReflection` |
| `_return_callback`, `claim_callback` | `ClaimCallback`, `Greet` |
| `record_session_event` | `PickSession`, `FileSummary` |
| control agent | the second half of `ReadPresence` (a failed query is read as nobody), `StopRealm`, `StartRealm` |

Time is counted in ticks of the monitor: `emptyFor` grows with each one up to
`Grace`, `played` with each one between two readings that saw somebody. Plan p
is due after p ticks. One human stands for all of them. A reflection leaves one
callback at most; a session's summaries are one element. `visited` is a ghost:
did a tick that ran to its end see a human since the last answered automatic
stop, and was it in this run of the service ("now") or an earlier one
("before"). The other ghosts remember what the tables forget: `reflected` the
sessions that were reflected on, `straggling` those that ended while a request
was between its look for the open session and its insertion, `stranded` the
plans that a full queue, a missing text, the end of the worker or a restart left
armed without a job.

### AIControl: the owner's hold on the AI

Request threads run the handlers statement by statement (`pc` in `threads`),
because each of them opens several connections and keeps a copy in memory.

| Code | Model |
|---|---|
| `PUT /admin/v1/ai/state` | `PutState`, `MergeState` (what the request leaves out is read), `WriteState` (one transaction writes all of it), `RereadState`, `AssignState` (memory last); `StateFails` (an invalid field, or the database refuses a statement) |
| `PUT /admin/v1/server/settings` | `PutSettings`, `ReadDialogueRoute`, `CheckProvider`, `SaveDialogueRoute`, `AssignSwitch` (memory first), `RejectSettings`, `StoreSettings` |
| `PUT /admin/v1/ai/routing` | `PutRouting`, `CheckProvider`, `SaveRoute`, `SaveRouteFails` (the foreign key) |
| providers | `SaveProvider`, `DeleteProvider` |
| `_route_generation` | `StartGeneration`, `ReadProfile`, `ReadCap`, `ReadUsage`, `FinishCall`, `FailCall` |
| `SoulforgeServer.__init__` | `Start`, or `ImportProvider` and `ImportRoute` |

One route stands for the four, and of the profiles there are the local one and
one that costs money. Only the worker calls a provider for money here: the
provider test of the admin API, which looks at neither the switch nor the cap
and books nothing, and the owner's message to a companion are left out, and so is
a profile of kind ollama that carries costs: a local call is taken as free.

What the kill switch promises is weaker than its name, and `SwitchStaysOff` says
how much is left of it. Two behaviours of the code undo it, and both are in the
model:

- `PUT /admin/v1/server/settings` with `souls_enabled` true sets `ai_enabled` in
  memory (server.py:1663) before later fields are checked (1668) and before the
  table is written: a request that is rejected leaves AI awake, until the next
  request that sets the switch or the next start (`AssignSwitch`,
  `RejectSettings`).
- `save_ai_state` reads the whole state, completes the request with it and writes
  all of it in a later transaction: a change of the cap that read the switch
  before AI was switched off writes it back on (`MergeState`, `WriteState`).

Ghosts: `killed` is set when a request that switches AI off is answered with
memory and table off, whatever else is under way, and taken back only when a
request is stored that asked for AI (`on` in its thread), or one that had read it
as on before (`old`, marked on the other threads at that moment) takes that to
the table or to memory. `woken` says that a
request that asks for AI has set memory on since, stored or not. The property
says that while `killed` holds the table is off, through rejected requests,
changes of the cap that begin later, and restarts, and that memory is on only if
`woken` does; `woken` does not outlive the process. `high` is the highest cap of
the month, `torn` says that a request overlapped another or failed halfway since
the start. With `torn` the two copies of the switch do come apart; a start of
the service brings them together again.

### ControlAgent: the realm's configuration files

| Code | Model |
|---|---|
| `POST /v1/settings` | `Receive`, `SetLimit`, `SetHouse`, `SetType`, `Skip`, `Reject`, then `Check` |
| `write_config_value` | `ReadFile`, `OpenTemp`, `WriteTemp`, `Replace`, `ReplaceFails` |
| restart at the end of the request, `POST /v1/actions/...` | `Check`/`CheckFails`, `RestartDown`, `StartWorld`, `DockerFails`, `Action` |

A thread's handle follows the file it opened (`Moved`): when another thread
renames the shared temporary file, what is written goes into the file itself,
and the second rename fails with a FileNotFoundError that no handler catches. A
file is a function from its lines to values, so a file seen half-written lacks
lines. One numeric setting, the auction house and the realm type stand for the
settings, which are written by the same function. `harm` is a ghost: the worst
that has happened so far, two requests writing one file at a time or one that
ended between the two keys of the auction house. `realm` is "stale" while a
worldserver runs on files that have changed since it started.

### Companions: the forge and who lives in the world

| Code | Model |
|---|---|
| `POST /admin/v1/world/forge` | `CreateForgeJob`, then `PutJob` or `QueueFull` |
| `_forge_world` | `TakeForge`, `Activate` (one transaction), then `NextFounder`, `SeedSoul`, `ShapeSoul`, `GuideSoul` for each founder, `CompleteForge` |
| failures | `ForgeFails` anywhere, then `ReportFailure`, or `WorkerDies` when the report raises as well |
| `POST /admin/v1/world/companions` | `Promote`, `SeedSoul` |
| edits of souls, skill documents and memories, dialogues | `TouchSoul`, `NameSoul` |
| `_materialize_skill` | `ReadSoul` (takes the lock), `WriteDocument` or `WriteFails` (releases it) |
| crash and start | `Restart` |

A document is current or it is not; each change of a soul makes the document and
every copy of the tables in some thread's hands out of date. Ghosts: `lost`
holds the forges a full queue, a dead worker or a restart cut off, `unsown` the
companions whose seeding a failure or restart cut off, `behind` the souls whose
document failed to be written. Each ghost names the failure the code has no
answer to; the properties say that nothing else can go wrong. No operation ends
a world, so `world` is set once. Abstractions: `TakeForge` takes the job off the
queue and reports it as running in one step; a promotion whose seeding raises
looks like one that a restart cut off; each soul has a file of its own, as long
as the names of the souls differ after sanitising (server.py:615).

`WorkerDies` is not far-fetched: when `activate_world` raises in the middle of
its transaction (a plan of the model without a number of minutes is enough),
the traceback keeps the connection and its write lock alive while the handler
calls `update_job` over another connection, which waits ten seconds and raises
in its turn, and nothing restarts the thread.

### SignedRequests: each request is accepted once

`_authorized` and `remember_nonce`: `Receive` reads the clock and compares it
with the signed time, `Remember` is the transaction that deletes old nonces and
inserts the new one, `Refuse` the failed insertion or the locked database,
`Restart` the service with the same table. Time has no bound here, so the module
has a proof and no run. Supposed: signers do not repeat a nonce (they draw
UUIDs), the service's clock does not go back, and no handler waits longer than
`Delay` between its reading of the clock and its transaction.

## 3. What the runs check

| Run | Instance | Shows |
|---|---|---|
| `SoulBridge_delivery` | 2 events, 2 replies, capacity 1, one restart | type invariant, `SpokenOncePerRun`, `PendingIdsTracked`, `AckOwed`, `SpokenInOrder`, refinement of ReplyDelivery |
| `SoulBridge_liveness` | 1 event, 2 replies, no restart, fair | `DeliverableIsSettled`, `SpokenIsAcknowledged` |
| `SoulService_pipeline` | one event of each kind, 3 posts, jobs of other kinds, one restart, fair | type invariant, `AnsweredOnce`, `OneFollowUp`, `KillSwitchHolds`, refinement of EventAnswering, `NothingWaitsForever` |
| `Director_sessions` | 2 logins and 1 misreading (3 sessions), grace 2, a queue of 2, one request filing summaries, one restart | `CallbacksExpire`, `ReflectedOnce`, `SummariesForgotten`, `StopsOncePerAbsence` |
| `Director_plans` | 2 plans, 1 login, grace 2, 1 deleted row, no summaries, one restart, fair | type invariant, `OccursOnce`, `ArmedAccounted`, `SessionsEnd`, `EmptyRealmStops` |
| `AIControl_switch` | 2 request threads, caps 0 and 1, cost at most 2, a key in the environment | type invariant, `SwitchStaysOff`, `SwitchAgrees`, `BudgetHolds`, `RouteExists` |
| `ControlAgent_files` | 2 requests, two files of three lines | type invariant, `FilesWhole`, `HouseHasCharacter`, `ChangesAreLoaded` |
| `Companions_forge` | 1 request thread and the worker, 2 forges, 2 characters of whom 1 founder, queue of 1, fair | type invariant, `CompleteMeansReady`, `UnderWay`, `BoundHasSoul`, `DocumentCurrent`, refinement of WorldForging, `ForgeSettles` |

Why the bounds are enough to be interesting: two replies are needed for a batch
of acknowledgements, an answer that is cut, and an order; capacity 1 with two
events reaches the full queue; one restart separates two worldservers or two
runs of the service. Three posts allow each kind of event once, or one of them
again after its row was pruned (`KeptEvents` = 1), beside another. Jobs of other
kinds are bounded by the queue alone. Three sessions are
one more than a callback's uses need. Queue capacity 1 makes a full job queue
common; `Director_sessions` has room for two jobs, so that a session could wait
twice. Every number is a CONSTANT; `MaxPosts`, `MaxRestarts`, `MaxLogins`,
`MaxMisreads`, `MaxRecording`, `MaxPrunes`, `NumEvents` and `NumReplies` bound the environment
only. Two request threads are what a race needs, and the properties of AIControl
and ControlAgent are proved for any number of them. `MaxSpent` caps what is
booked at the highest cap plus one call, the first sum that breaks `BudgetHolds`. In Companions a request thread and the worker make two writers of one
document; two forges with a queue of one give a second request that passes the
first look for a world, a full queue, and a second forge that finds the world
made. A second character is promoted without being a founder. The safety
properties of every module are also proved without bounds.

Deadlock is checked in every run. The modules never stop because the clock, the
players or the owner can always act.

### Where the documents and the code differ

Each run below checks one sentence of the documents, and TLC finds it violated.

| Run | The document | What the code does |
|---|---|---|
| `SoulBridge_ExpiredNotSpoken` | "Expired replies are not spoken." (docs/PROJECT.md:149) | expiry is tested by the poll only; a reply that waits in the bridge is spoken however old |
| `SoulBridge_UnsentEventKept` | "Worker threads own transport and retry." (mod-soulbridge/README.md:40) | an event is posted once; any failure loses it (acknowledgements are retried) |
| `SoulService_InboxDurable` | "durable inbox" (docs/PROJECT.md:58) | the row survives a restart, the job does not, and a second post is a duplicate |
| `Director_StopsAfterLastLogout` | "auto-stops after the configurable grace period following the last human logout" (docs/PROJECT.md:578) | a service restarted after the logout has forgotten when the realm emptied |

Further differences, without a run of their own:

- "Raw event payloads retain at most ... 2,000 completed events"
  (docs/PROJECT.md:182-183): only `complete` prunes; `complete_ambient` and
  `mark_complete` add completed rows without bound until the next direct reply.
- A start never "overwrites an existing provider profile or route"
  (docs/PROJECT.md:622-623): the import
  of the environment's key looks for the profile only, so an owner who deletes
  `openai-primary` and routes elsewhere finds the director and dialogue routes
  rewritten after the next start (`ImportRoute`).
- "Each event can move a relationship by at most five points"
  (docs/PROJECT.md:195-196): `apply_social_updates` limits each update to five
  points, but takes up to twelve updates of the same pair from one event.
- Beyond the cap the local provider steps in, but it is asked for the model
  name of the route to the paid one (server.py:795).
- `select_dungeon_group` fills the roles one after the other from a sorted list;
  a hybrid taken as the tank can leave no healer although another choice of
  tank would have, and the forge then reports that none was generated.

Met while modelling: a plan stays `armed` for ever after an empty text, a
switch-off, a full queue or a crash (`ArmedAccounted` says that nothing else
does this to a plan); a summary that is filed after its session was reflected on
is never deleted (`SummariesForgotten` says which ones these can be). Not stated
as properties, because no sentence promises otherwise: an abandoned tick can leave the grace counting from an
earlier absence; a realm the owner starts after a stop that timed out is
stopped once more; twenty undeliverable replies fill every poll.

## 4. Fairness

- Bridge: world updates recur and the worker thread runs while the process is
  up (WF on each thread). The poll and the acknowledgement are repeated every
  poll interval, so a network that is not down for ever answers one of them
  (SF on `AckAnswered` and on a full `Poll`). Restarts, events and players are
  not fair. `DeliverableIsSettled` supposes that all pending replies fit one
  poll (`PollLimit` >= `NumReplies`); otherwise the oldest starve the others.
- Service: request threads and the worker run (WF); a generation ends because
  every provider request has a timeout. Nothing keeps a failure from ending the
  worker: `NothingWaitsForever` allows for that openly, and says that any other
  failure leaves no event waiting. It says nothing of what becomes of an event
  that is let go, which may be dropped.
- Director: the monitor and the worker run (WF). The monitor repeats its request
  and its transaction every thirty seconds, so they succeed again and again if
  they are possible (SF on `ReadPresence`, on the transaction of
  `record_presence`, on `StopRealm`). The worker may die: that is why only
  properties of the monitor are stated with it.
- Companions: handlers come to their end (WF on each step that is not a choice
  of the environment), since the waits for the control agent, the provider and
  the database have timeouts. A thread that waits for the lock gets it although
  others take it again and again, and the forge at the head of the queue has its
  turn although the worker is busy with dialogues in between (SF on `ReadSoul`
  and `TakeForge`). Nothing makes a failure or its report happen: `ForgeSettles`
  allows for a forge that was cut off and for a dead worker.

## 5. Proofs

Each proof module proves inductive invariants of its module, for every value of
the constants the named assumption allows (`BridgeAssumption`,
`ServiceAssumption`, `DirectorAssumption`, `CompanionsAssumption`,
`AIControlAssumption`, `ControlAgentAssumption`; for SignedRequests the hypothesis
`Window`), and each safety property from them. TLC checked the
strengthenings on the instances above first.

**Bridge.** `SpokenOncePerRun` is not inductive: a reply that is spoken and
polled again is told apart from a new one only by the pending ids. `IInv` says
that each held reply is held in one place (`HeldOnce`), that the pending ids are
the held replies (`PendingIdsTracked`), and (`SpokenTracked`) that queued replies
are unspoken, those awaiting acknowledgement were spoken once, and a spoken
reply whose id was forgotten has its row acknowledged or deleted, hence is in no
later answer of the outbox; an answer given earlier lists it only while its id
is pending, since one thread both polls and acknowledges. `AckOwed` and the
refinement of ReplyDelivery follow from `IInv`; each step of the bridge is a
step of ReplyDelivery or a stutter.

`SpokenInOrder`, an action property, needs a second invariant beside `IInv`.
Replies that lie in the queue are in the order of their creation, but that says
nothing of an older reply that is in no queue at all: one left out of a poll
because its id was pending, or offered by a poll that was answered before it
existed. `OrderTracked` says of each place a reply can be in (the answer being
parsed, the queue, the world thread's hand) that every older reply is ahead of
it or `Passed`: acknowledged, expired, spoken, or given up (for an answer being
parsed: listed there too, or held already) (`OrderInvariance`). The lemma that carries the proof
is `OldestFirst`: a poll lists the oldest pending rows, so what precedes a listed row is listed with it or is
no longer pending. With `givenUp` only ever added to by a give-up, the property
says that nothing but a bot, recipient or channel that is away reorders chat.

**Service.** `IInv` says that an event is held in one place at most (request
thread, queue, worker) and is `queued` while it is (`HeldOnce`), that a held or
absent event has no row unless its row was once deleted (`AnswersTracked`), that
a follow-up about to be made was claimed and has no row (`FollowUpsTracked`),
and that the allowance covers the worker (`AllowanceCovers`).

The refinement (`Answering`) maps `open` to the events some stage of the service
holds and the rows of the outbox's sources to `replies` and `followUps`. Every
step of the handlers is one step of EventAnswering or a stutter: the claim of a
reaction, the prompt and the generation change nothing that is promised; a
failed job, a lost one and a restart all are `Drop`. It says in one formula what
`CompletedWasAnswered` and `SettledForGood` say apart: a completed event was
given a row, and a settled one keeps its status until its row is deleted. These
two are theorems on their own as well, without a run of their own.

**Director.** `OccursOnce` follows from `PlansHeldOnce`: a plan is in the queue or
in the worker's hand once at most and armed while it is, since only a planned
one is claimed and only the worker that holds it releases it; so `finish_plan`
meets a plan that has not occurred. `PlansDue` (a plan that was claimed or told
was due, however often it was released since) gives the other half: nothing is
told before its time. `GreetingsCounted` (a greeting under way was
counted) bounds the greetings by the uses and gives `CallbacksExpire`.
`VisitTracked` (while the period of grace runs unanswered, a tick has seen a
human, and a tick that has just read somebody has reset the period) gives
`StopsOncePerAbsence`, an action property. `SessionsCounted` (behind
each session is a login or a misread reading) gives every session its number in
the type invariant. With it `ReflectedOnce` is inductive: numbers are never used
again, a reflection is queued only by the tick that closes its session, and that
tick cannot find the same session open once more, whether it is abandoned after
its transaction, another thread's job fills the queue, or the service restarts
in between. `SummariesForgotten` needs to know under which sessions requests are
about to file: `Filed` adds that each is the open one or ended meanwhile
(`FiledUnderOpen`), since a session that was reflected on is no longer open.
`ArmedAccounted` is inductive beside `PlansHeldOnce`: a plan leaves the queue
and the worker's hand only into a settled status or `stranded`, and no step takes
up a stranded plan again.

**Companions.** `Holding` says what a handler has in hand at each step: without
it a founder at hand might have no soul. `Locked` ties the lock to the one who
writes. `DocumentCurrent` needs that a document that is not current is followed
by a writer whose copy is (`DocumentsFollow`), and that a writer whose copy has
become old has another behind it (`StaleFollowed`): the change that made it old
is going to write as well. `ForgeInHand` says that founders whose turn is over
are seeded and shaped, which `CompleteForge` turns into `CompleteMeansReady`.

The refinement of WorldForging (`TheForgeForges`) maps `ready` to the founders
being bound, seeded and shaped. It needs to know that the forge in the worker's
hand is the one reported as running, and no other: `HeldOnce` says that a forge
is in one place (a thread about to queue it, the queue, the worker's hand), with
the status of that place. `Founded` (a world has its founders bound, who is
shaped has a soul) makes `ready` depend on the profiles alone, so that no edit,
dialogue, promotion or document touches it. The refinement says more than
`CompleteMeansReady`: a world whose forge failed before the last profile is
never made ready, since no operation takes the founders up again, and a forge
that ended never changes its status.

**AIControl.** The type invariant says besides which values a thread holds at
each step. `RouteExists` is inductive with the type: the foreign key protects
the route from the deletion, and a start either finds the profile or makes it.
`BudgetHolds` needs that a call for money under way was allowed below the
highest cap, or that the cap was lifted. `SwitchStaysOff` needs to know, of every
thread that holds AI as on while `killed` holds, that its request asked for it
or that it had read it before (`Covered`): the answer that switches AI off marks
all the readers there are, and a thread that reads later reads 0. `Asked` keeps
the two sources apart: what the settings carry was asked for, what
`save_ai_state` reads again for its answer was not. For `SwitchAgrees`, `InStep`
says how far apart the two copies are at each step of a request that runs alone.

**ControlAgent.** A lemma (`Shapes`) sorts the steps into eight shapes; each
invariant then has one case per shape. `LoadedInv`: a stale worldserver has a
thread that changed something and has not reached its start. `SoundInv`: as long
as no two threads met on a file, files are whole, a text is the file as it is
with one line changed, and a temporary file is what its writer wrote. `HouseInv`
follows the auction house through its two keys.

**SignedRequests.** `NoReplay` supposes `Window`: nonces are kept for twice the
skew and the longest delay (`CodeHasMargin`: with 30 and 300 seconds a delay of
240 is bearable, and each wait for the database ends after 10). `InTime` ties
rows and handlers to the clock: a row is at most `Skew` older than the signed
time, so by the time anybody's transaction deletes it, the clock is past every
handler that could still hold the same request.

The listed theorems are named in `PROJECT.json`. For each there is a run that
checks the same formula, but for `NoReplay`, which has none, and for three that a
refinement a run checks contains:
`NoAckUnspoken` (in ReplyDelivery a reply is settled only after it was said),
`CompletedWasAnswered` and `SettledForGood` (EventAnswering).

**Only model-checked.** The liveness properties (`DeliverableIsSettled`,
`SpokenIsAcknowledged`, `NothingWaitsForever`, `SessionsEnd`, `EmptyRealmStops`,
`ForgeSettles`): temporal reasoning about fairness and ENABLED is outside the
prover.

## 6. Plan

1. (done) SoulBridge with ReplyDelivery, SoulService, Director.
2. (done) AIControl, ControlAgent, Companions.
3. (done) The safety properties of all of these proved, the refinements of
   ReplyDelivery, EventAnswering and WorldForging and the order of speaking
   among them.
4. (done) SignedRequests: an accepted nonce is remembered as long as its request
   is acceptable.
5. Roster: the bridge's roster requests composed with the addon's parser, over
   system messages that stop in the middle.

## 7. Not modelled

- World memories, relationships and moods: `apply_social_updates`,
  `finish_memory_compaction` and their like are single transactions of the one
  worker; what they do is clamp, truncate and count, without an interleaving to
  check.
- Authentication beyond the nonces: HMAC, password comparison, admin sessions and
  login attempts, the secrets' cipher.
- The roster leg of the bridge and the addon (planned), the hooks' filters and
  JSON (pure functions on game data), the HTTP dialects of the providers, the
  current events feed, the dashboard, scripts, containers and the site.
- `SoulBridgeQueue` and `broker.py`: a queue and an in-memory broker that only
  their own tests use.
