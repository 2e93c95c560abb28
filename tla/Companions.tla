----------------------------- MODULE Companions -----------------------------
(***************************************************************************)
(* How a world comes to be and who lives in it: the forge, the companions'  *)
(* bindings and souls, and the skill document on disk that shows each soul  *)
(* (soul-service/src/soulforge/server.py and world.py).                     *)
(*                                                                         *)
(* The owner's requests and the one worker change the tables in several     *)
(* transactions each.  Whoever has changed a soul, or the memories that     *)
(* belong to it, writes its document anew under a lock, from what the       *)
(* tables hold by then.                                                     *)
(*                                                                         *)
(* What a soul says is left out: a document is current or it is not, and a  *)
(* copy of the tables is current until the soul changes again.  Characters  *)
(* keep their names.                                                        *)
(***************************************************************************)
EXTENDS Integers, Sequences

CONSTANTS Threads,       \* request threads
          Forges,        \* requests to forge a world, in any order
          Bots,          \* the characters of the realm
          Founders,      \* those select_dungeon_group binds
          QueueCapacity  \* maxsize=2048 of the job queue

CONSTANT Worker          \* the inference thread

Actors  == Threads \cup {Worker}
Nobody  == "nobody"
NoForge == "no forge"

ASSUME CompanionsAssumption ==
    /\ Worker \notin Threads /\ Founders \subseteq Bots
    /\ Nobody \notin Actors \cup Bots /\ NoForge \notin Forges
    /\ QueueCapacity \in Nat \ {0}

\* What an actor is doing and what it does once a document is written, for
\* which forge and which character, whether the copy of the soul it holds is
\* current, and the founders it is still to seed.
Idle == [pc |-> "idle", then |-> "idle", forge |-> NoForge, bot |-> Nobody,
         current |-> FALSE, todo |-> {}]

Steps == {"idle", "put", "seed", "document", "write", "activate", "next", "shape",
          "guide", "fail", "dead"}
After == {"idle", "shape", "guide", "next"}
Handlers ==
    [pc : Steps, then : After, forge : Forges \cup {NoForge}, bot : Bots \cup {Nobody},
     current : BOOLEAN, todo : SUBSET Founders]

VARIABLES
    world,      \* the forge that made the active world
    status,     \* generation_jobs.status
    queue,      \* self.jobs
    bindings,   \* companion_bindings
    souls,      \* souls with a row
    shaped,     \* founders that were given the profile the model made for them
    shown,      \* souls whose SKILL.md shows what the tables hold
    actors,     \* request threads and the worker
    lock,       \* self._profile_lock
    lost,       \* forges that a full queue, or the end of the worker or of the
                \* service cut off
    unsown,     \* companions whose seeding was cut off
    behind      \* souls whose document a failure left behind

ghosts == <<lost, unsown, behind>>
vars   == <<world, status, queue, bindings, souls, shaped, shown, actors, lock, ghosts>>

Init ==
    /\ world = NoForge
    /\ status = [f \in Forges |-> "none"]
    /\ queue = <<>>
    /\ bindings = {} /\ souls = {} /\ shaped = {} /\ shown = {}
    /\ actors = [a \in Actors |-> Idle]
    /\ lock = Nobody
    /\ lost = {} /\ unsown = {} /\ behind = {}

----------------------------------------------------------------------------
At(a, pc) == actors[a].pc = pc
Bot(a)    == actors[a].bot
Set(a, x) == actors' = [actors EXCEPT ![a] = x]
Done(a)   == Set(a, Idle)

\* Where an actor goes once the document is written.
Onward(a) == IF actors[a].then = "idle" THEN Idle
             ELSE [actors[a] EXCEPT !.pc = actors[a].then, !.current = FALSE]

\* The soul of b, or a memory of it, changes: its document is out of date,
\* and so is every copy; the actor goes on to write the document.
Changes(a, b, then) ==
    /\ souls' = souls \cup {b}
    /\ shown' = shown \ {b}
    /\ actors' = [x \in Actors |->
          IF x = a THEN [actors[a] EXCEPT !.pc = "document", !.then = then, !.bot = b]
          ELSE IF Bot(x) = b THEN [actors[x] EXCEPT !.current = FALSE] ELSE actors[x]]

----------------------------------------------------------------------------
(* _materialize_skill.                                                     *)

\* A slip: the tables are read before the lock is taken.
ReadSoulUnlocked(a) ==
    /\ At(a, "document")
    /\ Set(a, [actors[a] EXCEPT !.pc = "write", !.current = TRUE])
    /\ UNCHANGED <<world, status, queue, bindings, souls, shaped, shown, lock, ghosts>>

\* Under the lock the soul and its memories are read ...
ReadSoul(a) ==
    /\ At(a, "document") /\ lock = Nobody
    /\ lock' = a
    /\ Set(a, [actors[a] EXCEPT !.pc = "write", !.current = TRUE])
    /\ UNCHANGED <<world, status, queue, bindings, souls, shaped, shown, ghosts>>

\* ... and the document is written and put into place.
WriteDocument(a) ==
    /\ At(a, "write")
    /\ shown' = IF actors[a].current THEN shown \cup {Bot(a)} ELSE shown \ {Bot(a)}
    /\ behind' = IF actors[a].current THEN behind \ {Bot(a)} ELSE behind
    /\ lock' = Nobody
    /\ Set(a, Onward(a))
    /\ UNCHANGED <<world, status, queue, bindings, souls, shaped, lost, unsown>>

\* A slip: the lock is not released when the exception leaves.
WriteFailsHolding(a) ==
    /\ At(a, "write")
    /\ behind' = behind \cup {Bot(a)}
    /\ IF actors[a].forge = NoForge THEN Done(a)
       ELSE Set(a, [actors[a] EXCEPT !.pc = "fail"])
    /\ UNCHANGED <<world, status, queue, bindings, souls, shaped, shown, lock, lost, unsown>>

\* The disk is full: the exception ends the request or the forge.
WriteFails(a) ==
    /\ At(a, "write")
    /\ behind' = behind \cup {Bot(a)}
    /\ lock' = Nobody
    /\ IF actors[a].forge = NoForge THEN Done(a)
       ELSE Set(a, [actors[a] EXCEPT !.pc = "fail"])
    /\ UNCHANGED <<world, status, queue, bindings, souls, shaped, shown, lost, unsown>>

----------------------------------------------------------------------------
(* Requests, and what the worker does beside forging.                      *)

\* PATCH of a soul, PUT and GET of its skill document, DELETE of a memory,
\* and in the worker the two memories that complete makes of a dialogue.
TouchSoul(a) ==
    /\ At(a, "idle")
    /\ \E b \in souls : Changes(a, b, "idle")
    /\ UNCHANGED <<world, status, queue, bindings, shaped, lock, ghosts>>

\* POST /admin/v1/souls, and build_prompt of the worker, for any character.
NameSoul(a) ==
    /\ At(a, "idle")
    /\ \E b \in Bots : Set(a, [Idle EXCEPT !.pc = "seed", !.bot = b])
    /\ UNCHANGED <<world, status, queue, bindings, souls, shaped, shown, lock, ghosts>>

\* A slip: the companion is left to the next dialogue.
PromoteUnseeded(t) ==
    /\ At(t, "idle") /\ world # NoForge
    /\ \E b \in Bots : bindings' = bindings \cup {b}
    /\ UNCHANGED <<world, status, queue, souls, shaped, shown, actors, lock, ghosts>>

\* POST /admin/v1/world/companions binds a bot, unless it is bound ...
Promote(t) ==
    /\ At(t, "idle") /\ world # NoForge
    /\ \E b \in Bots :
          /\ bindings' = bindings \cup {b}
          /\ Set(t, [Idle EXCEPT !.pc = "seed", !.bot = b])
    /\ UNCHANGED <<world, status, queue, souls, shaped, shown, lock, ghosts>>

Seeded(a) == IF actors[a].forge = NoForge THEN "idle" ELSE "shape"

\* ... and seed_soul gives it a soul, unless it has one; the document is
\* written in either case.
SeedSoul(a) ==
    /\ At(a, "seed")
    /\ IF Bot(a) \in souls
       THEN /\ Set(a, [actors[a] EXCEPT !.pc = "document", !.then = Seeded(a)])
            /\ UNCHANGED <<souls, shown>>
       ELSE Changes(a, Bot(a), Seeded(a))
    /\ unsown' = unsown \ {Bot(a)}
    /\ UNCHANGED <<world, status, queue, bindings, shaped, lock, lost, behind>>

\* POST /admin/v1/world/forge: create_forge_job, if there is no world ...
CreateForgeJob(t) ==
    /\ At(t, "idle") /\ world = NoForge
    /\ \E f \in Forges :
          /\ status[f] = "none"
          /\ status' = [status EXCEPT ![f] = "queued"]
          /\ Set(t, [Idle EXCEPT !.pc = "put", !.forge = f])
    /\ UNCHANGED <<world, queue, bindings, souls, shaped, shown, lock, ghosts>>

\* A slip: the queue may grow one too long.
PutJobOneTooMany(t) ==
    /\ At(t, "put") /\ Len(queue) <= QueueCapacity
    /\ queue' = Append(queue, actors[t].forge)
    /\ Done(t)
    /\ UNCHANGED <<world, status, bindings, souls, shaped, shown, lock, ghosts>>

\* ... and then the job for the worker.
PutJob(t) ==
    /\ At(t, "put") /\ Len(queue) < QueueCapacity
    /\ queue' = Append(queue, actors[t].forge)
    /\ Done(t)
    /\ UNCHANGED <<world, status, bindings, souls, shaped, shown, lock, ghosts>>

\* queue.Full, which the handler does not catch.
QueueFull(t) ==
    /\ At(t, "put") /\ Len(queue) >= QueueCapacity
    /\ lost' = lost \cup {actors[t].forge}
    /\ Done(t)
    /\ UNCHANGED <<world, status, queue, bindings, souls, shaped, shown, lock, unsown, behind>>

----------------------------------------------------------------------------
(* _forge_world.                                                           *)

TakeForge ==
    /\ At(Worker, "idle") /\ queue # <<>>
    /\ queue' = Tail(queue)
    /\ status' = [status EXCEPT ![Head(queue)] = "running"]
    /\ Set(Worker, [Idle EXCEPT !.pc = "activate", !.forge = Head(queue)])
    /\ UNCHANGED <<world, bindings, souls, shaped, shown, lock, ghosts>>

\* A slip: the world is not looked for again.
ActivateAgain ==
    /\ At(Worker, "activate")
    /\ world' = actors[Worker].forge
    /\ bindings' = bindings \cup Founders
    /\ Set(Worker, [actors[Worker] EXCEPT !.pc = "next", !.todo = Founders])
    /\ UNCHANGED <<status, queue, souls, shaped, shown, lock, ghosts>>

\* activate_world makes the world, its bindings, memories and plans in one
\* transaction ...
Activate ==
    /\ At(Worker, "activate") /\ world = NoForge
    /\ world' = actors[Worker].forge
    /\ bindings' = bindings \cup Founders
    /\ Set(Worker, [actors[Worker] EXCEPT !.pc = "next", !.todo = Founders])
    /\ UNCHANGED <<status, queue, souls, shaped, shown, lock, ghosts>>

\* ... and then gives the founders their souls, one by one (seed_soul) ...
NextFounder ==
    /\ At(Worker, "next")
    /\ \E b \in actors[Worker].todo :
          Set(Worker, [actors[Worker] EXCEPT !.pc = "seed", !.bot = b, !.todo = @ \ {b}])
    /\ UNCHANGED <<world, status, queue, bindings, souls, shaped, shown, lock, ghosts>>

\* ... with the profile the model made for it (update_soul) ...
ShapeSoul ==
    /\ At(Worker, "shape")
    /\ Changes(Worker, Bot(Worker), "guide")
    /\ shaped' = shaped \cup {Bot(Worker)}
    /\ UNCHANGED <<world, status, queue, bindings, lock, ghosts>>

\* ... and its guidance, if there is any (update_skill_document) ...
GuideSoul ==
    /\ At(Worker, "guide")
    /\ \/ Changes(Worker, Bot(Worker), "next")
       \/ /\ Set(Worker, [actors[Worker] EXCEPT !.pc = "next"])
          /\ UNCHANGED <<souls, shown>>
    /\ UNCHANGED <<world, status, queue, bindings, shaped, lock, ghosts>>

\* A slip: the forge is complete once the world is active.
CompleteEarly ==
    /\ At(Worker, "next")
    /\ status' = [status EXCEPT ![actors[Worker].forge] = "complete"]
    /\ Done(Worker)
    /\ UNCHANGED <<world, queue, bindings, souls, shaped, shown, lock, ghosts>>

\* ... before the job is complete.
CompleteForge ==
    /\ At(Worker, "next") /\ actors[Worker].todo = {}
    /\ status' = [status EXCEPT ![actors[Worker].forge] = "complete"]
    /\ Done(Worker)
    /\ UNCHANGED <<world, queue, bindings, souls, shaped, shown, lock, ghosts>>

\* The control agent or the model fails, there is a world, the group cannot
\* be formed, the database is locked, or the model's guidance is refused.
ForgeFails ==
    /\ \E pc \in {"activate", "next", "seed", "shape", "guide"} : At(Worker, pc)
    /\ actors[Worker].forge # NoForge
    /\ Set(Worker, [actors[Worker] EXCEPT !.pc = "fail"])
    /\ UNCHANGED <<world, status, queue, bindings, souls, shaped, shown, lock, ghosts>>

Unseeded(a) == (actors[a].todo \cup {Bot(a)}) \ (souls \cup {Nobody})

\* A slip: the exception is only logged.
ReportFailureOnlyLogged ==
    /\ At(Worker, "fail")
    /\ unsown' = unsown \cup Unseeded(Worker)
    /\ Done(Worker)
    /\ UNCHANGED <<world, status, queue, bindings, souls, shaped, shown, lock, lost, behind>>

\* The worker's handler tells the job that it failed.
ReportFailure ==
    /\ At(Worker, "fail")
    /\ status' = [status EXCEPT ![actors[Worker].forge] = "failed"]
    /\ unsown' = unsown \cup Unseeded(Worker)
    /\ Done(Worker)
    /\ UNCHANGED <<world, queue, bindings, souls, shaped, shown, lock, lost, behind>>

\* The handler fails as well, and with it the thread: no job is taken again.
WorkerDies ==
    /\ At(Worker, "fail")
    /\ unsown' = unsown \cup Unseeded(Worker)
    /\ lost' = lost \cup {actors[Worker].forge}
    /\ Set(Worker, [Idle EXCEPT !.pc = "dead"])
    /\ UNCHANGED <<world, status, queue, bindings, souls, shaped, shown, lock, behind>>

----------------------------------------------------------------------------
Writing(a, b) == Bot(a) = b /\ (At(a, "document") \/ At(a, "write"))

\* The service ends and starts again: queue, threads and lock are gone.
Restart ==
    /\ lost' = lost \cup {queue[i] : i \in DOMAIN queue}
                    \cup ({actors[a].forge : a \in Actors} \ {NoForge})
    /\ unsown' = unsown \cup UNION {Unseeded(a) : a \in Actors}
    /\ behind' = behind \cup {b \in souls : \E a \in Actors : Writing(a, b)}
    /\ queue' = <<>> /\ lock' = Nobody
    /\ actors' = [a \in Actors |-> Idle]
    /\ UNCHANGED <<world, status, bindings, souls, shaped, shown>>

Requests(t) == Promote(t) \/ CreateForgeJob(t) \/ PutJob(t) \/ QueueFull(t)
Document(a) == ReadSoul(a) \/ WriteDocument(a) \/ WriteFails(a)
Souls(a)    == TouchSoul(a) \/ NameSoul(a) \/ SeedSoul(a)
Forging     == \/ TakeForge \/ Activate \/ NextFounder \/ ShapeSoul \/ GuideSoul
               \/ CompleteForge \/ ForgeFails \/ ReportFailure \/ WorkerDies

Next == \/ \E t \in Threads : Requests(t)
        \/ \E a \in Actors : Souls(a) \/ Document(a)
        \/ Forging \/ Restart

Spec == Init /\ [][Next]_vars

\* Every handler and every job comes to its end: the waits for the control
\* agent, the model and the database have timeouts.  Whoever waits for the
\* lock gets it in the end, though others take it again and again; and the
\* dialogues the worker is busy with between two forges are in the same
\* queue, so the forge at its head has its turn.
Fairness ==
    /\ \A t \in Threads : WF_vars(PutJob(t) \/ QueueFull(t))
    /\ \A a \in Actors : /\ WF_vars(SeedSoul(a))
                         /\ SF_vars(ReadSoul(a))
                         /\ WF_vars(WriteDocument(a) \/ WriteFails(a))
    /\ SF_vars(TakeForge) /\ WF_vars(Forging)

FairSpec == Spec /\ Fairness

----------------------------------------------------------------------------
(* Properties.                                                             *)

\* The types of the variables.
TypeOK ==
    /\ world \in Forges \cup {NoForge}
    /\ status \in [Forges -> {"none", "queued", "running", "complete", "failed"}]
    /\ queue \in Seq(Forges) /\ Len(queue) <= QueueCapacity
    /\ bindings \subseteq Bots /\ souls \subseteq Bots /\ shaped \subseteq Bots
    /\ shown \subseteq Bots
    /\ actors \in [Actors -> Handlers]
    /\ lock \in Actors \cup {Nobody}
    /\ lost \subseteq Forges /\ unsown \subseteq Bots /\ behind \subseteq Bots

\* A forge that is reported complete made the world that is active, and all
\* its founders are bound and have a soul with the profile made for them: no
\* later forge replaces it, though every request may pass the first look for
\* a world before any forge has run.
CompleteMeansReady ==
    \A f \in Forges : status[f] = "complete" =>
        world = f /\ Founders \subseteq bindings \cap souls \cap shaped

\* A forge that is reported as queued or running is on its way, unless a full
\* queue, a restart or the end of the worker cut it off.
InHand(f) == \/ \E i \in DOMAIN queue : queue[i] = f
             \/ \E a \in Actors : actors[a].forge = f
UnderWay ==
    \A f \in Forges : status[f] \in {"queued", "running"} => InHand(f) \/ f \in lost

\* A forge that was asked for ends, one way or the other, with the worker at
\* the service of dialogues and the lock of requests in between, unless it
\* was cut off.
ForgeSettles ==
    \A f \in Forges :
        status[f] = "queued" ~> status[f] \in {"complete", "failed"} \/ f \in lost
                                \/ At(Worker, "dead")

\* The forge implements WorldForging: requests that overlap, a worker that
\* fails or dies at any step, and restarts never run a forge twice, make a
\* second world, change a forge that has ended, or go on with the companions
\* of a world whose forge has.
Ready == world # NoForge /\ Founders \subseteq bindings \cap souls \cap shaped
Promise == INSTANCE WorldForging WITH ready <- Ready
ForgesWorld == Promise!Spec

\* Every companion that is bound has a soul, or somebody is about to give it
\* one, or a failure between the binding and the soul was in the way; a later
\* promotion then makes up for it.
BoundHasSoul ==
    \A b \in bindings \ souls : b \in unsown \/ \E a \in Actors : b \in Unseeded(a)

\* Whatever order two changes of a soul and their documents come in, once
\* nobody is at work on it the document shows the soul as it is, unless a
\* write failed or was cut off (docs/PROJECT.md:174-175, "refreshed after
\* profile or memory changes").
DocumentCurrent ==
    \A b \in souls \ behind : (\A a \in Actors : ~Writing(a, b)) => b \in shown

----------------------------------------------------------------------------
(* What the inductive invariants of Companions_proofs are made of.         *)

\* Where a handler is tells what it holds, S being the souls there are: only
\* a forge has founders to seed and goes on after a document, and a character
\* at hand has a soul once it is seeded.
Holds(h, S) ==
    /\ h.pc \in {"idle", "dead", "put", "activate"} => h.bot = Nobody /\ h.todo = {}
    /\ h.pc \in {"idle", "dead"} => h.forge = NoForge
    /\ h.forge = NoForge => /\ h.pc \in {"idle", "dead", "seed", "document", "write"}
                           /\ h.todo = {}
    /\ h.pc = "seed" => h.bot # Nobody
    /\ h.pc \in {"document", "write", "shape", "guide"} => h.bot \in S
    /\ h.pc = "next" => h.bot \in S \cup {Nobody}
    /\ h.pc \in {"document", "write"} => (h.forge = NoForge <=> h.then = "idle")
Holding == \A a \in Actors : Holds(actors[a], souls)

\* The lock is with the one who writes.
Locked == \A a \in Actors : At(a, "write") <=> lock = a

\* A copy that is no longer current is written before one that will be; a
\* document that is not current is about to be written from a copy that is.
StaleFollowed ==
    \A a \in Actors : At(a, "write") /\ ~actors[a].current =>
        \E x \in Actors : At(x, "document") /\ Bot(x) = Bot(a)
DocumentsFollow ==
    \A b \in souls \ (behind \cup shown) :
        \E a \in Actors :
            Bot(a) = b /\ (At(a, "document") \/ (At(a, "write") /\ actors[a].current))

\* The founders whose turn is over have their profile.
Unshaped == actors[Worker].todo \cup
            IF \/ At(Worker, "seed") \/ At(Worker, "shape")
               \/ (At(Worker, "document") \/ At(Worker, "write")) /\ actors[Worker].then = "shape"
            THEN {Bot(Worker)} ELSE {}
Making == actors[Worker].forge # NoForge /\ ~At(Worker, "activate") /\ ~At(Worker, "fail")
ForgeInHand ==
    Making =>
        /\ world = actors[Worker].forge /\ Founders \subseteq bindings
        /\ Founders \ Unshaped \subseteq souls \cap shaped

\* A forge is in one place at a time: about to be put into the queue, or there,
\* as "queued", or in the worker's hand, as "running".
HeldOnce ==
    /\ \A i \in DOMAIN queue : status[queue[i]] = "queued"
    /\ \A i, j \in DOMAIN queue : queue[i] = queue[j] => i = j
    /\ \A t \in Threads : actors[t].forge # NoForge =>
          /\ status[actors[t].forge] = "queued"
          /\ \A i \in DOMAIN queue : queue[i] # actors[t].forge
          /\ \A u \in Threads : actors[u].forge = actors[t].forge => u = t
    /\ actors[Worker].forge # NoForge => status[actors[Worker].forge] = "running"

\* A world has its founders bound, and who has a profile has a soul.
Founded == (world # NoForge => Founders \subseteq bindings) /\ shaped \subseteq souls

=============================================================================
