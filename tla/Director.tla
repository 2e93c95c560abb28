------------------------------ MODULE Director ------------------------------
(***************************************************************************)
(* The narrative life of an active world: what the Soul Service does while  *)
(* people come and go (soul-service/src/soulforge/server.py and world.py).  *)
(*                                                                         *)
(* Every thirty seconds the presence monitor reads how many humans are      *)
(* online, opens and closes play sessions, lets narrative time pass, hands  *)
(* due plans, session reflections and return greetings to the worker's job  *)
(* queue, and stops an empty realm after a period of grace.  An exception   *)
(* anywhere abandons the rest of a tick.  The worker tells the beats of the *)
(* plans, reflects on ended sessions and greets with callbacks; request     *)
(* threads file summaries of gameplay events under the open session.        *)
(*                                                                         *)
(* A world is supposed to be active.  A reflection leaves one callback at   *)
(* most.  The job queue holds the jobs of this module only.                 *)
(***************************************************************************)
EXTENDS Integers, Sequences, FiniteSets, Functions

CONSTANTS NumPlans,       \* planned events; plan p is due after p ticks of play
          Grace,          \* auto_stop_minutes, in ticks; not 0, which disables it
          MaxReuse,       \* companion_callbacks.max_reuse
          KeptCallbacks,  \* the 24 callbacks a world retains
          QueueCapacity,  \* maxsize=2048 of the job queue
          MaxLogins,      \* bound on logins of humans
          MaxMisreads,    \* bound on failed presence queries read as nobody
          MaxRecording,   \* bound on sessions requests are about to file under
          MaxPrunes,      \* bound on deletions of a plan's outbox row
          MaxRestarts     \* bound on restarts of the service

ASSUME DirectorAssumption ==
    /\ NumPlans \in Nat /\ Grace \in Nat \ {0}
    /\ MaxReuse \in Nat /\ KeptCallbacks \in Nat
    /\ QueueCapacity \in Nat \ {0}
    /\ MaxLogins \in Nat /\ MaxMisreads \in Nat
    /\ MaxRecording \in Nat /\ MaxPrunes \in Nat /\ MaxRestarts \in Nat

Plans    == 1 .. NumPlans
Sessions == 1 .. MaxLogins + MaxMisreads   \* in the order they start
NoSession == 0
Occupied == -1                             \* _empty_since is None

\* The jobs of this module.
NoJob         == <<"none", 0>>
DirectorEvent(p)     == <<"director_event", p>>
SessionReflection(s) == <<"session_reflection", s>>
ReturnCallback       == <<"return_callback", 0>>

VARIABLES
    realm,         \* is the worldserver up
    online,        \* is a human in the world
    logins, misreads, prunes, restarts,
    monitorPc,     \* what _presence_monitor does next
    reading,       \* the count it has read is positive
    humansOnline,  \* self.humans_online > 0
    emptyFor,      \* ticks since self._empty_since, up to Grace
    fired,         \* self._auto_stop_fired
    ai,            \* self.ai_enabled
    session,       \* the world_sessions row without ended_at
    sessions,      \* sessions started so far
    played,        \* worlds.played_seconds, in ticks, as far as plans differ
    plans,         \* planned_events.status
    jobs,          \* self.jobs
    pc, job,       \* what _worker is doing, and for which job
    rows,          \* plans with a row in the outbox
    told,          \* how often a row was inserted for each plan
    remembered,    \* how often each plan entered the world's memory
    recording,     \* sessions request threads are about to file a summary under
    summaries,     \* sessions with rows in session_event_candidates
    reflected,     \* sessions reflected on so far
    straggling,    \* sessions that ended with a summary about to be filed
    stranded,      \* plans left armed with no job, by a failure nothing repairs
    callbacks,     \* companion_callbacks, named by the session they came from
    uses,          \* reuse_count of each callback
    greeted,       \* greetings made from each callback
    visited        \* did a finished tick see a human since the last automatic stop

people      == <<realm, online, logins, misreads>>
monitorVars == <<monitorPc, reading, humansOnline, emptyFor, fired, visited>>
sessionVars == <<session, sessions, played, straggling>>
planVars    == <<plans, rows, told, remembered, prunes, stranded>>
workerVars  == <<pc, job>>
threadVars  == <<recording, summaries, reflected>>
callVars    == <<callbacks, uses, greeted>>
vars == <<people, monitorVars, sessionVars, planVars, workerVars, threadVars,
          callVars, ai, jobs, restarts>>

Init ==
    /\ realm = "up" /\ online = FALSE
    /\ logins = 0 /\ misreads = 0 /\ prunes = 0 /\ restarts = 0
    /\ monitorPc = "asleep" /\ reading = FALSE /\ humansOnline = FALSE
    /\ emptyFor = Occupied /\ fired = FALSE /\ visited = "no"
    /\ ai = TRUE
    /\ session = NoSession /\ sessions = 0 /\ played = 0
    /\ plans = [p \in Plans |-> "planned"]
    /\ jobs = <<>> /\ pc = "idle" /\ job = NoJob
    /\ rows = {} /\ told = [p \in Plans |-> 0]
    /\ remembered = [p \in Plans |-> 0]
    /\ recording = {} /\ summaries = {}
    /\ reflected = {} /\ straggling = {} /\ stranded = {}
    /\ callbacks = {} /\ uses = [s \in Sessions |-> 0]
    /\ greeted = [s \in Sessions |-> 0]

----------------------------------------------------------------------------
(* The presence monitor.                                                   *)

Older(t) == IF t = Occupied \/ t = Grace THEN t ELSE t + 1

\* GET /v1/presence.  The control agent reads a failed query as nobody.
ReadPresence ==
    /\ monitorPc = "asleep"
    /\ monitorPc' = "record"
    /\ emptyFor' = Older(emptyFor)
    /\ \/ reading' = online
          /\ UNCHANGED misreads
       \/ /\ online /\ misreads < MaxMisreads
          /\ reading' = FALSE
          /\ misreads' = misreads + 1
    /\ UNCHANGED <<realm, online, logins, humansOnline, fired, visited, sessionVars,
                   planVars, workerVars, threadVars, callVars, ai, jobs, restarts>>

\* The control agent cannot be reached: time passes without a tick.
PresenceUnavailable ==
    /\ monitorPc = "asleep"
    /\ emptyFor' = Older(emptyFor)
    /\ UNCHANGED <<people, monitorPc, reading, humansOnline, fired, visited,
                   sessionVars, planVars, workerVars, threadVars, callVars, ai,
                   jobs, restarts>>

Starts == reading /\ session = NoSession

\* A slip: a session ends only if this run of the service saw somebody.
EndsSeen == ~reading /\ humansOnline /\ session # NoSession

Ends == ~reading /\ session # NoSession

\* A slip: whoever returns goes on with the last session.
RecordSessionResuming ==
    /\ session' = IF Starts THEN IF sessions > 0 THEN sessions ELSE 1
                  ELSE IF Ends THEN NoSession ELSE session
    /\ sessions' = IF Starts /\ sessions = 0 THEN 1 ELSE sessions
    /\ played' = IF reading /\ humansOnline /\ played < NumPlans THEN played + 1 ELSE played
    /\ straggling' = IF Ends THEN straggling \cup (recording \cap {session}) ELSE straggling

\* record_presence, one transaction; narrative time passes between two ticks
\* that both saw a human.
RecordSession ==
    /\ session' = IF Starts THEN sessions + 1 ELSE IF Ends THEN NoSession ELSE session
    /\ sessions' = IF Starts THEN sessions + 1 ELSE sessions
    /\ played' = IF reading /\ humansOnline /\ played < NumPlans THEN played + 1 ELSE played
    /\ straggling' = IF Ends THEN straggling \cup (recording \cap {session}) ELSE straggling

Transition == ai /\ (Starts \/ Ends)

\* A slip: the queue takes one job too many.
QueueTransitionOneTooMany ==
    \/ /\ ai /\ Len(jobs) <= QueueCapacity
       /\ \/ Ends   /\ jobs' = Append(jobs, SessionReflection(session))
          \/ Starts /\ jobs' = Append(jobs, ReturnCallback)
    \/ /\ ~Transition
       /\ UNCHANGED jobs

\* The transition's job is queued, if there is one and AI is on.
QueueTransition ==
    \/ /\ ai /\ Len(jobs) < QueueCapacity
       /\ \/ Ends   /\ jobs' = Append(jobs, SessionReflection(session))
          \/ Starts /\ jobs' = Append(jobs, ReturnCallback)
    \/ /\ ~Transition
       /\ UNCHANGED jobs

\* A slip: every tick clears the flag of the last stop, whatever it reads.
RecordRearming ==
    /\ monitorPc = "record"
    /\ RecordSession /\ QueueTransition
    /\ emptyFor' = IF reading THEN Occupied ELSE IF humansOnline THEN 0 ELSE emptyFor
    /\ fired' = FALSE
    /\ visited' = IF reading THEN "now" ELSE visited
    /\ humansOnline' = reading
    /\ monitorPc' = "plan"
    /\ UNCHANGED <<people, reading, planVars, workerVars, threadVars, callVars,
                   ai, restarts>>

\* A slip: the end of a visit does not start the period of grace.
RecordForgettingEnd ==
    /\ monitorPc = "record"
    /\ RecordSession /\ QueueTransition
    /\ emptyFor' = IF reading THEN Occupied ELSE emptyFor
    /\ fired' = (fired /\ ~reading)
    /\ visited' = IF reading THEN "now" ELSE visited
    /\ humansOnline' = reading
    /\ monitorPc' = "plan"
    /\ UNCHANGED <<people, reading, planVars, workerVars, threadVars, callVars,
                   ai, restarts>>

Record ==
    /\ monitorPc = "record"
    /\ RecordSession /\ QueueTransition
    /\ emptyFor' = IF reading THEN Occupied ELSE IF humansOnline THEN 0 ELSE emptyFor
    /\ fired' = (fired /\ ~reading)
    /\ visited' = IF reading THEN "now" ELSE visited
    /\ humansOnline' = reading
    /\ monitorPc' = "plan"
    /\ UNCHANGED <<people, reading, planVars, workerVars, threadVars, callVars,
                   ai, restarts>>

\* The queue is full: the session was opened or closed, and the exception
\* abandons the tick before the monitor takes note of what it read.
RecordQueueFull ==
    /\ monitorPc = "record"
    /\ Transition /\ Len(jobs) >= QueueCapacity
    /\ RecordSession
    /\ monitorPc' = "asleep"
    /\ UNCHANGED <<people, reading, humansOnline, emptyFor, fired, visited,
                   planVars, workerVars, threadVars, callVars, ai, jobs, restarts>>

\* The database is locked: the tick is abandoned without any effect.
RecordFails ==
    /\ monitorPc = "record"
    /\ monitorPc' = "asleep"
    /\ UNCHANGED <<people, reading, humansOnline, emptyFor, fired, visited,
                   sessionVars, planVars, workerVars, threadVars, callVars, ai,
                   jobs, restarts>>

Due == {p \in Plans : plans[p] = "planned" /\ p <= played}

\* claim_due_plan arms the plan that is due first; without companions it is
\* released at once.
ClaimPlan ==
    /\ monitorPc = "plan"
    /\ reading /\ ai
    /\ \E p \in Due :
          /\ \A q \in Due : p <= q
          /\ \/ /\ Len(jobs) < QueueCapacity
                /\ plans' = [plans EXCEPT ![p] = "armed"]
                /\ jobs' = Append(jobs, DirectorEvent(p))
                /\ monitorPc' = "grace"
                /\ UNCHANGED stranded
             \/ /\ plans' = [plans EXCEPT ![p] = "armed"]  \* full, or another exception
                /\ stranded' = stranded \cup {p}
                /\ monitorPc' = "asleep"
                /\ UNCHANGED jobs
             \/ /\ monitorPc' = "grace"
                /\ UNCHANGED <<plans, stranded, jobs>>
    /\ UNCHANGED <<people, reading, humansOnline, emptyFor, fired, visited,
                   sessionVars, rows, told, remembered, prunes, workerVars,
                   threadVars, callVars, ai, restarts>>

NoPlan ==
    /\ monitorPc = "plan"
    /\ ~reading \/ ~ai \/ Due = {}
    /\ monitorPc' = "grace"
    /\ UNCHANGED <<people, reading, humansOnline, emptyFor, fired, visited,
                   sessionVars, planVars, workerVars, threadVars, callVars, ai,
                   jobs, restarts>>

GraceOver == emptyFor = Grace /\ ~fired

\* POST /v1/actions/stop: the realm stops, and whoever is in it is out.
StopRealm ==
    /\ monitorPc = "grace" /\ GraceOver
    /\ realm' = "down" /\ online' = FALSE
    /\ fired' = TRUE
    /\ visited' = "no"
    /\ monitorPc' = "asleep"
    /\ UNCHANGED <<logins, misreads, reading, humansOnline, emptyFor, sessionVars,
                   planVars, workerVars, threadVars, callVars, ai, jobs, restarts>>

\* The request fails, whether the realm stopped or not.
StopUnanswered ==
    /\ monitorPc = "grace" /\ GraceOver
    /\ \/ realm' = "down" /\ online' = FALSE
       \/ UNCHANGED <<realm, online>>
    /\ monitorPc' = "asleep"
    /\ UNCHANGED <<logins, misreads, reading, humansOnline, emptyFor, fired,
                   visited, sessionVars, planVars, workerVars, threadVars,
                   callVars, ai, jobs, restarts>>

KeepRealm ==
    /\ monitorPc = "grace" /\ ~GraceOver
    /\ monitorPc' = "asleep"
    /\ UNCHANGED <<people, reading, humansOnline, emptyFor, fired, visited,
                   sessionVars, planVars, workerVars, threadVars, callVars, ai,
                   jobs, restarts>>

----------------------------------------------------------------------------
(* The worker.                                                             *)

Finish == pc' = "idle" /\ job' = NoJob
InHand(kind) == job[1] = kind

\* A plan that is in the queue, or in the worker's hand.
Queued(p) == \E i \in DOMAIN jobs : jobs[i] = DirectorEvent(p)
Held(p)   == pc \in {"start", "told"} /\ job = DirectorEvent(p)

TakeJob ==
    /\ pc = "idle" /\ jobs # <<>>
    /\ job' = Head(jobs)
    /\ jobs' = Tail(jobs)
    /\ pc' = "start"
    /\ UNCHANGED <<people, monitorVars, sessionVars, planVars, threadVars,
                   callVars, ai, restarts>>

\* _director_event writes the beat to the outbox, keyed by the plan ...
TellPlan ==
    /\ pc = "start" /\ InHand("director_event") /\ ai
    /\ rows' = rows \cup {job[2]}
    /\ told' = [told EXCEPT ![job[2]] = IF job[2] \in rows THEN @ ELSE @ + 1]
    /\ pc' = "told"
    /\ UNCHANGED <<people, monitorVars, sessionVars, plans, remembered, prunes,
                   stranded, job,
                   threadVars, callVars, ai, jobs, restarts>>

\* A slip: the plan is released in every case.
FinishPlanReleasing ==
    /\ pc = "told"
    /\ plans' = [plans EXCEPT ![job[2]] = "planned"]
    /\ remembered' = [remembered EXCEPT ![job[2]] = @ + 1]
    /\ Finish
    /\ UNCHANGED <<people, monitorVars, sessionVars, rows, told, prunes, stranded,
                   threadVars, callVars, ai, jobs, restarts>>

\* ... and finish_plan, in a transaction of its own, settles the plan and
\* puts it into the world's memory.
FinishPlan ==
    /\ pc = "told"
    /\ plans' = [plans EXCEPT ![job[2]] = "occurred"]
    /\ remembered' = [remembered EXCEPT ![job[2]] = @ + 1]
    /\ Finish
    /\ UNCHANGED <<people, monitorVars, sessionVars, rows, told, prunes, stranded,
                   threadVars, callVars, ai, jobs, restarts>>

\* An empty text, or AI went off after it came: the plan stays armed.
LeavePlan ==
    /\ pc = "start" /\ InHand("director_event")
    /\ stranded' = stranded \cup {job[2]}
    /\ Finish
    /\ UNCHANGED <<people, monitorVars, sessionVars, plans, rows, told, remembered,
                   prunes, threadVars, callVars, ai, jobs, restarts>>

\* A slip: an exception is only logged.
FailPlanOnlyLogged ==
    /\ pc \in {"start", "told"} /\ InHand("director_event")
    /\ Finish
    /\ UNCHANGED <<people, monitorVars, sessionVars, planVars, threadVars, callVars,
                   ai, jobs, restarts>>

\* An exception: release_plan lets the monitor claim an armed plan again.
FailPlan ==
    /\ pc \in {"start", "told"} /\ InHand("director_event")
    /\ plans' = [plans EXCEPT ![job[2]] = IF @ = "armed" THEN "planned" ELSE @]
    /\ Finish
    /\ UNCHANGED <<people, monitorVars, sessionVars, rows, told, remembered, prunes,
                   stranded, threadVars, callVars, ai, jobs, restarts>>

\* release_plan raises in its turn, and the exception ends the worker thread.
WorkerDies ==
    /\ pc \in {"start", "told"} /\ InHand("director_event")
    /\ stranded' = stranded \cup {job[2]}
    /\ pc' = "dead" /\ job' = NoJob
    /\ UNCHANGED <<people, monitorVars, sessionVars, plans, rows, told, remembered,
                   prunes, threadVars, callVars, ai, jobs, restarts>>

\* _reflect_session reads the summaries of a session ...
StartReflection ==
    /\ pc = "start" /\ InHand("session_reflection")
    /\ job[2] \in summaries
    /\ pc' = "reflecting" /\ UNCHANGED job
    /\ UNCHANGED <<people, monitorVars, sessionVars, planVars, threadVars,
                   callVars, ai, jobs, restarts>>

\* ... and finish_session_reflection deletes them, with what the reflection
\* leaves behind; the oldest callbacks go.
FinishReflection ==
    /\ pc = "reflecting"
    /\ summaries' = summaries \ {job[2]}
    /\ reflected' = reflected \cup {job[2]}
    /\ LET known == callbacks \cup {job[2]}
       IN \/ callbacks' = {c \in known :
                              Cardinality({d \in known : d > c}) < KeptCallbacks}
          \/ UNCHANGED callbacks
    /\ Finish
    /\ UNCHANGED <<people, monitorVars, sessionVars, planVars, recording, uses, greeted,
                   ai, jobs, restarts>>

Usable == {c \in callbacks : uses[c] < MaxReuse}

\* A slip: only a greeting that was made is counted as a use.
ClaimCallbackUncounted ==
    /\ pc = "start" /\ InHand("return_callback")
    /\ \E c \in Usable : job' = <<"return_callback", c>>
    /\ pc' = "greeting"
    /\ UNCHANGED <<people, monitorVars, sessionVars, planVars, threadVars,
                   callVars, ai, jobs, restarts>>

\* claim_callback counts the use before the greeting is generated: an unused
\* callback first, the newest first.
ClaimCallback ==
    /\ pc = "start" /\ InHand("return_callback")
    /\ \E c \in Usable :
          /\ \A d \in Usable : \/ uses[c] = 0 /\ (uses[d] > 0 \/ d <= c)
                               \/ uses[c] > 0 /\ uses[d] > 0 /\ d <= c
          /\ uses' = [uses EXCEPT ![c] = @ + 1]
          /\ job' = <<"return_callback", c>>
    /\ pc' = "greeting"
    /\ UNCHANGED <<people, monitorVars, sessionVars, planVars, threadVars,
                   callbacks, greeted, ai, jobs, restarts>>

Greet ==
    /\ pc = "greeting" /\ ai
    /\ greeted' = [greeted EXCEPT ![job[2]] = @ + 1]
    /\ Finish
    /\ UNCHANGED <<people, monitorVars, sessionVars, planVars, threadVars,
                   callbacks, uses, ai, jobs, restarts>>

\* A reflection or a greeting with nothing to do, no usable text, or an
\* exception.
GiveUp ==
    /\ \/ pc = "start" /\ (InHand("session_reflection") \/ InHand("return_callback"))
       \/ pc \in {"reflecting", "greeting"}
    /\ Finish
    /\ UNCHANGED <<people, monitorVars, sessionVars, planVars, threadVars,
                   callVars, ai, jobs, restarts>>

----------------------------------------------------------------------------
(* Request threads, the owner, the players and the host.                   *)

\* A slip: the last session will do, open or not.
PickLastSession ==
    /\ sessions > 0 /\ Cardinality(recording) < MaxRecording
    /\ recording' = recording \cup {sessions}
    /\ UNCHANGED <<people, monitorVars, sessionVars, planVars, workerVars,
                   summaries, reflected, callVars, ai, jobs, restarts>>

\* record_session_event looks for the open session ...
PickSession ==
    /\ session # NoSession /\ Cardinality(recording) < MaxRecording
    /\ recording' = recording \cup {session}
    /\ UNCHANGED <<people, monitorVars, sessionVars, planVars, workerVars,
                   summaries, reflected, callVars, ai, jobs, restarts>>

\* ... and then inserts the summary, whatever became of the session; another
\* request may still be about to file one under the same session.
FileSummary(s) ==
    /\ s \in recording
    /\ \/ recording' = recording \ {s}
       \/ UNCHANGED recording
    /\ summaries' = summaries \cup {s}
    /\ UNCHANGED <<reflected, people, monitorVars, sessionVars, planVars, workerVars,
                   callVars, ai, jobs, restarts>>

\* complete deletes the expired outbox row of a plan.
PruneRow(p) ==
    /\ p \in rows /\ prunes < MaxPrunes
    /\ prunes' = prunes + 1
    /\ rows' = rows \ {p}
    /\ UNCHANGED <<people, monitorVars, sessionVars, plans, told, remembered,
                   stranded, workerVars, threadVars, callVars, ai, jobs, restarts>>

Switch ==
    /\ ai' = ~ai
    /\ UNCHANGED <<people, monitorVars, sessionVars, planVars, workerVars,
                   threadVars, callVars, jobs, restarts>>

LogIn ==
    /\ realm = "up" /\ ~online /\ logins < MaxLogins
    /\ online' = TRUE /\ logins' = logins + 1
    /\ UNCHANGED <<realm, misreads, monitorVars, sessionVars, planVars,
                   workerVars, threadVars, callVars, ai, jobs, restarts>>

LogOut ==
    /\ online
    /\ online' = FALSE
    /\ UNCHANGED <<realm, logins, misreads, monitorVars, sessionVars, planVars,
                   workerVars, threadVars, callVars, ai, jobs, restarts>>

\* The owner starts the realm from the dashboard.
StartRealm ==
    /\ realm = "down"
    /\ realm' = "up"
    /\ UNCHANGED <<online, logins, misreads, monitorVars, sessionVars, planVars,
                   workerVars, threadVars, callVars, ai, jobs, restarts>>

\* The service stops at any point and starts again: the tables stay, the
\* queue, the threads and what the monitor knew are gone.
Restart ==
    /\ restarts < MaxRestarts
    /\ restarts' = restarts + 1
    /\ jobs' = <<>> /\ Finish /\ recording' = {}
    /\ monitorPc' = "asleep" /\ reading' = FALSE /\ humansOnline' = FALSE
    /\ emptyFor' = Occupied /\ fired' = FALSE
    /\ visited' = IF visited = "now" THEN "before" ELSE visited
    /\ stranded' = stranded \cup {p \in Plans : Queued(p) \/ Held(p)}
    /\ UNCHANGED <<people, sessionVars, plans, rows, told, remembered, prunes,
                   summaries, reflected, callVars, ai>>

----------------------------------------------------------------------------
Monitor == \/ ReadPresence \/ PresenceUnavailable \/ Record
           \/ RecordQueueFull \/ RecordFails
           \/ ClaimPlan \/ NoPlan \/ StopRealm \/ StopUnanswered \/ KeepRealm
Worker  == \/ TakeJob \/ TellPlan \/ FinishPlan \/ LeavePlan \/ FailPlan
           \/ WorkerDies \/ StartReflection \/ FinishReflection
           \/ ClaimCallback \/ Greet \/ GiveUp
Threads == PickSession \/ \E s \in Sessions : FileSummary(s)
Host    == \/ Switch \/ LogIn \/ LogOut \/ StartRealm \/ Restart
           \/ \E p \in Plans : PruneRow(p)

Next == Monitor \/ Worker \/ Threads \/ Host

Spec == Init /\ [][Next]_vars

----------------------------------------------------------------------------
(* Properties.                                                             *)

Jobs == {DirectorEvent(p) : p \in Plans} \cup {SessionReflection(s) : s \in Sessions}
        \cup {ReturnCallback}

PeopleOK ==
    /\ realm \in {"up", "down"} /\ online \in BOOLEAN
    /\ logins \in 0 .. MaxLogins /\ misreads \in 0 .. MaxMisreads
MonitorOK ==
    /\ monitorPc \in {"asleep", "record", "plan", "grace"}
    /\ reading \in BOOLEAN /\ humansOnline \in BOOLEAN
    /\ emptyFor \in 0 .. Grace \cup {Occupied} /\ fired \in BOOLEAN
    /\ visited \in {"no", "now", "before"}
SessionsOK ==
    /\ session \in Sessions \cup {NoSession} /\ sessions \in Sessions \cup {0}
    /\ played \in 0 .. NumPlans /\ straggling \in SUBSET Sessions
PlansOK ==
    /\ plans \in [Plans -> {"planned", "armed", "occurred"}] /\ rows \in SUBSET Plans
    /\ told \in [Plans -> Nat] /\ remembered \in [Plans -> Nat]
    /\ prunes \in 0 .. MaxPrunes /\ stranded \in SUBSET Plans
WorkerOK ==
    /\ pc \in {"idle", "start", "told", "reflecting", "greeting", "dead"}
    /\ job \in Jobs \cup {NoJob} \cup ({"return_callback"} \X Sessions)
ThreadsOK ==
    /\ recording \in SUBSET Sessions /\ summaries \in SUBSET Sessions
    /\ reflected \in SUBSET Sessions
CallsOK ==
    /\ callbacks \in SUBSET Sessions
    /\ uses \in [Sessions -> 0 .. MaxReuse] /\ greeted \in [Sessions -> Nat]
QueueOK == jobs \in Seq(Jobs) /\ Len(jobs) <= QueueCapacity

\* The types of the variables; the job queue respects its bound, and there
\* is a number for every session.
TypeOK ==
    /\ PeopleOK /\ MonitorOK /\ SessionsOK /\ PlansOK /\ WorkerOK
    /\ ThreadsOK /\ CallsOK /\ QueueOK
    /\ ai \in BOOLEAN /\ restarts \in 0 .. MaxRestarts

\* A story beat enters the world's memory once at most, exactly when its plan
\* has occurred, and only after it was told; it is told only once the world
\* has been played for long enough.  A failure between the telling and the
\* settling makes the monitor claim the plan again.
OccursOnce ==
    \A p \in Plans :
        /\ remembered[p] = IF plans[p] = "occurred" THEN 1 ELSE 0
        /\ plans[p] = "occurred" => told[p] > 0
        /\ told[p] > 0 => p <= played

\* Failed generations and restarts use a callback up; they never let it be
\* used more often than it may ("callbacks expire after two uses").
CallbacksExpire == \A c \in Sessions : greeted[c] <= MaxReuse

\* The monitor stops an empty realm once: after a stop that was answered, a
\* realm the owner starts again is left alone until the monitor has seen a
\* human, even across a restart of the service (_auto_stop_fired), and never
\* stops it in a tick that read somebody.
StopsOncePerAbsence ==
    [][realm # realm' /\ monitorPc' # monitorPc => visited = "now" /\ ~reading]_vars

\* A session that is waiting to be reflected on, or being reflected on.
WaitsForReflection(s) == \E i \in DOMAIN jobs : jobs[i] = SessionReflection(s)
BeingReflected(s)     == pc \in {"start", "reflecting"} /\ job = SessionReflection(s)

\* A session is reflected on once at most and only after it has ended, and a
\* greeting recalls only a session that has ended, though failed presence
\* queries cut sessions short, ticks are abandoned with the session already
\* opened or closed, and the service restarts with a session open.
ReflectedOnce ==
    /\ \A s \in Sessions :
          /\ WaitsForReflection(s) \/ BeingReflected(s) \/ s \in reflected
                => s <= sessions /\ s # session
          /\ ~(WaitsForReflection(s) /\ BeingReflected(s))
          /\ WaitsForReflection(s) \/ BeingReflected(s) => s \notin reflected
          /\ s \in callbacks => s \in reflected
    /\ \A i, j \in DOMAIN jobs :
          jobs[i] = jobs[j] /\ jobs[i][1] = "session_reflection" => i = j

\* What a session was made of is forgotten once it has been reflected on
\* ("Temporary summaries are deleted after successful reflection",
\* soul-service/README.md:77): nothing of it is left or comes, unless
\* it ended between a request's look for the open session and its insertion.
SummariesForgotten == reflected \cap (summaries \cup recording) \subseteq straggling

\* An armed plan is in the queue or in the worker's hand; only a full queue, a
\* text that did not come, the end of the worker or a restart leaves it armed
\* without a job, and such a plan nothing ever takes up or releases.
ArmedAccounted ==
    \A p \in Plans :
        /\ plans[p] = "armed" => Queued(p) \/ Held(p) \/ p \in stranded
        /\ p \in stranded => plans[p] = "armed" /\ ~Queued(p) /\ ~Held(p)

\* The inductive invariant behind the properties above.  A plan is in the
\* queue or in the worker's hand once at most, and armed while it is.
PlansHeldOnce ==
    /\ \A p \in Plans : Queued(p) \/ Held(p) => plans[p] = "armed"
    /\ \A p \in Plans : ~(Queued(p) /\ Held(p))
    /\ \A i, j \in DOMAIN jobs :
          jobs[i] = jobs[j] /\ jobs[i][1] = "director_event" => i = j
    /\ pc = "told" => InHand("director_event") /\ told[job[2]] > 0
    /\ \A p \in rows : told[p] > 0

\* A plan that was claimed, or ever told, was due.
PlansDue == \A p \in Plans : plans[p] # "planned" \/ told[p] > 0 => p <= played

\* A request files under the open session, or under one that ended meanwhile.
FiledUnderOpen == recording \subseteq straggling \cup {session}

\* What the monitor remembers of the last visit, it remembers since a tick
\* that saw somebody.
VisitTracked ==
    /\ humansOnline => visited = "now" /\ emptyFor = Occupied
    /\ emptyFor # Occupied /\ ~fired => visited = "now"
    /\ monitorPc \in {"plan", "grace"} /\ reading => emptyFor = Occupied

\* There is a login or a misread reading behind every session, and one more
\* while a further one may start.
SessionsCounted ==
    /\ sessions <= logins + misreads /\ session <= sessions
    /\ session = NoSession /\ (online \/ (monitorPc = "record" /\ reading))
          => sessions < logins + misreads
    /\ session # NoSession /\ monitorPc = "record" /\ ~reading /\ online
          => sessions < logins + misreads

\* A greeting under way was counted as a use.
GreetingsCounted ==
    /\ pc = "greeting" => job \in {"return_callback"} \X Sessions
    /\ pc = "reflecting" => InHand("session_reflection")
    /\ \A c \in Sessions :
          greeted[c] + (IF pc = "greeting" /\ job[2] = c THEN 1 ELSE 0) <= uses[c]

----------------------------------------------------------------------------
(* Liveness.  The monitor, the worker and the request threads keep running; *)
(* requests to the control agent and transactions that are tried for ever   *)
(* sometimes succeed.                                                       *)

Fairness ==
    /\ WF_vars(Monitor) /\ WF_vars(Worker)
    /\ SF_vars(ReadPresence) /\ SF_vars(Record \/ RecordQueueFull) /\ SF_vars(StopRealm)

FairSpec == Spec /\ Fairness

\* A session is not left open for ever when nobody is in the world.
SessionsEnd == []<>(session = NoSession \/ online)

\* A realm in which the running service has seen a human does not stay up
\* for ever with nobody in it.
EmptyRealmStops == []<>(online \/ realm = "down" \/ visited # "now")

\* docs/PROJECT.md: "The realm auto-stops after the configurable grace period
\* following the last human logout."
StopsAfterLastLogout == []<>(online \/ realm = "down" \/ visited = "no")

=============================================================================
