-------------------------- MODULE Director_proofs --------------------------
(***************************************************************************)
(* Proofs about Director, for every number of plans, every period of grace, *)
(* every size of the queue, and any number of logins, misreadings, deleted  *)
(* rows and restarts.                                                      *)
(***************************************************************************)
EXTENDS Director, SequenceTheorems, FiniteSetTheorems, TLAPS

----------------------------------------------------------------------------
(* Jobs and the queue.                                                     *)

\* What a job is about.
LEMMA JobFacts ==
    ASSUME NEW j \in Jobs
    PROVE  /\ j[1] \in {"director_event", "session_reflection", "return_callback"}
           /\ j[1] = "director_event" => j[2] \in Plans /\ j = DirectorEvent(j[2])
           /\ j[1] = "session_reflection" =>
                 j[2] \in Sessions /\ j = SessionReflection(j[2])
           /\ j # NoJob
BY DEF Jobs, DirectorEvent, SessionReflection, ReturnCallback, NoJob

\* The job in the worker's hand.
LEMMA HandFacts ==
    ASSUME TypeOK
    PROVE  /\ InHand("director_event") => job[2] \in Plans /\ job = DirectorEvent(job[2])
           /\ InHand("session_reflection") =>
                 job[2] \in Sessions /\ job = SessionReflection(job[2])
<1>1. CASE job \in Jobs
  BY <1>1, JobFacts DEF InHand
<1>2. CASE job = NoJob
  BY <1>2 DEF InHand, NoJob
<1>3. CASE job \in {"return_callback"} \X Sessions
  BY <1>3 DEF InHand
<1> QED BY <1>1, <1>2, <1>3 DEF TypeOK, WorkerOK

\* put adds its job at the end.
LEMMA PutJob ==
    ASSUME NEW s \in Seq(Jobs), NEW x \in Jobs
    PROVE  /\ Append(s, x) \in Seq(Jobs) /\ Len(Append(s, x)) = Len(s) + 1
           /\ DOMAIN s = 1 .. Len(s) /\ DOMAIN Append(s, x) = 1 .. Len(s) + 1
           /\ Len(s) \in Nat
           /\ \A i \in 1 .. Len(s) : Append(s, x)[i] = s[i]
           /\ Append(s, x)[Len(s) + 1] = x
BY AppendProperties, LenProperties

\* get removes the head.
LEMMA GetJob ==
    ASSUME NEW s \in Seq(Jobs), s # <<>>
    PROVE  /\ Head(s) \in Jobs /\ Head(s) = s[1]
           /\ Tail(s) \in Seq(Jobs) /\ Len(Tail(s)) = Len(s) - 1
           /\ DOMAIN s = 1 .. Len(s) /\ DOMAIN Tail(s) = 1 .. Len(s) - 1
           /\ Len(s) \in Nat /\ Len(s) > 0
           /\ \A i \in 1 .. Len(s) - 1 : Tail(s)[i] = s[i + 1]
BY HeadTailProperties, LenProperties, EmptySeq

----------------------------------------------------------------------------
(* Type correctness.                                                       *)

\* What a step leaves alone keeps its types.
LEMMA Kept ==
    /\ PeopleOK /\ UNCHANGED people => PeopleOK'
    /\ SessionsOK /\ UNCHANGED sessionVars => SessionsOK'
    /\ PlansOK /\ UNCHANGED planVars => PlansOK'
    /\ WorkerOK /\ UNCHANGED workerVars => WorkerOK'
    /\ ThreadsOK /\ UNCHANGED threadVars => ThreadsOK'
    /\ CallsOK /\ UNCHANGED callVars => CallsOK'
    /\ MonitorOK /\ UNCHANGED monitorVars => MonitorOK'
    /\ QueueOK /\ UNCHANGED jobs => QueueOK'
<1>1. PeopleOK /\ UNCHANGED people => PeopleOK'
  BY DEF PeopleOK, people
<1>2. SessionsOK /\ UNCHANGED sessionVars => SessionsOK'
  BY DEF SessionsOK, sessionVars
<1>3. PlansOK /\ UNCHANGED planVars => PlansOK'
  BY DEF PlansOK, planVars
<1>4. WorkerOK /\ UNCHANGED workerVars => WorkerOK'
  BY DEF WorkerOK, workerVars
<1>5. ThreadsOK /\ UNCHANGED threadVars => ThreadsOK'
  BY DEF ThreadsOK, threadVars
<1>6. CallsOK /\ UNCHANGED callVars => CallsOK'
  BY DEF CallsOK, callVars
<1>7. MonitorOK /\ UNCHANGED monitorVars => MonitorOK'
  BY DEF MonitorOK, monitorVars
<1>8. QueueOK /\ UNCHANGED jobs => QueueOK'
  BY DEF QueueOK
<1> QED BY <1>1, <1>2, <1>3, <1>4, <1>5, <1>6, <1>7, <1>8

\* The number of a session there may be one more of.
LEMMA NextSession ==
    ASSUME TypeOK, sessions < logins + misreads
    PROVE  sessions + 1 \in Sessions
BY DirectorAssumption DEF TypeOK, PeopleOK, SessionsOK, Sessions

\* record_presence keeps the types of the sessions.
LEMMA RecordTypes ==
    ASSUME TypeOK, SessionsCounted, monitorPc = "record", RecordSession
    PROVE  SessionsOK'
<1>1. Starts => sessions + 1 \in Sessions
  BY NextSession DEF SessionsCounted, Starts
<1>2. played' \in 0 .. NumPlans
  BY DirectorAssumption DEF RecordSession, TypeOK, SessionsOK
<1>3. straggling' \in SUBSET Sessions
  BY DEF RecordSession, TypeOK, SessionsOK, ThreadsOK
<1> QED BY <1>1, <1>2, <1>3 DEF RecordSession, TypeOK, SessionsOK

\* A job that fits is queued.
LEMMA PutTypes ==
    ASSUME QueueOK, Len(jobs) < QueueCapacity, NEW x \in Jobs, jobs' = Append(jobs, x)
    PROVE  QueueOK'
<1>1. Len(jobs) \in Nat /\ QueueCapacity \in Nat
  BY DirectorAssumption, LenProperties DEF QueueOK
<1> QED BY <1>1, PutJob DEF QueueOK

\* A transition's job is one of the jobs, and fits the queue.
LEMMA TransitionTypes == ASSUME TypeOK, QueueTransition PROVE QueueOK'
<1>1. ReturnCallback \in Jobs /\ (Ends => SessionReflection(session) \in Jobs)
  BY DEF Jobs, Ends, TypeOK, SessionsOK
<1> QED BY <1>1, PutTypes, Kept DEF QueueTransition, TypeOK

\* Time passes up to the end of the grace.
LEMMA OlderTyped ==
    ASSUME NEW e \in 0 .. Grace \cup {Occupied}
    PROVE  Older(e) \in 0 .. Grace \cup {Occupied} /\ (Older(e) = Occupied <=> e = Occupied)
BY DirectorAssumption DEF Older, Occupied

\* Initially nobody is there and nothing has happened.
LEMMA TypeInit == Init => TypeOK
<1> SUFFICES ASSUME Init PROVE TypeOK
  OBVIOUS
<1>1. PeopleOK
  <2>1. realm \in {"up", "down"} /\ online \in BOOLEAN
    BY DEF Init
  <2>2. logins \in 0 .. MaxLogins /\ misreads \in 0 .. MaxMisreads
    BY DirectorAssumption DEF Init
  <2> QED BY <2>1, <2>2 DEF PeopleOK
<1>2. MonitorOK
  BY DEF Init, MonitorOK
<1>3. SessionsOK
  BY DirectorAssumption DEF Init, SessionsOK
<1>4. PlansOK
  BY DirectorAssumption DEF Init, PlansOK
<1>5. WorkerOK /\ ThreadsOK
  BY DEF Init, WorkerOK, ThreadsOK
<1>6. CallsOK
  BY DirectorAssumption DEF Init, CallsOK
<1>7. QueueOK
  BY DirectorAssumption, EmptySeq DEF Init, QueueOK
<1> QED
  BY <1>1, <1>2, <1>3, <1>4, <1>5, <1>6, <1>7, DirectorAssumption DEF Init, TypeOK

\* Every step of the monitor keeps the types.
LEMMA MonitorTypes == ASSUME TypeOK, SessionsCounted, Monitor PROVE TypeOK'
<1>0. /\ PeopleOK /\ MonitorOK /\ SessionsOK /\ PlansOK /\ WorkerOK
      /\ ThreadsOK /\ CallsOK /\ QueueOK
      /\ ai \in BOOLEAN /\ restarts \in 0 .. MaxRestarts
  BY DEF TypeOK
<1>1. CASE ReadPresence
  <2>1. PeopleOK'
    BY <1>0, <1>1, DirectorAssumption DEF ReadPresence, PeopleOK
  <2>2. MonitorOK'
    BY <1>0, <1>1, OlderTyped DEF ReadPresence, MonitorOK, PeopleOK
  <2> QED BY <1>0, <1>1, <2>1, <2>2, Kept DEF ReadPresence, TypeOK
<1>2. CASE PresenceUnavailable
  <2>1. MonitorOK'
    BY <1>0, <1>2, OlderTyped DEF PresenceUnavailable, MonitorOK
  <2> QED BY <1>0, <1>2, <2>1, Kept DEF PresenceUnavailable, TypeOK
<1>3. CASE Record
  <2>1. SessionsOK' /\ QueueOK'
    BY <1>3, RecordTypes, TransitionTypes DEF Record
  <2>2. MonitorOK'
    BY <1>0, <1>3, DirectorAssumption DEF Record, MonitorOK
  <2> QED BY <1>0, <1>3, <2>1, <2>2, Kept DEF Record, TypeOK
<1>4. CASE RecordQueueFull
  <2>1. SessionsOK'
    BY <1>4, RecordTypes DEF RecordQueueFull
  <2>2. MonitorOK'
    BY <1>0, <1>4 DEF RecordQueueFull, MonitorOK
  <2> QED BY <1>0, <1>4, <2>1, <2>2, Kept DEF RecordQueueFull, TypeOK
<1>5. CASE RecordFails \/ NoPlan \/ KeepRealm
  <2>1. MonitorOK'
    BY <1>0, <1>5 DEF RecordFails, NoPlan, KeepRealm, MonitorOK
  <2> QED BY <1>0, <1>5, <2>1, Kept DEF RecordFails, NoPlan, KeepRealm, TypeOK
<1>6. CASE ClaimPlan
  <2>1. PICK p \in Due :
          \/ /\ Len(jobs) < QueueCapacity
             /\ plans' = [plans EXCEPT ![p] = "armed"]
             /\ jobs' = Append(jobs, DirectorEvent(p))
             /\ monitorPc' = "grace"
             /\ UNCHANGED stranded
          \/ /\ plans' = [plans EXCEPT ![p] = "armed"]
             /\ stranded' = stranded \cup {p}
             /\ monitorPc' = "asleep"
             /\ UNCHANGED jobs
          \/ /\ monitorPc' = "grace"
             /\ UNCHANGED <<plans, stranded, jobs>>
    BY <1>6 DEF ClaimPlan
  <2>2. p \in Plans /\ DirectorEvent(p) \in Jobs
    BY DEF Due, Jobs
  <2>3. PlansOK'
    BY <1>0, <1>6, <2>1, <2>2 DEF ClaimPlan, PlansOK
  <2>4. QueueOK'
    BY <1>0, <2>1, <2>2, PutTypes, Kept
  <2>5. MonitorOK'
    BY <1>0, <1>6, <2>1 DEF ClaimPlan, MonitorOK
  <2> QED BY <1>0, <1>6, <2>3, <2>4, <2>5, Kept DEF ClaimPlan, TypeOK
<1>7. CASE StopRealm \/ StopUnanswered
  <2>1. PeopleOK' /\ MonitorOK'
    BY <1>0, <1>7 DEF StopRealm, StopUnanswered, PeopleOK, MonitorOK
  <2> QED BY <1>0, <1>7, <2>1, Kept DEF StopRealm, StopUnanswered, TypeOK
<1> QED BY <1>1, <1>2, <1>3, <1>4, <1>5, <1>6, <1>7 DEF Monitor

\* Every step of the worker keeps the types.
LEMMA WorkerTypes == ASSUME TypeOK, PlansHeldOnce, GreetingsCounted, Worker PROVE TypeOK'
<1>0. /\ PeopleOK /\ MonitorOK /\ SessionsOK /\ PlansOK /\ WorkerOK
      /\ ThreadsOK /\ CallsOK /\ QueueOK
      /\ ai \in BOOLEAN /\ restarts \in 0 .. MaxRestarts
  BY DEF TypeOK
<1>f. Finish => WorkerOK'
  BY DEF Finish, WorkerOK
<1>1. CASE TakeJob
  <2>1. /\ Head(jobs) \in Jobs /\ Tail(jobs) \in Seq(Jobs)
        /\ Len(Tail(jobs)) = Len(jobs) - 1 /\ Len(jobs) \in Nat
    BY <1>0, <1>1, GetJob DEF TakeJob, QueueOK
  <2>2. QueueOK'
    BY <1>0, <1>1, <2>1, DirectorAssumption DEF TakeJob, QueueOK
  <2>3. WorkerOK'
    BY <1>1, <2>1 DEF TakeJob, WorkerOK
  <2> QED BY <1>0, <1>1, <2>2, <2>3, Kept DEF TakeJob, TypeOK
<1>2. CASE TellPlan
  <2>1. job[2] \in Plans
    BY <1>2, HandFacts DEF TellPlan
  <2>2. PlansOK'
    BY <1>0, <1>2, <2>1 DEF TellPlan, PlansOK
  <2>3. WorkerOK'
    BY <1>0, <1>2 DEF TellPlan, WorkerOK
  <2> QED BY <1>0, <1>2, <2>2, <2>3, Kept DEF TellPlan, TypeOK
<1>3. CASE FinishPlan
  <2>1. job[2] \in Plans
    BY <1>3, HandFacts DEF FinishPlan, PlansHeldOnce
  <2>2. PlansOK'
    BY <1>0, <1>3, <2>1 DEF FinishPlan, PlansOK
  <2> QED BY <1>0, <1>f, <1>3, <2>2, Kept DEF FinishPlan, TypeOK
<1>4. CASE LeavePlan
  <2>1. job[2] \in Plans
    BY <1>4, HandFacts DEF LeavePlan
  <2>2. PlansOK'
    BY <1>0, <1>4, <2>1 DEF LeavePlan, PlansOK
  <2> QED BY <1>0, <1>f, <1>4, <2>2, Kept DEF LeavePlan, TypeOK
<1>11. CASE GiveUp
  BY <1>0, <1>f, <1>11, Kept DEF GiveUp, TypeOK
<1>5. CASE WorkerDies
  <2>1. WorkerOK'
    BY <1>5 DEF WorkerDies, WorkerOK
  <2>2. job[2] \in Plans
    BY <1>5, HandFacts DEF WorkerDies
  <2>3. PlansOK'
    BY <1>0, <1>5, <2>2 DEF WorkerDies, PlansOK
  <2> QED BY <1>0, <1>5, <2>1, <2>3, Kept DEF WorkerDies, TypeOK
<1>6. CASE FailPlan
  <2>1. PlansOK'
    BY <1>0, <1>6 DEF FailPlan, PlansOK
  <2> QED BY <1>0, <1>f, <1>6, <2>1, Kept DEF FailPlan, TypeOK
<1>7. CASE StartReflection
  <2>1. WorkerOK'
    BY <1>0, <1>7 DEF StartReflection, WorkerOK
  <2> QED BY <1>0, <1>7, <2>1, Kept DEF StartReflection, TypeOK
<1>8. CASE FinishReflection
  <2>1. job[2] \in Sessions
    BY <1>8, HandFacts DEF FinishReflection, GreetingsCounted
  <2>2. ThreadsOK' /\ CallsOK'
    BY <1>0, <1>8, <2>1 DEF FinishReflection, ThreadsOK, CallsOK
  <2> QED BY <1>0, <1>f, <1>8, <2>2, Kept DEF FinishReflection, TypeOK
<1>9. CASE ClaimCallback
  <2>1. PICK c \in Usable :
          uses' = [uses EXCEPT ![c] = @ + 1] /\ job' = <<"return_callback", c>>
    BY <1>9 DEF ClaimCallback
  <2>2. c \in Sessions /\ uses[c] < MaxReuse
    BY <1>0 DEF Usable, CallsOK
  <2>3. CallsOK'
    BY <1>0, <1>9, <2>1, <2>2, DirectorAssumption DEF ClaimCallback, CallsOK
  <2>4. WorkerOK'
    BY <1>9, <2>1, <2>2 DEF ClaimCallback, WorkerOK
  <2> QED BY <1>0, <1>9, <2>3, <2>4, Kept DEF ClaimCallback, TypeOK
<1>10. CASE Greet
  <2>1. job[2] \in Sessions
    BY <1>10 DEF Greet, GreetingsCounted
  <2>2. greeted' \in [Sessions -> Nat]
    BY <1>0, <1>10, <2>1 DEF Greet, CallsOK
  <2>3. UNCHANGED <<callbacks, uses>>
    BY <1>10 DEF Greet
  <2>4. CallsOK'
    BY <1>0, <2>2, <2>3 DEF CallsOK
  <2> QED BY <1>0, <1>f, <1>10, <2>4, Kept DEF Greet, TypeOK
<1> QED
  BY <1>1, <1>2, <1>3, <1>4, <1>5, <1>6, <1>7, <1>8, <1>9, <1>10, <1>11 DEF Worker

\* So does every step of the request threads, the people and the host.
LEMMA OtherTypes == ASSUME TypeOK, Threads \/ Host PROVE TypeOK'
<1>0. /\ PeopleOK /\ MonitorOK /\ SessionsOK /\ PlansOK /\ WorkerOK
      /\ ThreadsOK /\ CallsOK /\ QueueOK
      /\ ai \in BOOLEAN /\ restarts \in 0 .. MaxRestarts
  BY DEF TypeOK
<1>1. CASE PickSession
  <2>1. ThreadsOK'
    BY <1>0, <1>1 DEF PickSession, ThreadsOK, SessionsOK
  <2> QED BY <1>0, <1>1, <2>1, Kept DEF PickSession, TypeOK
<1>2. ASSUME NEW s \in Sessions, FileSummary(s) PROVE TypeOK'
  <2>1. ThreadsOK'
    BY <1>0, <1>2 DEF FileSummary, ThreadsOK
  <2> QED BY <1>0, <1>2, <2>1, Kept DEF FileSummary, TypeOK
<1>3. ASSUME NEW p \in Plans, PruneRow(p) PROVE TypeOK'
  <2>1. PlansOK'
    BY <1>0, <1>3, DirectorAssumption DEF PruneRow, PlansOK
  <2> QED BY <1>0, <1>3, <2>1, Kept DEF PruneRow, TypeOK
<1>4. CASE Switch
  BY <1>0, <1>4, Kept DEF Switch, TypeOK
<1>5. CASE LogIn \/ LogOut \/ StartRealm
  <2>1. realm' \in {"up", "down"} /\ online' \in BOOLEAN
    BY <1>0, <1>5 DEF LogIn, LogOut, StartRealm, PeopleOK
  <2>2. logins' \in 0 .. MaxLogins /\ misreads' \in 0 .. MaxMisreads
    BY <1>0, <1>5, DirectorAssumption DEF LogIn, LogOut, StartRealm, PeopleOK
  <2>3. PeopleOK'
    BY <2>1, <2>2 DEF PeopleOK
  <2> QED BY <1>0, <1>5, <2>3, Kept DEF LogIn, LogOut, StartRealm, TypeOK
<1>6. CASE Restart
  <2>1. QueueOK'
    BY <1>6, DirectorAssumption, EmptySeq DEF Restart, QueueOK
  <2>2. WorkerOK'
    BY <1>6 DEF Restart, Finish, WorkerOK
  <2>3. MonitorOK'
    BY <1>0, <1>6 DEF Restart, MonitorOK
  <2>4. ThreadsOK'
    BY <1>0, <1>6 DEF Restart, ThreadsOK
  <2>5. restarts' \in 0 .. MaxRestarts
    BY <1>0, <1>6, DirectorAssumption DEF Restart
  <2>6. PlansOK'
    BY <1>0, <1>6 DEF Restart, PlansOK
  <2> QED
    BY <1>0, <1>6, <2>1, <2>2, <2>3, <2>4, <2>5, <2>6, Kept DEF Restart, TypeOK
<1> QED BY <1>1, <1>2, <1>3, <1>4, <1>5, <1>6 DEF Threads, Host

----------------------------------------------------------------------------
(* Sessions and greetings are accounted for.                               *)

\* What a step that starts and ends no session leaves of the account.
LEMMA AccountKept ==
    ASSUME SessionsCounted, UNCHANGED <<sessions, session, logins, misreads>>,
           online' => online,
           monitorPc' = "record" => monitorPc = "record" /\ reading' = reading
    PROVE  SessionsCounted'
BY DEF SessionsCounted

\* Every session has its login or its misread reading.
LEMMA AccountStep == ASSUME TypeOK, SessionsCounted, Next PROVE SessionsCounted'
<1>0. /\ sessions \in Nat /\ logins \in Nat /\ misreads \in Nat
      /\ session \in Nat /\ online \in BOOLEAN /\ reading \in BOOLEAN
  BY DirectorAssumption DEF TypeOK, PeopleOK, MonitorOK, SessionsOK, Sessions, NoSession
<1>1. CASE ReadPresence
  <2>1. UNCHANGED <<sessions, session, logins, online>> /\ monitorPc' = "record"
    BY <1>1 DEF ReadPresence, sessionVars
  <2>2. CASE reading' = online /\ misreads' = misreads
    BY <1>0, <2>1, <2>2 DEF SessionsCounted
  <2>3. CASE reading' = FALSE /\ misreads' = misreads + 1
    BY <1>0, <2>1, <2>3 DEF SessionsCounted
  <2> QED BY <1>1, <2>2, <2>3 DEF ReadPresence
<1>2. CASE Record \/ RecordQueueFull
  <2>1. /\ UNCHANGED <<logins, misreads, online>>
        /\ monitorPc = "record" /\ monitorPc' # "record" /\ RecordSession
    BY <1>2 DEF Record, RecordQueueFull, people
  <2>2. CASE Starts
    <3>1. sessions < logins + misreads
      BY <2>1, <2>2 DEF Starts, SessionsCounted
    <3>2. session' = sessions + 1 /\ sessions' = sessions + 1
      BY <2>1, <2>2 DEF RecordSession
    <3> QED BY <1>0, <2>1, <3>1, <3>2 DEF SessionsCounted, NoSession
  <2>3. CASE ~Starts
    <3>1. sessions' = sessions /\ session' \in {session, NoSession}
      BY <2>1, <2>3 DEF RecordSession
    <3>2. session' = NoSession /\ online => sessions < logins + misreads
      BY <2>1, <2>3, <3>1 DEF RecordSession, Starts, Ends, SessionsCounted
    <3>3. session' <= sessions'
      BY <1>0, <3>1 DEF SessionsCounted, NoSession
    <3> QED BY <2>1, <3>1, <3>2, <3>3 DEF SessionsCounted
  <2> QED BY <2>2, <2>3
<1>3. CASE LogIn
  <2>1. /\ UNCHANGED <<sessions, session, misreads>> /\ logins' = logins + 1
    BY <1>3 DEF LogIn, sessionVars
  <2> QED BY <1>0, <2>1 DEF SessionsCounted
<1>4. CASE PresenceUnavailable \/ RecordFails \/ ClaimPlan \/ NoPlan \/ StopRealm
           \/ StopUnanswered \/ KeepRealm
  BY <1>4, AccountKept
  DEF PresenceUnavailable, RecordFails, ClaimPlan, NoPlan, StopRealm, StopUnanswered,
      KeepRealm, people, sessionVars
<1>5. CASE Worker
  BY <1>5, AccountKept
  DEF Worker, TakeJob, TellPlan, FinishPlan, LeavePlan, FailPlan, WorkerDies,
      StartReflection, FinishReflection, ClaimCallback, Greet, GiveUp, people,
      monitorVars, sessionVars
<1>6. CASE Threads
  BY <1>6, AccountKept
  DEF Threads, PickSession, FileSummary, people, monitorVars, sessionVars
<1>7. CASE Switch \/ LogOut \/ StartRealm \/ Restart \/ \E p \in Plans : PruneRow(p)
  BY <1>7, AccountKept
  DEF Switch, LogOut, StartRealm, Restart, PruneRow, people, monitorVars, sessionVars
<1> QED BY <1>1, <1>2, <1>3, <1>4, <1>5, <1>6, <1>7 DEF Next, Monitor, Host

\* A step that leaves the callbacks alone and starts neither a reflection nor
\* a greeting keeps the account of the greetings.
LEMMA GreetingsKept ==
    ASSUME TypeOK, GreetingsCounted, UNCHANGED <<uses, greeted>>,
           UNCHANGED <<pc, job>> \/ pc' \notin {"greeting", "reflecting"}
    PROVE  GreetingsCounted'
<1>1. CASE UNCHANGED <<pc, job>>
  BY <1>1 DEF GreetingsCounted, InHand
<1>2. CASE pc' \notin {"greeting", "reflecting"}
  <2>1. uses \in [Sessions -> Nat] /\ greeted \in [Sessions -> Nat]
    BY DirectorAssumption DEF TypeOK, CallsOK
  <2>2. \A c \in Sessions : greeted[c] <= uses[c]
    BY <2>1 DEF GreetingsCounted
  <2> QED BY <1>2, <2>1, <2>2 DEF GreetingsCounted
<1> QED BY <1>1, <1>2

\* A greeting is counted before it is made.
LEMMA GreetingsStep == ASSUME TypeOK, GreetingsCounted, Next PROVE GreetingsCounted'
<1>0. uses \in [Sessions -> Nat] /\ greeted \in [Sessions -> Nat]
  BY DirectorAssumption DEF TypeOK, CallsOK
<1>1. CASE Monitor
  BY <1>1, GreetingsKept
  DEF Monitor, ReadPresence, PresenceUnavailable, Record, RecordQueueFull, RecordFails,
      ClaimPlan, NoPlan, StopRealm, StopUnanswered, KeepRealm, workerVars, callVars
<1>2. CASE StartReflection
  BY <1>0, <1>2 DEF StartReflection, GreetingsCounted, InHand, callVars
<1>3. CASE ClaimCallback
  <2>1. PICK c \in Usable :
          uses' = [uses EXCEPT ![c] = @ + 1] /\ job' = <<"return_callback", c>>
    BY <1>3 DEF ClaimCallback
  <2>2. c \in Sessions /\ pc = "start" /\ pc' = "greeting" /\ greeted' = greeted
    BY <1>3 DEF ClaimCallback, Usable, TypeOK, CallsOK
  <2>3. ASSUME NEW d \in Sessions
        PROVE  greeted[d] + (IF d = c THEN 1 ELSE 0) <= uses'[d]
    BY <1>0, <2>1, <2>2 DEF GreetingsCounted
  <2> QED BY <2>1, <2>2, <2>3 DEF GreetingsCounted
<1>4. CASE Greet
  <2>1. job[2] \in Sessions /\ pc = "greeting"
    BY <1>4 DEF Greet, GreetingsCounted
  <2>2. /\ greeted' = [greeted EXCEPT ![job[2]] = @ + 1] /\ uses' = uses
        /\ pc' = "idle"
    BY <1>4 DEF Greet, Finish
  <2>3. ASSUME NEW d \in Sessions PROVE greeted'[d] <= uses[d]
    BY <1>0, <2>1, <2>2 DEF GreetingsCounted
  <2>4. greeted' \in [Sessions -> Nat]
    BY <1>0, <2>1, <2>2
  <2> QED BY <2>2, <2>3, <2>4 DEF GreetingsCounted
<1>5. CASE TakeJob \/ TellPlan \/ FinishPlan \/ LeavePlan \/ FailPlan \/ WorkerDies
           \/ FinishReflection \/ GiveUp
  <2>1. UNCHANGED <<uses, greeted>> /\ pc' \notin {"greeting", "reflecting"}
    BY <1>5
    DEF TakeJob, TellPlan, FinishPlan, LeavePlan, FailPlan, WorkerDies,
        FinishReflection, GiveUp, Finish, callVars
  <2> QED BY <2>1, GreetingsKept
<1>6. CASE Threads \/ Host
  <2>1. /\ UNCHANGED <<uses, greeted>>
        /\ UNCHANGED <<pc, job>> \/ pc' \notin {"greeting", "reflecting"}
    BY <1>6
    DEF Threads, PickSession, FileSummary, Host, Switch, LogIn, LogOut, StartRealm,
        Restart, PruneRow, Finish, callVars, workerVars
  <2> QED BY <2>1, GreetingsKept
<1> QED BY <1>1, <1>2, <1>3, <1>4, <1>5, <1>6 DEF Next, Worker

----------------------------------------------------------------------------
(* Plans.                                                                  *)

\* A step that settles no plan, gives the worker no plan and adds no job.
LEMMA HeldKept ==
    ASSUME PlansHeldOnce, UNCHANGED <<plans, told>>, rows' \subseteq rows,
           jobs' = jobs \/ jobs' = <<>>,
           UNCHANGED <<pc, job>> \/ pc' \notin {"start", "told"}
    PROVE  PlansHeldOnce'
<1>1. ASSUME NEW p, Queued(p)' PROVE Queued(p)
  BY <1>1 DEF Queued
<1>2. ASSUME NEW p, Held(p)' PROVE Held(p)
  BY <1>2 DEF Held
<1>3. \A i, j \in DOMAIN jobs' :
         jobs'[i] = jobs'[j] /\ jobs'[i][1] = "director_event" => i = j
  BY DEF PlansHeldOnce
<1>4. pc' = "told" => InHand("director_event")' /\ told[job'[2]] > 0
  BY DEF PlansHeldOnce, InHand
<1> QED BY <1>1, <1>2, <1>3, <1>4 DEF PlansHeldOnce

\* Another job at the end of the queue.
LEMMA HeldPut ==
    ASSUME TypeOK, PlansHeldOnce, NEW x \in Jobs, jobs' = Append(jobs, x),
           UNCHANGED <<told, rows, pc, job>>,
           plans' \in [Plans -> {"planned", "armed", "occurred"}],
           \A p \in Plans : plans[p] = "armed" => plans'[p] = "armed",
           \A p \in Plans : x = DirectorEvent(p) =>
               plans[p] = "planned" /\ plans'[p] = "armed"
    PROVE  PlansHeldOnce'
<1>1. /\ DOMAIN jobs = 1 .. Len(jobs) /\ DOMAIN jobs' = 1 .. Len(jobs) + 1
      /\ Len(jobs) \in Nat
      /\ \A i \in 1 .. Len(jobs) : jobs'[i] = jobs[i] /\ jobs[i] \in Jobs
      /\ jobs'[Len(jobs) + 1] = x
  BY PutJob, ElementOfSeq DEF TypeOK, QueueOK
<1>2. ASSUME NEW p \in Plans, Queued(p)' PROVE Queued(p) \/ x = DirectorEvent(p)
  BY <1>1, <1>2 DEF Queued
<1>3. ASSUME NEW p \in Plans, x = DirectorEvent(p) PROVE ~Queued(p) /\ ~Held(p)
  BY <1>3 DEF PlansHeldOnce
<1>4. ASSUME NEW i \in 1 .. Len(jobs), jobs[i] = x, x[1] = "director_event"
      PROVE  FALSE
  <2>1. x[2] \in Plans /\ x = DirectorEvent(x[2])
    BY <1>4, JobFacts
  <2>2. Queued(x[2])
    BY <1>1, <1>4, <2>1 DEF Queued
  <2> QED BY <1>3, <2>1, <2>2
<1>5. ASSUME NEW i \in DOMAIN jobs', NEW j \in DOMAIN jobs',
             jobs'[i] = jobs'[j], jobs'[i][1] = "director_event"
      PROVE  i = j
  <2>1. CASE i \in 1 .. Len(jobs) /\ j \in 1 .. Len(jobs)
    BY <1>1, <1>5, <2>1 DEF PlansHeldOnce
  <2>2. CASE i \in 1 .. Len(jobs) /\ j = Len(jobs) + 1
    BY <1>1, <1>4, <1>5, <2>2
  <2>3. CASE i = Len(jobs) + 1 /\ j \in 1 .. Len(jobs)
    BY <1>1, <1>4, <1>5, <2>3
  <2> QED BY <1>1, <1>5, <2>1, <2>2, <2>3
<1>6. \A p : Held(p)' <=> Held(p)
  BY DEF Held
<1>7. \A p \in Plans : Queued(p)' \/ Held(p)' => plans'[p] = "armed"
  BY <1>2, <1>6 DEF PlansHeldOnce
<1>8. \A p \in Plans : ~(Queued(p)' /\ Held(p)')
  BY <1>2, <1>3, <1>6 DEF PlansHeldOnce
<1>9. /\ pc' = "told" => InHand("director_event")' /\ told'[job'[2]] > 0
      /\ \A p \in rows' : told'[p] > 0
  BY DEF PlansHeldOnce, InHand
<1> QED BY <1>5, <1>7, <1>8, <1>9 DEF PlansHeldOnce

\* A job of another kind changes nothing for the plans.
LEMMA OtherJobs ==
    /\ \A s, p : SessionReflection(s) # DirectorEvent(p)
    /\ \A p : ReturnCallback # DirectorEvent(p)
BY DEF SessionReflection, DirectorEvent, ReturnCallback

\* The monitor queues a plan that nobody holds.
LEMMA HeldMonitor == ASSUME TypeOK, PlansHeldOnce, Monitor PROVE PlansHeldOnce'
<1>0. plans \in [Plans -> {"planned", "armed", "occurred"}]
  BY DEF TypeOK, PlansOK
<1>1. CASE Record
  <2>1. UNCHANGED <<plans, told, rows, pc, job>> /\ QueueTransition
    BY <1>1 DEF Record, planVars, workerVars
  <2>2. CASE UNCHANGED jobs
    BY <2>1, <2>2, HeldKept
  <2>3. CASE Ends /\ jobs' = Append(jobs, SessionReflection(session))
    <3>1. SessionReflection(session) \in Jobs
      BY <2>3 DEF Ends, Jobs, TypeOK, SessionsOK
    <3> QED BY <1>0, <2>1, <2>3, <3>1, HeldPut, OtherJobs
  <2>4. CASE jobs' = Append(jobs, ReturnCallback)
    <3>1. ReturnCallback \in Jobs
      BY DEF Jobs
    <3> QED BY <1>0, <2>1, <2>4, <3>1, HeldPut, OtherJobs
  <2> QED BY <2>1, <2>2, <2>3, <2>4 DEF QueueTransition
<1>2. CASE ClaimPlan
  <2>1. PICK p \in Due :
          \/ /\ plans' = [plans EXCEPT ![p] = "armed"]
             /\ jobs' = Append(jobs, DirectorEvent(p))
          \/ plans' = [plans EXCEPT ![p] = "armed"] /\ jobs' = jobs
          \/ plans' = plans /\ jobs' = jobs
    BY <1>2 DEF ClaimPlan
  <2>2. /\ p \in Plans /\ plans[p] = "planned" /\ DirectorEvent(p) \in Jobs
        /\ UNCHANGED <<told, rows, pc, job>>
    BY <1>2 DEF ClaimPlan, Due, Jobs, workerVars
  <2>3. CASE plans' = plans /\ jobs' = jobs
    BY <2>2, <2>3, HeldKept
  <2>4. CASE plans' = [plans EXCEPT ![p] = "armed"] /\ jobs' = jobs
    <3>1. \A q : (Queued(q)' <=> Queued(q)) /\ (Held(q)' <=> Held(q))
      BY <2>2, <2>4 DEF Queued, Held
    <3>2. \A q \in Plans : plans[q] = "armed" => plans'[q] = "armed"
      BY <1>0, <2>2, <2>4
    <3> QED BY <2>2, <2>4, <3>1, <3>2 DEF PlansHeldOnce, InHand
  <2>5. CASE plans' = [plans EXCEPT ![p] = "armed"] /\ jobs' = Append(jobs, DirectorEvent(p))
    <3>1. /\ plans' \in [Plans -> {"planned", "armed", "occurred"}]
          /\ \A q \in Plans : plans[q] = "armed" => plans'[q] = "armed"
          /\ plans'[p] = "armed"
      BY <1>0, <2>2, <2>5
    <3>2. \A q \in Plans : DirectorEvent(p) = DirectorEvent(q) =>
                              plans[q] = "planned" /\ plans'[q] = "armed"
      BY <2>2, <3>1 DEF DirectorEvent
    <3> QED BY <2>2, <2>5, <3>1, <3>2, HeldPut
  <2> QED BY <2>1, <2>3, <2>4, <2>5
<1>3. CASE ReadPresence \/ PresenceUnavailable \/ RecordQueueFull \/ RecordFails
           \/ NoPlan \/ StopRealm \/ StopUnanswered \/ KeepRealm
  <2>1. UNCHANGED <<plans, told, rows, pc, job, jobs>>
    BY <1>3
    DEF ReadPresence, PresenceUnavailable, RecordQueueFull, RecordFails, NoPlan,
        StopRealm, StopUnanswered, KeepRealm, planVars, workerVars
  <2> QED BY <2>1, HeldKept
<1> QED BY <1>1, <1>2, <1>3 DEF Monitor

\* The plan the worker has told is its own, and not in the queue.
LEMMA ToldPlan ==
    ASSUME TypeOK, PlansHeldOnce, pc \in {"start", "told"}, InHand("director_event")
    PROVE  /\ job[2] \in Plans /\ plans[job[2]] = "armed" /\ ~Queued(job[2])
           /\ pc = "told" => told[job[2]] > 0
<1>1. job[2] \in Plans /\ job = DirectorEvent(job[2])
  BY HandFacts
<1>2. Held(job[2])
  BY <1>1 DEF Held
<1> QED BY <1>1, <1>2 DEF PlansHeldOnce

\* The worker takes one plan at a time.
LEMMA HeldWorker == ASSUME TypeOK, PlansHeldOnce, Worker PROVE PlansHeldOnce'
<1>0. /\ plans \in [Plans -> {"planned", "armed", "occurred"}]
      /\ told \in [Plans -> Nat] /\ jobs \in Seq(Jobs)
  BY DEF TypeOK, PlansOK, QueueOK
<1>1. CASE TakeJob
  <2>1. UNCHANGED <<plans, told, rows>> /\ pc' = "start" /\ job' = Head(jobs)
        /\ jobs' = Tail(jobs) /\ jobs # <<>>
    BY <1>1 DEF TakeJob, planVars
  <2>2. /\ DOMAIN jobs = 1 .. Len(jobs) /\ DOMAIN jobs' = 1 .. Len(jobs) - 1
        /\ Len(jobs) \in Nat /\ Len(jobs) > 0 /\ job' = jobs[1]
        /\ \A i \in 1 .. Len(jobs) - 1 : jobs'[i] = jobs[i + 1]
    BY <1>0, <2>1, GetJob
  <2>3. ASSUME NEW p \in Plans, Queued(p)'
        PROVE  \E i \in DOMAIN jobs : i > 1 /\ jobs[i] = DirectorEvent(p)
    <3>1. PICK i \in 1 .. Len(jobs) - 1 : jobs'[i] = DirectorEvent(p)
      BY <2>2, <2>3 DEF Queued
    <3>2. i + 1 \in 1 .. Len(jobs) /\ i + 1 > 1 /\ jobs[i + 1] = DirectorEvent(p)
      BY <2>2, <3>1
    <3> QED BY <2>2, <3>2
  <2>4. ASSUME NEW p \in Plans, Held(p)' PROVE jobs[1] = DirectorEvent(p)
    BY <2>2, <2>4 DEF Held
  <2>5. 1 \in DOMAIN jobs
    BY <2>2
  <2>6. \A p \in Plans : Queued(p)' \/ Held(p)' => plans'[p] = "armed"
    BY <2>1, <2>3, <2>4, <2>5 DEF Queued, PlansHeldOnce
  <2>7. ASSUME NEW p \in Plans, Queued(p)', Held(p)' PROVE FALSE
    <3>1. PICK i \in DOMAIN jobs : i > 1 /\ jobs[i] = DirectorEvent(p)
      BY <2>3, <2>7
    <3>2. jobs[1] = jobs[i] /\ jobs[1][1] = "director_event"
      BY <2>4, <2>7, <3>1 DEF DirectorEvent
    <3>3. i = 1
      BY <2>5, <3>1, <3>2 DEF PlansHeldOnce
    <3> QED BY <3>1, <3>3
  <2>8. ASSUME NEW i \in DOMAIN jobs', NEW j \in DOMAIN jobs',
               jobs'[i] = jobs'[j], jobs'[i][1] = "director_event"
        PROVE  i = j
    <3>1. /\ i \in Int /\ j \in Int
          /\ i + 1 \in DOMAIN jobs /\ j + 1 \in DOMAIN jobs
          /\ jobs[i + 1] = jobs[j + 1] /\ jobs[i + 1][1] = "director_event"
      BY <2>2, <2>8
    <3>2. i + 1 = j + 1
      BY <3>1 DEF PlansHeldOnce
    <3> QED BY <3>1, <3>2
  <2>9. pc' # "told" /\ \A p \in rows' : told'[p] > 0
    BY <2>1 DEF PlansHeldOnce
  <2> QED BY <2>6, <2>7, <2>8, <2>9 DEF PlansHeldOnce
<1>2. CASE TellPlan
  <2>1. /\ UNCHANGED <<plans, job, jobs>> /\ pc = "start" /\ pc' = "told"
        /\ rows' = rows \cup {job[2]} /\ InHand("director_event")
        /\ told' = [told EXCEPT ![job[2]] = IF job[2] \in rows THEN @ ELSE @ + 1]
    BY <1>2 DEF TellPlan
  <2>2. job[2] \in Plans
    BY <2>1, ToldPlan
  <2>3. \A p : (Queued(p)' <=> Queued(p)) /\ (Held(p)' <=> Held(p))
    BY <2>1 DEF Queued, Held
  <2>4. told'[job[2]] > 0
    BY <1>0, <2>1, <2>2 DEF PlansHeldOnce
  <2>5. ASSUME NEW p \in rows' PROVE told'[p] > 0
    <3>1. rows \subseteq Plans
      BY DEF TypeOK, PlansOK
    <3>2. CASE p = job[2]
      BY <2>4, <3>2
    <3>3. CASE p # job[2]
      BY <1>0, <2>1, <2>2, <2>5, <3>1, <3>3 DEF PlansHeldOnce
    <3> QED BY <3>2, <3>3
  <2> QED BY <2>1, <2>3, <2>4, <2>5 DEF PlansHeldOnce, InHand
<1>3. CASE FinishPlan \/ FailPlan
  <2>1. /\ UNCHANGED <<told, rows, jobs>> /\ pc' = "idle"
        /\ pc \in {"start", "told"} /\ InHand("director_event")
    BY <1>3 DEF FinishPlan, FailPlan, Finish, PlansHeldOnce
  <2>2. job[2] \in Plans /\ ~Queued(job[2])
    BY <2>1, ToldPlan
  <2>3. \A p \in Plans : p # job[2] => plans'[p] = plans[p]
    BY <1>0, <1>3 DEF FinishPlan, FailPlan
  <2>4. \A p : (Queued(p)' <=> Queued(p)) /\ ~Held(p)'
    BY <2>1 DEF Queued, Held
  <2>5. \A p \in Plans : Queued(p)' \/ Held(p)' => plans'[p] = "armed"
    BY <2>2, <2>3, <2>4 DEF PlansHeldOnce
  <2> QED BY <2>1, <2>4, <2>5 DEF PlansHeldOnce
<1>4. CASE LeavePlan \/ WorkerDies \/ StartReflection \/ FinishReflection
           \/ ClaimCallback \/ Greet \/ GiveUp
  <2>1. UNCHANGED <<plans, told, rows, jobs>> /\ pc' \notin {"start", "told"}
    BY <1>4
    DEF LeavePlan, WorkerDies, StartReflection, FinishReflection, ClaimCallback, Greet,
        GiveUp, Finish, planVars
  <2> QED BY <2>1, HeldKept
<1> QED BY <1>1, <1>2, <1>3, <1>4 DEF Worker

\* Nor does anybody else take a plan.
LEMMA HeldStep == ASSUME TypeOK, PlansHeldOnce, Next PROVE PlansHeldOnce'
<1>1. CASE Threads \/ Host
  <2>1. /\ UNCHANGED <<plans, told>> /\ rows' \subseteq rows
        /\ jobs' = jobs \/ jobs' = <<>>
        /\ UNCHANGED <<pc, job>> \/ pc' \notin {"start", "told"}
    BY <1>1
    DEF Threads, PickSession, FileSummary, Host, Switch, LogIn, LogOut, StartRealm,
        Restart, PruneRow, Finish, planVars, workerVars
  <2> QED BY <2>1, HeldKept
<1> QED BY <1>1, HeldMonitor, HeldWorker DEF Next

\* The monitor claims a plan that is due, and play time never runs back.
LEMMA DueStep == ASSUME TypeOK, PlansHeldOnce, PlansDue, Next PROVE PlansDue'
<1>0. /\ plans \in [Plans -> {"planned", "armed", "occurred"}]
      /\ told \in [Plans -> Nat] /\ played \in Nat /\ Plans \subseteq Nat
  BY DirectorAssumption DEF TypeOK, PlansOK, SessionsOK, Plans
<1>1. CASE Record \/ RecordQueueFull
  <2>1. UNCHANGED <<plans, told>> /\ RecordSession
    BY <1>1 DEF Record, RecordQueueFull, planVars
  <2>2. played' \in Nat /\ played <= played'
    BY <1>0, <2>1 DEF RecordSession
  <2> QED BY <1>0, <2>1, <2>2 DEF PlansDue
<1>2. CASE ClaimPlan
  <2>1. PICK p \in Due : plans' = [plans EXCEPT ![p] = "armed"] \/ plans' = plans
    BY <1>2 DEF ClaimPlan
  <2>2. UNCHANGED <<told, played>>
    BY <1>2 DEF ClaimPlan, sessionVars
  <2> QED BY <1>0, <2>1, <2>2 DEF PlansDue, Due
<1>3. CASE TellPlan
  <2>1. job[2] \in Plans /\ plans[job[2]] = "armed"
    BY <1>3, ToldPlan DEF TellPlan
  <2>2. /\ UNCHANGED <<plans, played>>
        /\ \A q \in Plans : q # job[2] => told'[q] = told[q]
    BY <1>0, <1>3 DEF TellPlan, sessionVars
  <2> QED BY <2>1, <2>2 DEF PlansDue
<1>4. CASE FinishPlan \/ FailPlan
  <2>1. job[2] \in Plans /\ plans[job[2]] = "armed"
    BY <1>4, ToldPlan DEF FinishPlan, FailPlan, PlansHeldOnce
  <2>2. /\ UNCHANGED <<told, played>>
        /\ \A q \in Plans : q # job[2] => plans'[q] = plans[q]
    BY <1>0, <1>4 DEF FinishPlan, FailPlan, sessionVars
  <2> QED BY <2>1, <2>2 DEF PlansDue
<1>5. CASE ReadPresence \/ PresenceUnavailable \/ RecordFails \/ NoPlan
           \/ StopRealm \/ StopUnanswered \/ KeepRealm
  BY <1>5
  DEF ReadPresence, PresenceUnavailable, RecordFails, NoPlan, StopRealm,
      StopUnanswered, KeepRealm, planVars, sessionVars, PlansDue
<1>6. CASE TakeJob \/ LeavePlan \/ WorkerDies \/ StartReflection \/ FinishReflection
           \/ ClaimCallback \/ Greet \/ GiveUp
  BY <1>6
  DEF TakeJob, LeavePlan, WorkerDies, StartReflection, FinishReflection,
      ClaimCallback, Greet, GiveUp, planVars, sessionVars, PlansDue
<1>7. CASE Threads \/ Host
  BY <1>7
  DEF Threads, PickSession, FileSummary, Host, Switch, LogIn, LogOut, StartRealm,
      Restart, PruneRow, planVars, sessionVars, PlansDue
<1> QED BY <1>1, <1>2, <1>3, <1>4, <1>5, <1>6, <1>7 DEF Next, Monitor, Worker

\* A plan occurs once: it is settled by the worker that holds it, armed.
LEMMA OccursStep ==
    ASSUME TypeOK, PlansHeldOnce, OccursOnce, PlansDue', Next
    PROVE  OccursOnce'
<1>0. /\ plans \in [Plans -> {"planned", "armed", "occurred"}]
      /\ told \in [Plans -> Nat] /\ remembered \in [Plans -> Nat]
  BY DEF TypeOK, PlansOK
<1>d. \A q \in Plans : told'[q] > 0 => q <= played'
  BY DEF PlansDue
<1>1. CASE ClaimPlan
  <2>1. PICK p \in Due : plans' = [plans EXCEPT ![p] = "armed"] \/ plans' = plans
    BY <1>1 DEF ClaimPlan
  <2>2. p \in Plans /\ plans[p] = "planned" /\ UNCHANGED <<told, remembered>>
    BY <1>1 DEF ClaimPlan, Due
  <2>3. \A q \in Plans : plans'[q] = "occurred" <=> plans[q] = "occurred"
    BY <1>0, <2>1, <2>2
  <2> QED BY <1>d, <2>2, <2>3 DEF OccursOnce
<1>2. CASE TellPlan
  <2>1. /\ UNCHANGED <<plans, remembered>>
        /\ \A q \in Plans : told[q] > 0 => told'[q] > 0
    BY <1>0, <1>2 DEF TellPlan
  <2> QED BY <1>d, <2>1 DEF OccursOnce
<1>3. CASE FinishPlan
  <2>1. job[2] \in Plans /\ plans[job[2]] = "armed" /\ told[job[2]] > 0
    BY <1>3, ToldPlan DEF FinishPlan, PlansHeldOnce
  <2>2. /\ plans' = [plans EXCEPT ![job[2]] = "occurred"] /\ told' = told
        /\ remembered' = [remembered EXCEPT ![job[2]] = @ + 1]
    BY <1>3 DEF FinishPlan
  <2>3. remembered[job[2]] = 0
    BY <2>1 DEF OccursOnce
  <2>4. plans'[job[2]] = "occurred" /\ remembered'[job[2]] = 1
    BY <1>0, <2>1, <2>2, <2>3
  <2>5. \A q \in Plans : q # job[2] =>
            plans'[q] = plans[q] /\ remembered'[q] = remembered[q]
    BY <1>0, <2>2
  <2>6. ASSUME NEW q \in Plans
        PROVE  /\ remembered'[q] = IF plans'[q] = "occurred" THEN 1 ELSE 0
               /\ plans'[q] = "occurred" => told'[q] > 0
    <3>1. CASE q = job[2]
      BY <2>1, <2>2, <2>4, <3>1
    <3>2. CASE q # job[2]
      BY <2>2, <2>5, <3>2 DEF OccursOnce
    <3> QED BY <3>1, <3>2
  <2> QED BY <1>d, <2>6 DEF OccursOnce
<1>4. CASE FailPlan
  <2>1. /\ UNCHANGED <<told, remembered>>
        /\ \A q \in Plans : plans'[q] = "occurred" <=> plans[q] = "occurred"
    BY <1>0, <1>4 DEF FailPlan
  <2> QED BY <1>d, <2>1 DEF OccursOnce
<1>5. CASE ReadPresence \/ PresenceUnavailable \/ Record \/ RecordQueueFull
           \/ RecordFails \/ NoPlan \/ StopRealm \/ StopUnanswered \/ KeepRealm
  <2>1. UNCHANGED <<plans, told, remembered>>
    BY <1>5
    DEF ReadPresence, PresenceUnavailable, Record, RecordQueueFull, RecordFails, NoPlan,
        StopRealm, StopUnanswered, KeepRealm, planVars
  <2> QED BY <1>d, <2>1 DEF OccursOnce
<1>6. CASE TakeJob \/ LeavePlan \/ WorkerDies \/ StartReflection \/ FinishReflection
           \/ ClaimCallback \/ Greet \/ GiveUp
  <2>1. UNCHANGED <<plans, told, remembered>>
    BY <1>6
    DEF TakeJob, LeavePlan, WorkerDies, StartReflection, FinishReflection,
        ClaimCallback, Greet, GiveUp, planVars
  <2> QED BY <1>d, <2>1 DEF OccursOnce
<1>7. CASE Threads \/ Host
  <2>1. UNCHANGED <<plans, told, remembered>>
    BY <1>7
    DEF Threads, PickSession, FileSummary, Host, Switch, LogIn, LogOut, StartRealm,
        Restart, PruneRow, planVars
  <2> QED BY <1>d, <2>1 DEF OccursOnce
<1> QED BY <1>1, <1>2, <1>3, <1>4, <1>5, <1>6, <1>7 DEF Next, Monitor, Worker

----------------------------------------------------------------------------
(* Reflections.                                                            *)

\* A session that has ended stays ended, whatever is recorded.
LEMMA EndedStays ==
    ASSUME TypeOK, SessionsCounted, RecordSession,
           NEW s \in Sessions, s <= sessions, s # session
    PROVE  s <= sessions' /\ s # session'
<1>0. sessions \in Nat /\ s \in Nat /\ s # NoSession
  BY DirectorAssumption DEF TypeOK, SessionsOK, Sessions, NoSession
<1> QED BY <1>0 DEF RecordSession

\* A step that adds neither a job nor a callback.
LEMMA ReflectedKept ==
    ASSUME ReflectedOnce,
           \A s \in Sessions : s <= sessions /\ s # session
                                  => s <= sessions' /\ s # session',
           UNCHANGED <<callbacks, reflected>>,
           jobs' = jobs \/ jobs' = <<>>,
           \/ UNCHANGED <<pc, job>>
           \/ pc' \notin {"start", "reflecting"}
           \/ pc = "start" /\ job' = job
    PROVE  ReflectedOnce'
<1>1. ASSUME NEW s, WaitsForReflection(s)' PROVE WaitsForReflection(s)
  BY <1>1 DEF WaitsForReflection
<1>2. ASSUME NEW s, BeingReflected(s)' PROVE BeingReflected(s)
  BY <1>2 DEF BeingReflected
<1>3. \A i, j \in DOMAIN jobs' :
         jobs'[i] = jobs'[j] /\ jobs'[i][1] = "session_reflection" => i = j
  BY DEF ReflectedOnce
<1> QED BY <1>1, <1>2, <1>3 DEF ReflectedOnce

\* Another job at the end of the queue.
LEMMA ReflectedPut ==
    ASSUME TypeOK, ReflectedOnce, NEW x \in Jobs, jobs' = Append(jobs, x),
           \A s \in Sessions : s <= sessions /\ s # session
                                  => s <= sessions' /\ s # session',
           UNCHANGED <<pc, job, callbacks, reflected>>,
           \A s \in Sessions : x = SessionReflection(s) =>
               /\ s <= sessions' /\ s # session' /\ s \notin reflected
               /\ ~WaitsForReflection(s) /\ ~BeingReflected(s)
    PROVE  ReflectedOnce'
<1>1. /\ DOMAIN jobs = 1 .. Len(jobs) /\ DOMAIN jobs' = 1 .. Len(jobs) + 1
      /\ Len(jobs) \in Nat
      /\ \A i \in 1 .. Len(jobs) : jobs'[i] = jobs[i] /\ jobs[i] \in Jobs
      /\ jobs'[Len(jobs) + 1] = x
  BY PutJob, ElementOfSeq DEF TypeOK, QueueOK
<1>2. ASSUME NEW s \in Sessions, WaitsForReflection(s)'
      PROVE  WaitsForReflection(s) \/ x = SessionReflection(s)
  BY <1>1, <1>2 DEF WaitsForReflection
<1>3. \A s : BeingReflected(s)' <=> BeingReflected(s)
  BY DEF BeingReflected
<1>4. ASSUME NEW i \in 1 .. Len(jobs), jobs[i] = x, x[1] = "session_reflection"
      PROVE  FALSE
  <2>1. x[2] \in Sessions /\ x = SessionReflection(x[2])
    BY <1>4, JobFacts
  <2>2. WaitsForReflection(x[2])
    BY <1>1, <1>4, <2>1 DEF WaitsForReflection
  <2> QED BY <2>1, <2>2
<1>5. ASSUME NEW i \in DOMAIN jobs', NEW j \in DOMAIN jobs',
             jobs'[i] = jobs'[j], jobs'[i][1] = "session_reflection"
      PROVE  i = j
  <2>1. CASE i \in 1 .. Len(jobs) /\ j \in 1 .. Len(jobs)
    BY <1>1, <1>5, <2>1 DEF ReflectedOnce
  <2>2. CASE i \in 1 .. Len(jobs) /\ j = Len(jobs) + 1
    BY <1>1, <1>4, <1>5, <2>2
  <2>3. CASE i = Len(jobs) + 1 /\ j \in 1 .. Len(jobs)
    BY <1>1, <1>4, <1>5, <2>3
  <2> QED BY <1>1, <1>5, <2>1, <2>2, <2>3
<1>6. ASSUME NEW s \in Sessions
      PROVE  /\ WaitsForReflection(s)' \/ BeingReflected(s)' \/ s \in reflected'
                   => s <= sessions' /\ s # session'
             /\ ~(WaitsForReflection(s)' /\ BeingReflected(s)')
             /\ WaitsForReflection(s)' \/ BeingReflected(s)' => s \notin reflected'
             /\ s \in callbacks' => s \in reflected'
  BY <1>2, <1>3 DEF ReflectedOnce
<1> QED BY <1>5, <1>6 DEF ReflectedOnce

\* A session is handed over for reflection by the tick that ends it.
LEMMA ReflectedMonitor ==
    ASSUME TypeOK, SessionsCounted, ReflectedOnce, Monitor PROVE ReflectedOnce'
<1>1. CASE Record
  <2>1. UNCHANGED <<callbacks, reflected, pc, job>> /\ QueueTransition /\ RecordSession
    BY <1>1 DEF Record, callVars, threadVars, workerVars
  <2>2. \A s \in Sessions : s <= sessions /\ s # session
                               => s <= sessions' /\ s # session'
    BY <2>1, EndedStays
  <2>3. CASE UNCHANGED jobs
    BY <2>1, <2>2, <2>3, ReflectedKept
  <2>4. CASE Ends /\ jobs' = Append(jobs, SessionReflection(session))
    <3>1. session \in Sessions /\ session # NoSession
      BY <2>4 DEF Ends, TypeOK, SessionsOK
    <3>2. SessionReflection(session) \in Jobs
      BY <3>1 DEF Jobs
    <3>3. session <= sessions' /\ session # session'
      BY <2>1, <2>4, <3>1 DEF RecordSession, SessionsCounted, Ends, Starts
    <3>4. /\ session \notin reflected /\ ~WaitsForReflection(session)
          /\ ~BeingReflected(session)
      BY <3>1 DEF ReflectedOnce
    <3>5. \A s : SessionReflection(session) = SessionReflection(s) => s = session
      BY DEF SessionReflection
    <3> QED BY <2>1, <2>2, <2>4, <3>2, <3>3, <3>4, <3>5, ReflectedPut
  <2>5. CASE jobs' = Append(jobs, ReturnCallback)
    <3>1. /\ ReturnCallback \in Jobs
          /\ \A s : ReturnCallback # SessionReflection(s)
      BY DEF Jobs, ReturnCallback, SessionReflection
    <3> QED BY <2>1, <2>2, <2>5, <3>1, ReflectedPut
  <2> QED BY <2>1, <2>3, <2>4, <2>5 DEF QueueTransition
<1>2. CASE RecordQueueFull
  <2>1. UNCHANGED <<callbacks, reflected, pc, job, jobs>> /\ RecordSession
    BY <1>2 DEF RecordQueueFull, callVars, threadVars, workerVars
  <2>2. \A s \in Sessions : s <= sessions /\ s # session
                               => s <= sessions' /\ s # session'
    BY <2>1, EndedStays
  <2> QED BY <2>1, <2>2, ReflectedKept
<1>3. CASE ClaimPlan
  <2>1. UNCHANGED <<callbacks, reflected, pc, job, session, sessions>>
    BY <1>3 DEF ClaimPlan, callVars, threadVars, workerVars, sessionVars
  <2>2. PICK p \in Plans : jobs' = jobs \/ jobs' = Append(jobs, DirectorEvent(p))
    BY <1>3 DEF ClaimPlan, Due
  <2>3. /\ DirectorEvent(p) \in Jobs
        /\ \A s : DirectorEvent(p) # SessionReflection(s)
    BY DEF Jobs, DirectorEvent, SessionReflection
  <2> QED BY <2>1, <2>2, <2>3, ReflectedKept, ReflectedPut
<1>4. CASE ReadPresence \/ PresenceUnavailable \/ RecordFails \/ NoPlan
           \/ StopRealm \/ StopUnanswered \/ KeepRealm
  <2>1. UNCHANGED <<callbacks, reflected, pc, job, jobs, session, sessions>>
    BY <1>4
    DEF ReadPresence, PresenceUnavailable, RecordFails, NoPlan, StopRealm,
        StopUnanswered, KeepRealm, callVars, threadVars, workerVars, sessionVars
  <2> QED BY <2>1, ReflectedKept
<1> QED BY <1>1, <1>2, <1>3, <1>4 DEF Monitor

\* The worker takes one reflection at a time and leaves one callback behind.
LEMMA ReflectedWorker ==
    ASSUME TypeOK, GreetingsCounted, ReflectedOnce, Worker PROVE ReflectedOnce'
<1>1. CASE TakeJob
  <2>1. /\ UNCHANGED <<callbacks, reflected, session, sessions>>
        /\ job' = Head(jobs) /\ jobs' = Tail(jobs) /\ jobs # <<>>
    BY <1>1 DEF TakeJob, callVars, threadVars, sessionVars
  <2>2. /\ DOMAIN jobs = 1 .. Len(jobs) /\ DOMAIN jobs' = 1 .. Len(jobs) - 1
        /\ Len(jobs) \in Nat /\ Len(jobs) > 0 /\ job' = jobs[1]
        /\ \A i \in 1 .. Len(jobs) - 1 : jobs'[i] = jobs[i + 1]
    BY <2>1, GetJob DEF TypeOK, QueueOK
  <2>3. ASSUME NEW s, WaitsForReflection(s)'
        PROVE  \E i \in DOMAIN jobs : i > 1 /\ jobs[i] = SessionReflection(s)
    <3>1. PICK i \in 1 .. Len(jobs) - 1 : jobs'[i] = SessionReflection(s)
      BY <2>2, <2>3 DEF WaitsForReflection
    <3>2. i + 1 \in 1 .. Len(jobs) /\ i + 1 > 1 /\ jobs[i + 1] = SessionReflection(s)
      BY <2>2, <3>1
    <3> QED BY <2>2, <3>2
  <2>4. ASSUME NEW s, BeingReflected(s)' PROVE jobs[1] = SessionReflection(s)
    BY <2>2, <2>4 DEF BeingReflected
  <2>5. 1 \in DOMAIN jobs
    BY <2>2
  <2>6. ASSUME NEW s, WaitsForReflection(s)' \/ BeingReflected(s)'
        PROVE  WaitsForReflection(s)
    BY <2>3, <2>4, <2>5, <2>6 DEF WaitsForReflection
  <2>7. ASSUME NEW s, WaitsForReflection(s)', BeingReflected(s)' PROVE FALSE
    <3>1. PICK i \in DOMAIN jobs : i > 1 /\ jobs[i] = SessionReflection(s)
      BY <2>3, <2>7
    <3>2. jobs[1] = jobs[i] /\ jobs[1][1] = "session_reflection"
      BY <2>4, <2>7, <3>1 DEF SessionReflection
    <3>3. i = 1
      BY <2>5, <3>1, <3>2 DEF ReflectedOnce
    <3> QED BY <3>1, <3>3
  <2>8. ASSUME NEW i \in DOMAIN jobs', NEW j \in DOMAIN jobs',
               jobs'[i] = jobs'[j], jobs'[i][1] = "session_reflection"
        PROVE  i = j
    <3>1. /\ i \in Int /\ j \in Int
          /\ i + 1 \in DOMAIN jobs /\ j + 1 \in DOMAIN jobs
          /\ jobs[i + 1] = jobs[j + 1] /\ jobs[i + 1][1] = "session_reflection"
      BY <2>2, <2>8
    <3>2. i + 1 = j + 1
      BY <3>1 DEF ReflectedOnce
    <3> QED BY <3>1, <3>2
  <2> QED BY <2>1, <2>6, <2>7, <2>8 DEF ReflectedOnce
<1>2. CASE FinishReflection
  <2>1. /\ job[2] \in Sessions /\ pc = "reflecting" /\ BeingReflected(job[2])
    BY <1>2, HandFacts DEF FinishReflection, GreetingsCounted, BeingReflected
  <2>2. /\ UNCHANGED <<jobs, session, sessions>> /\ pc' = "idle"
        /\ callbacks' \subseteq callbacks \cup {job[2]}
        /\ reflected' = reflected \cup {job[2]}
    BY <1>2 DEF FinishReflection, Finish, sessionVars
  <2>3. \A s : (WaitsForReflection(s)' <=> WaitsForReflection(s)) /\ ~BeingReflected(s)'
    BY <2>2 DEF WaitsForReflection, BeingReflected
  <2>4. /\ job[2] <= sessions /\ job[2] # session
        /\ ~WaitsForReflection(job[2])
    BY <2>1 DEF ReflectedOnce
  <2> QED BY <2>2, <2>3, <2>4 DEF ReflectedOnce
<1>3. CASE TellPlan \/ FinishPlan \/ LeavePlan \/ FailPlan \/ WorkerDies
           \/ StartReflection \/ ClaimCallback \/ Greet \/ GiveUp
  <2>1. /\ UNCHANGED <<callbacks, reflected, jobs, session, sessions>>
        /\ pc' \notin {"start", "reflecting"} \/ (pc = "start" /\ job' = job)
    BY <1>3
    DEF TellPlan, FinishPlan, LeavePlan, FailPlan, WorkerDies, StartReflection,
        ClaimCallback, Greet, GiveUp, Finish, callVars, threadVars, sessionVars
  <2> QED BY <2>1, ReflectedKept
<1> QED BY <1>1, <1>2, <1>3 DEF Worker

\* Every step keeps reflections single and about ended sessions.
LEMMA ReflectedStep ==
    ASSUME TypeOK, SessionsCounted, GreetingsCounted, ReflectedOnce, Next
    PROVE  ReflectedOnce'
<1>1. CASE Threads \/ Host
  <2>1. /\ UNCHANGED <<callbacks, reflected, session, sessions>>
        /\ jobs' = jobs \/ jobs' = <<>>
        /\ UNCHANGED <<pc, job>> \/ pc' \notin {"start", "reflecting"}
    BY <1>1
    DEF Threads, PickSession, FileSummary, Host, Switch, LogIn, LogOut, StartRealm,
        Restart, PruneRow, Finish, callVars, threadVars, sessionVars, workerVars
  <2> QED BY <2>1, ReflectedKept
<1> QED BY <1>1, ReflectedMonitor, ReflectedWorker DEF Next

----------------------------------------------------------------------------
(* Armed plans.                                                            *)

\* A step that neither arms, settles nor strands a plan, and lets none go.
LEMMA ArmedKept ==
    ASSUME ArmedAccounted, UNCHANGED <<plans, stranded>>,
           \A p \in Plans : Queued(p)' \/ Held(p)' <=> Queued(p) \/ Held(p)
    PROVE  ArmedAccounted'
BY DEF ArmedAccounted

\* Queueing another job leaves the plans in the queue.
LEMMA QueuedPut ==
    ASSUME TypeOK, NEW x \in Jobs, jobs' = Append(jobs, x), NEW p
    PROVE  Queued(p)' <=> Queued(p) \/ x = DirectorEvent(p)
<1>1. /\ DOMAIN jobs = 1 .. Len(jobs) /\ DOMAIN jobs' = 1 .. Len(jobs) + 1
      /\ Len(jobs) \in Nat
      /\ \A i \in 1 .. Len(jobs) : jobs'[i] = jobs[i]
      /\ jobs'[Len(jobs) + 1] = x
  BY PutJob DEF TypeOK, QueueOK
<1>2. CASE Queued(p)
  <2>1. PICK i \in 1 .. Len(jobs) : jobs[i] = DirectorEvent(p)
    BY <1>1, <1>2 DEF Queued
  <2>2. i \in DOMAIN jobs' /\ jobs'[i] = DirectorEvent(p)
    BY <1>1, <2>1
  <2> QED BY <1>2, <2>2 DEF Queued
<1>3. CASE x = DirectorEvent(p)
  <2>1. Len(jobs) + 1 \in DOMAIN jobs'
    BY <1>1
  <2> QED BY <1>1, <1>3, <2>1 DEF Queued
<1>4. CASE ~Queued(p) /\ x # DirectorEvent(p)
  BY <1>1, <1>4 DEF Queued
<1> QED BY <1>2, <1>3, <1>4

\* The monitor arms a plan and queues its job, or strands it.
LEMMA ArmedMonitor ==
    ASSUME TypeOK, PlansHeldOnce, ArmedAccounted, Monitor PROVE ArmedAccounted'
<1>1. CASE Record
  <2>1. UNCHANGED <<plans, stranded, pc, job>> /\ QueueTransition
    BY <1>1 DEF Record, planVars, workerVars
  <2>2. \A p : Held(p)' <=> Held(p)
    BY <2>1 DEF Held
  <2>3. CASE UNCHANGED jobs
    BY <2>1, <2>2, <2>3, ArmedKept DEF Queued
  <2>4. CASE Ends /\ jobs' = Append(jobs, SessionReflection(session))
    <3>1. SessionReflection(session) \in Jobs
      BY <2>4 DEF Ends, Jobs, TypeOK, SessionsOK
    <3>2. \A p : Queued(p)' <=> Queued(p)
      BY <2>4, <3>1, QueuedPut, OtherJobs
    <3> QED BY <2>1, <2>2, <3>2, ArmedKept
  <2>5. CASE jobs' = Append(jobs, ReturnCallback)
    <3>1. ReturnCallback \in Jobs
      BY DEF Jobs
    <3>2. \A p : Queued(p)' <=> Queued(p)
      BY <2>5, <3>1, QueuedPut, OtherJobs
    <3> QED BY <2>1, <2>2, <3>2, ArmedKept
  <2> QED BY <2>1, <2>3, <2>4, <2>5 DEF QueueTransition
<1>2. CASE ClaimPlan
  <2>1. PICK p \in Due :
          \/ /\ plans' = [plans EXCEPT ![p] = "armed"]
             /\ jobs' = Append(jobs, DirectorEvent(p)) /\ stranded' = stranded
          \/ /\ plans' = [plans EXCEPT ![p] = "armed"]
             /\ jobs' = jobs /\ stranded' = stranded \cup {p}
          \/ plans' = plans /\ jobs' = jobs /\ stranded' = stranded
    BY <1>2 DEF ClaimPlan
  <2>2. /\ p \in Plans /\ plans[p] = "planned" /\ DirectorEvent(p) \in Jobs
        /\ plans \in [Plans -> {"planned", "armed", "occurred"}]
    BY DEF Due, Jobs, TypeOK, PlansOK
  <2>3. \A q : Held(q)' <=> Held(q)
    BY <1>2 DEF ClaimPlan, workerVars, Held
  <2>4. ~Queued(p) /\ ~Held(p) /\ p \notin stranded
    BY <2>2 DEF PlansHeldOnce, ArmedAccounted
  <2>5. CASE plans' = plans /\ jobs' = jobs /\ stranded' = stranded
    BY <2>3, <2>5, ArmedKept DEF Queued
  <2>6. CASE /\ plans' = [plans EXCEPT ![p] = "armed"]
             /\ jobs' = jobs /\ stranded' = stranded \cup {p}
    <3>1. \A q : Queued(q)' <=> Queued(q)
      BY <2>6 DEF Queued
    <3> QED BY <2>2, <2>3, <2>4, <2>6, <3>1 DEF ArmedAccounted
  <2>7. CASE /\ plans' = [plans EXCEPT ![p] = "armed"]
             /\ jobs' = Append(jobs, DirectorEvent(p)) /\ stranded' = stranded
    <3>1. \A q : Queued(q)' <=> Queued(q) \/ p = q
      BY <2>2, <2>7, QueuedPut DEF DirectorEvent
    <3> QED BY <2>2, <2>3, <2>4, <2>7, <3>1 DEF ArmedAccounted
  <2> QED BY <2>1, <2>5, <2>6, <2>7
<1>3. CASE ReadPresence \/ PresenceUnavailable \/ RecordQueueFull \/ RecordFails
           \/ NoPlan \/ StopRealm \/ StopUnanswered \/ KeepRealm
  <2>1. UNCHANGED <<plans, stranded, pc, job, jobs>>
    BY <1>3
    DEF ReadPresence, PresenceUnavailable, RecordQueueFull, RecordFails, NoPlan,
        StopRealm, StopUnanswered, KeepRealm, planVars, workerVars
  <2> QED BY <2>1, ArmedKept DEF Queued, Held
<1> QED BY <1>1, <1>2, <1>3 DEF Monitor

\* The worker settles or releases the plan in its hand, or strands it.
LEMMA ArmedWorker ==
    ASSUME TypeOK, PlansHeldOnce, GreetingsCounted, ArmedAccounted, Worker
    PROVE  ArmedAccounted'
<1>0. plans \in [Plans -> {"planned", "armed", "occurred"}]
  BY DEF TypeOK, PlansOK
<1>1. CASE TakeJob
  <2>1. /\ UNCHANGED <<plans, stranded>> /\ pc = "idle" /\ pc' = "start"
        /\ job' = Head(jobs) /\ jobs' = Tail(jobs) /\ jobs # <<>>
    BY <1>1 DEF TakeJob, planVars
  <2>2. /\ DOMAIN jobs = 1 .. Len(jobs) /\ DOMAIN jobs' = 1 .. Len(jobs) - 1
        /\ Len(jobs) \in Nat /\ Len(jobs) > 0 /\ job' = jobs[1]
        /\ \A i \in 1 .. Len(jobs) - 1 : jobs'[i] = jobs[i + 1]
    BY <2>1, GetJob DEF TypeOK, QueueOK
  <2>3. ASSUME NEW p, Queued(p) PROVE Queued(p)' \/ Held(p)'
    <3>1. PICK i \in 1 .. Len(jobs) : jobs[i] = DirectorEvent(p)
      BY <2>2, <2>3 DEF Queued
    <3>2. CASE i = 1
      BY <2>1, <2>2, <3>1, <3>2 DEF Held
    <3>3. CASE i # 1
      <4>1. i - 1 \in 1 .. Len(jobs) - 1 /\ (i - 1) + 1 = i
        BY <2>2, <3>1, <3>3
      <4>2. jobs'[i - 1] = DirectorEvent(p)
        BY <2>2, <3>1, <4>1
      <4> QED BY <2>2, <4>1, <4>2 DEF Queued
    <3> QED BY <3>2, <3>3
  <2>4. ASSUME NEW p, Queued(p)' \/ Held(p)' PROVE Queued(p)
    <3>1. CASE Queued(p)'
      <4>1. PICK i \in 1 .. Len(jobs) - 1 : jobs'[i] = DirectorEvent(p)
        BY <2>2, <3>1 DEF Queued
      <4>2. i + 1 \in 1 .. Len(jobs) /\ jobs[i + 1] = DirectorEvent(p)
        BY <2>2, <4>1
      <4> QED BY <2>2, <4>2 DEF Queued
    <3>2. CASE Held(p)'
      <4>1. 1 \in DOMAIN jobs /\ jobs[1] = DirectorEvent(p)
        BY <2>2, <3>2 DEF Held
      <4> QED BY <4>1 DEF Queued
    <3> QED BY <2>4, <3>1, <3>2
  <2>5. \A p : ~Held(p)
    BY <2>1 DEF Held
  <2> QED BY <2>1, <2>3, <2>4, <2>5, ArmedKept
<1>2. CASE TellPlan
  <2>1. UNCHANGED <<plans, stranded, jobs, job>> /\ pc = "start" /\ pc' = "told"
    BY <1>2 DEF TellPlan
  <2> QED BY <2>1, ArmedKept DEF Queued, Held
<1>3. CASE FinishPlan \/ FailPlan \/ LeavePlan \/ WorkerDies
  <2>1. /\ UNCHANGED jobs /\ pc' \in {"idle", "dead"}
        /\ pc \in {"start", "told"} /\ InHand("director_event")
    BY <1>3 DEF FinishPlan, FailPlan, LeavePlan, WorkerDies, Finish, PlansHeldOnce
  <2>2. /\ job[2] \in Plans /\ plans[job[2]] = "armed"
        /\ ~Queued(job[2]) /\ Held(job[2])
    BY <2>1, ToldPlan, HandFacts DEF Held
  <2>3. /\ \A p : (Queued(p)' <=> Queued(p)) /\ ~Held(p)'
        /\ \A p \in Plans : Held(p) => p = job[2]
    BY <2>1 DEF Queued, Held, DirectorEvent
  <2>4. job[2] \notin stranded
    BY <2>2 DEF ArmedAccounted
  <2>5. CASE FinishPlan \/ FailPlan
    <3>1. /\ stranded' = stranded /\ plans'[job[2]] # "armed"
          /\ \A p \in Plans : p # job[2] => plans'[p] = plans[p]
      BY <1>0, <2>2, <2>5 DEF FinishPlan, FailPlan
    <3> QED BY <2>2, <2>3, <2>4, <3>1 DEF ArmedAccounted
  <2>6. CASE LeavePlan \/ WorkerDies
    <3>1. stranded' = stranded \cup {job[2]} /\ plans' = plans
      BY <2>6 DEF LeavePlan, WorkerDies
    <3> QED BY <2>2, <2>3, <3>1 DEF ArmedAccounted
  <2> QED BY <1>3, <2>5, <2>6
<1>4. CASE StartReflection \/ FinishReflection \/ ClaimCallback \/ Greet \/ GiveUp
  <2>1. UNCHANGED <<plans, stranded, jobs>> /\ pc' \notin {"start", "told"}
    BY <1>4
    DEF StartReflection, FinishReflection, ClaimCallback, Greet, GiveUp, Finish, planVars
  <2>2. pc = "start" => ~InHand("director_event")
    BY <1>4
    DEF StartReflection, FinishReflection, ClaimCallback, Greet, GiveUp, InHand
  <2>3. pc # "told"
    BY <1>4
    DEF StartReflection, FinishReflection, ClaimCallback, Greet, GiveUp
  <2>4. \A p : ~Held(p) /\ ~Held(p)' /\ (Queued(p)' <=> Queued(p))
    BY <2>1, <2>2, <2>3 DEF Held, Queued, InHand, DirectorEvent
  <2> QED BY <2>1, <2>4, ArmedKept
<1> QED BY <1>1, <1>2, <1>3, <1>4 DEF Worker

\* A restart strands the plans that were under way.
LEMMA ArmedStep ==
    ASSUME TypeOK, PlansHeldOnce, GreetingsCounted, ArmedAccounted, Next
    PROVE  ArmedAccounted'
<1>1. CASE Restart
  <2>1. /\ plans' = plans /\ jobs' = <<>> /\ pc' = "idle"
        /\ stranded' = stranded \cup {p \in Plans : Queued(p) \/ Held(p)}
    BY <1>1 DEF Restart, Finish
  <2>2. \A p : ~Queued(p)' /\ ~Held(p)'
    BY <2>1 DEF Queued, Held
  <2> QED BY <2>1, <2>2 DEF ArmedAccounted, PlansHeldOnce
<1>2. CASE Threads \/ Switch \/ LogIn \/ LogOut \/ StartRealm
           \/ \E p \in Plans : PruneRow(p)
  <2>1. UNCHANGED <<plans, stranded, pc, job, jobs>>
    BY <1>2
    DEF Threads, PickSession, FileSummary, Switch, LogIn, LogOut, StartRealm, PruneRow,
        planVars, workerVars
  <2> QED BY <2>1, ArmedKept DEF Queued, Held
<1> QED BY <1>1, <1>2, ArmedMonitor, ArmedWorker DEF Next, Host

----------------------------------------------------------------------------
(* Summaries.                                                              *)

\* What the two invariants of the summaries have in common.
Filed == FiledUnderOpen /\ SummariesForgotten

\* A step that brings no summary and opens, ends and reflects on no session.
LEMMA FiledKept ==
    ASSUME Filed, UNCHANGED <<straggling, session, reflected>>,
           recording' \subseteq recording,
           summaries' \cup recording' \subseteq summaries \cup recording
    PROVE  Filed'
BY DEF Filed, FiledUnderOpen, SummariesForgotten

\* A session that ends takes the requests that picked it among the stragglers.
LEMMA FiledRecord ==
    ASSUME TypeOK, Filed, RecordSession, UNCHANGED threadVars
    PROVE  Filed'
<1>1. UNCHANGED <<recording, summaries, reflected>> /\ straggling \subseteq straggling'
  BY DEF RecordSession, threadVars
<1>2. recording \subseteq Sessions /\ NoSession \notin Sessions
  BY DirectorAssumption DEF TypeOK, ThreadsOK, Sessions, NoSession
<1>3. recording \subseteq straggling' \cup {session'}
  <2>1. CASE Ends
    BY <2>1 DEF RecordSession, Filed, FiledUnderOpen
  <2>2. CASE Starts
    BY <1>1, <1>2, <2>2 DEF Starts, Filed, FiledUnderOpen
  <2>3. CASE ~Starts /\ ~Ends
    BY <2>3 DEF RecordSession, Filed, FiledUnderOpen
  <2> QED BY <2>1, <2>2, <2>3
<1> QED BY <1>1, <1>3 DEF Filed, FiledUnderOpen, SummariesForgotten

\* Every step leaves nothing of a session that was reflected on.
LEMMA FiledStep ==
    ASSUME TypeOK, GreetingsCounted, ReflectedOnce, Filed, Next PROVE Filed'
<1>1. CASE Record \/ RecordQueueFull
  BY <1>1, FiledRecord DEF Record, RecordQueueFull
<1>2. CASE PickSession
  <2>1. /\ session \in Sessions /\ recording' = recording \cup {session}
        /\ UNCHANGED <<straggling, session, summaries, reflected>>
    BY <1>2 DEF PickSession, TypeOK, SessionsOK, sessionVars
  <2>2. session \notin reflected
    BY <2>1 DEF ReflectedOnce
  <2> QED BY <2>1, <2>2 DEF Filed, FiledUnderOpen, SummariesForgotten
<1>3. ASSUME NEW s \in Sessions, FileSummary(s) PROVE Filed'
  <2>1. /\ UNCHANGED <<straggling, session, reflected>> /\ recording' \subseteq recording
        /\ s \in recording /\ summaries' = summaries \cup {s}
    BY <1>3 DEF FileSummary, sessionVars
  <2> QED BY <2>1, FiledKept
<1>4. CASE FinishReflection
  <2>1. /\ job[2] \in Sessions /\ BeingReflected(job[2])
    BY <1>4, HandFacts DEF FinishReflection, GreetingsCounted, BeingReflected
  <2>2. job[2] # session
    BY <2>1 DEF ReflectedOnce
  <2>3. /\ UNCHANGED <<straggling, session, recording>>
        /\ summaries' = summaries \ {job[2]} /\ reflected' = reflected \cup {job[2]}
    BY <1>4 DEF FinishReflection, sessionVars
  <2> QED BY <2>2, <2>3 DEF Filed, FiledUnderOpen, SummariesForgotten
<1>5. CASE ReadPresence \/ PresenceUnavailable \/ RecordFails \/ ClaimPlan \/ NoPlan
           \/ StopRealm \/ StopUnanswered \/ KeepRealm
  BY <1>5, FiledKept
  DEF ReadPresence, PresenceUnavailable, RecordFails, ClaimPlan, NoPlan, StopRealm,
      StopUnanswered, KeepRealm, sessionVars, threadVars
<1>6. CASE TakeJob \/ TellPlan \/ FinishPlan \/ LeavePlan \/ FailPlan \/ WorkerDies
           \/ StartReflection \/ ClaimCallback \/ Greet \/ GiveUp
  BY <1>6, FiledKept
  DEF TakeJob, TellPlan, FinishPlan, LeavePlan, FailPlan, WorkerDies, StartReflection,
      ClaimCallback, Greet, GiveUp, sessionVars, threadVars
<1>7. CASE Host
  BY <1>7, FiledKept
  DEF Host, Switch, LogIn, LogOut, StartRealm, Restart, PruneRow, sessionVars, threadVars
<1> QED
  BY <1>1, <1>2, <1>3, <1>4, <1>5, <1>6, <1>7 DEF Next, Monitor, Worker, Threads

----------------------------------------------------------------------------
(* The visits.                                                             *)

\* What the monitor remembers of a visit it has seen.
LEMMA VisitStep == ASSUME TypeOK, VisitTracked, Next PROVE VisitTracked'
<1>0. /\ reading \in BOOLEAN /\ humansOnline \in BOOLEAN /\ fired \in BOOLEAN
      /\ emptyFor \in 0 .. Grace \cup {Occupied}
  BY DEF TypeOK, MonitorOK
<1>1. CASE ReadPresence \/ PresenceUnavailable
  <2>1. /\ UNCHANGED <<humansOnline, fired, visited>> /\ emptyFor' = Older(emptyFor)
        /\ monitorPc' \notin {"plan", "grace"}
    BY <1>1 DEF ReadPresence, PresenceUnavailable
  <2> QED BY <1>0, <2>1, OlderTyped DEF VisitTracked
<1>2. CASE Record
  <2>1. /\ emptyFor' = IF reading THEN Occupied ELSE IF humansOnline THEN 0 ELSE emptyFor
        /\ fired' = (fired /\ ~reading) /\ humansOnline' = reading
        /\ visited' = IF reading THEN "now" ELSE visited
        /\ reading' = reading
    BY <1>2 DEF Record
  <2>2. CASE reading
    BY <2>1, <2>2 DEF VisitTracked
  <2>3. CASE ~reading
    BY <1>0, <2>1, <2>3 DEF VisitTracked
  <2> QED BY <2>2, <2>3
<1>3. CASE StopRealm
  <2>1. emptyFor # Occupied
    BY <1>3, DirectorAssumption DEF StopRealm, GraceOver, Occupied
  <2>2. /\ UNCHANGED <<humansOnline, emptyFor>> /\ fired' = TRUE
        /\ monitorPc' = "asleep"
    BY <1>3 DEF StopRealm
  <2> QED BY <2>1, <2>2 DEF VisitTracked
<1>4. CASE Restart
  BY <1>4 DEF Restart, VisitTracked
<1>5. CASE RecordQueueFull \/ RecordFails \/ ClaimPlan \/ NoPlan
           \/ StopUnanswered \/ KeepRealm \/ Worker \/ Threads
  <2>1. /\ UNCHANGED <<humansOnline, emptyFor, fired, visited, reading>>
        /\ monitorPc' \in {"plan", "grace"} => monitorPc \in {"plan", "grace"}
    BY <1>5
    DEF RecordQueueFull, RecordFails, ClaimPlan, NoPlan, StopUnanswered, KeepRealm,
        Worker, TakeJob, TellPlan, FinishPlan, LeavePlan, FailPlan, WorkerDies,
        StartReflection, FinishReflection, ClaimCallback, Greet, GiveUp, Threads,
        PickSession, FileSummary, monitorVars
  <2> QED BY <2>1 DEF VisitTracked
<1>6. CASE Switch \/ LogIn \/ LogOut \/ StartRealm \/ \E p \in Plans : PruneRow(p)
  <2>1. /\ UNCHANGED <<humansOnline, emptyFor, fired, visited, reading>>
        /\ monitorPc' \in {"plan", "grace"} => monitorPc \in {"plan", "grace"}
    BY <1>6 DEF Switch, LogIn, LogOut, StartRealm, PruneRow, monitorVars
  <2> QED BY <2>1 DEF VisitTracked
<1> QED BY <1>1, <1>2, <1>3, <1>4, <1>5, <1>6 DEF Next, Monitor, Host

\* A realm is stopped only by a monitor that has seen a visit end and has just
\* read nobody.
LEMMA StopsStep ==
    ASSUME TypeOK, VisitTracked, Next, realm # realm', monitorPc' # monitorPc
    PROVE  visited = "now" /\ ~reading
<1>1. CASE StopRealm \/ StopUnanswered
  <2>1. emptyFor = Grace /\ ~fired /\ monitorPc = "grace"
    BY <1>1 DEF StopRealm, StopUnanswered, GraceOver
  <2> QED BY <2>1, DirectorAssumption DEF VisitTracked, Occupied
<1>2. CASE ReadPresence \/ PresenceUnavailable \/ Record \/ RecordQueueFull
           \/ RecordFails \/ ClaimPlan \/ NoPlan \/ KeepRealm
  BY <1>2
  DEF ReadPresence, PresenceUnavailable, Record, RecordQueueFull, RecordFails, ClaimPlan,
      NoPlan, KeepRealm, people
<1>3. CASE Worker
  BY <1>3
  DEF Worker, TakeJob, TellPlan, FinishPlan, LeavePlan, FailPlan, WorkerDies,
      StartReflection, FinishReflection, ClaimCallback, Greet, GiveUp, people
<1>4. CASE Threads
  BY <1>4 DEF Threads, PickSession, FileSummary, people
<1>5. CASE Host
  BY <1>5
  DEF Host, Switch, LogIn, LogOut, StartRealm, Restart, PruneRow, people, monitorVars
<1> QED BY <1>1, <1>2, <1>3, <1>4, <1>5 DEF Next, Monitor

----------------------------------------------------------------------------
(* The theorems.                                                           *)

\* The inductive invariant.
IInv == /\ TypeOK /\ SessionsCounted /\ GreetingsCounted
        /\ PlansHeldOnce /\ PlansDue /\ OccursOnce /\ VisitTracked
        /\ ReflectedOnce /\ ArmedAccounted /\ Filed

\* It holds in every state.
LEMMA Invariance == Spec => []IInv
<1>1. Init => IInv
  <2> SUFFICES ASSUME Init PROVE IInv
    OBVIOUS
  <2>1. TypeOK
    BY TypeInit
  <2>2. SessionsCounted
    BY DEF Init, SessionsCounted, NoSession
  <2>3. GreetingsCounted
    BY DEF Init, GreetingsCounted
  <2>4. PlansHeldOnce
    BY DEF Init, PlansHeldOnce, Queued, Held
  <2>5. PlansDue /\ OccursOnce
    BY DEF Init, PlansDue, OccursOnce
  <2>6. VisitTracked
    BY DEF Init, VisitTracked
  <2>7. ReflectedOnce
    BY DEF Init, ReflectedOnce, WaitsForReflection, BeingReflected
  <2>8. ArmedAccounted /\ Filed
    BY DEF Init, ArmedAccounted, Filed, FiledUnderOpen, SummariesForgotten
  <2> QED BY <2>1, <2>2, <2>3, <2>4, <2>5, <2>6, <2>7, <2>8 DEF IInv
<1>2. IInv /\ [Next]_vars => IInv'
  <2> SUFFICES ASSUME IInv, [Next]_vars PROVE IInv'
    OBVIOUS
  <2>1. CASE Next
    <3>1. TypeOK'
      BY <2>1, MonitorTypes, WorkerTypes, OtherTypes DEF Next, IInv
    <3> QED
      BY <2>1, <3>1, AccountStep, GreetingsStep, HeldStep, DueStep, OccursStep, VisitStep,
         ReflectedStep, ArmedStep, FiledStep DEF IInv
  <2>2. CASE UNCHANGED vars
    <3>1. TypeOK'
      BY <2>2, Kept DEF IInv, TypeOK, vars
    <3>2. SessionsCounted' /\ GreetingsCounted'
      BY <2>2 DEF IInv, SessionsCounted, GreetingsCounted, InHand, vars, sessionVars,
                  people, monitorVars, workerVars, callVars
    <3>3. PlansHeldOnce' /\ PlansDue' /\ OccursOnce'
      BY <2>2 DEF IInv, PlansHeldOnce, Queued, Held, InHand, PlansDue, OccursOnce, vars,
                  planVars, workerVars, sessionVars
    <3>4. VisitTracked'
      BY <2>2 DEF IInv, VisitTracked, vars, monitorVars
    <3>5. ReflectedOnce'
      BY <2>2, ReflectedKept DEF IInv, vars, sessionVars, callVars, workerVars, threadVars
    <3>6. ArmedAccounted'
      BY <2>2, ArmedKept DEF IInv, Queued, Held, vars, planVars, workerVars
    <3>7. Filed'
      BY <2>2, FiledKept DEF IInv, vars, sessionVars, threadVars
    <3> QED BY <3>1, <3>2, <3>3, <3>4, <3>5, <3>6, <3>7 DEF IInv
  <2> QED BY <2>1, <2>2
<1> QED BY <1>1, <1>2, PTL DEF Spec

\* The job queue never holds more than maxsize jobs, and a session number is
\* there for every session record_presence opens.
THEOREM TypesHold == Spec => []TypeOK
<1>1. IInv => TypeOK
  BY DEF IInv
<1> QED BY <1>1, Invariance, PTL

\* finish_plan puts a beat into the world's memory once, whatever fails
\* between the telling and the settling, and however often the monitor claims
\* the plan again.
THEOREM BeatsOccurOnce == Spec => []OccursOnce
<1>1. IInv => OccursOnce
  BY DEF IInv
<1> QED BY <1>1, Invariance, PTL

\* claim_callback bounds the greetings made from a callback, across failed
\* generations and restarts.
THEOREM CallbacksRunOut == Spec => []CallbacksExpire
<1>1. IInv => CallbacksExpire
  <2> SUFFICES ASSUME IInv, NEW c \in Sessions PROVE greeted[c] <= MaxReuse
    BY DEF CallbacksExpire
  <2>1. uses[c] \in 0 .. MaxReuse /\ greeted[c] \in Nat
    BY DEF IInv, TypeOK, CallsOK
  <2>2. greeted[c] <= uses[c]
    BY <2>1 DEF IInv, GreetingsCounted
  <2> QED BY <2>1, <2>2, DirectorAssumption
<1> QED BY <1>1, Invariance, PTL

\* No session is reflected on twice, or before it has ended, and no greeting
\* recalls the session that is going on (record_presence, put_nowait,
\* finish_session_reflection, claim_callback).
THEOREM OneReflectionPerSession == Spec => []ReflectedOnce
<1>1. IInv => ReflectedOnce
  BY DEF IInv
<1> QED BY <1>1, Invariance, PTL

\* Once finish_session_reflection has run for a session, no summary of it is
\* in session_event_candidates but those of requests that record_presence
\* overtook.
THEOREM ReflectionForgets == Spec => []SummariesForgotten
<1>1. IInv => SummariesForgotten
  BY DEF IInv, Filed
<1> QED BY <1>1, Invariance, PTL

\* claim_due_plan arms no plan that the queue, the worker or one of the named
\* failures does not account for, and release_plan frees none of the latter.
THEOREM ArmedPlansAreAccounted == Spec => []ArmedAccounted
<1>1. IInv => ArmedAccounted
  BY DEF IInv
<1> QED BY <1>1, Invariance, PTL

\* The presence monitor stops the realm only after a visit it has seen, once
\* for each, and only in a tick that read nobody, across restarts of the
\* service and of the realm.
THEOREM OneStopPerAbsence == Spec => StopsOncePerAbsence
<1>1. IInv /\ [Next]_vars
        => [realm # realm' /\ monitorPc' # monitorPc => visited = "now" /\ ~reading]_vars
  BY StopsStep DEF IInv
<1> QED BY <1>1, Invariance, PTL DEF Spec, StopsOncePerAbsence

=============================================================================
