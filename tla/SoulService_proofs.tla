-------------------------- MODULE SoulService_proofs ------------------------
(***************************************************************************)
(* Proofs about SoulService, for every set of events, every size of the    *)
(* queue, of the buffer and of the retained events, and every number of    *)
(* requests and restarts.                                                  *)
(***************************************************************************)
EXTENDS SoulService, SequenceTheorems, TLAPS

----------------------------------------------------------------------------
(* Facts about job queues: only some of the jobs, the events, are unique.  *)

Unique(s, E) == \A i, j \in DOMAIN s : s[i] = s[j] /\ s[i] \in E => i = j

\* The empty queue.
LEMMA EmptyJobs == ASSUME NEW E PROVE Range(<<>>) = {} /\ Unique(<<>>, E)
BY DEF Range, Unique

\* put adds its job, and keeps events unique if it was no event of the queue.
LEMMA PutJob ==
    ASSUME NEW S, NEW E, NEW s \in Seq(S), NEW x \in S, Unique(s, E),
           x \in E => x \notin Range(s)
    PROVE  /\ Append(s, x) \in Seq(S)
           /\ Len(Append(s, x)) = Len(s) + 1
           /\ Range(Append(s, x)) = Range(s) \cup {x}
           /\ Unique(Append(s, x), E)
<1>1. /\ Append(s, x) \in Seq(S)
      /\ DOMAIN s = 1 .. Len(s)
      /\ DOMAIN Append(s, x) = 1 .. Len(s) + 1
      /\ Len(s) \in Nat /\ Len(Append(s, x)) = Len(s) + 1
      /\ \A i \in 1 .. Len(s) : Append(s, x)[i] = s[i]
      /\ Append(s, x)[Len(s) + 1] = x
  BY AppendProperties, LenProperties
<1>2. Range(Append(s, x)) = Range(s) \cup {x}
  BY <1>1 DEF Range
<1>3. Unique(Append(s, x), E)
  BY <1>1 DEF Range, Unique
<1> QED BY <1>1, <1>2, <1>3

\* get removes the head; an event is then nowhere in the queue.
LEMMA GetJob ==
    ASSUME NEW S, NEW E, NEW s \in Seq(S), s # <<>>, Unique(s, E)
    PROVE  /\ Head(s) \in S
           /\ Tail(s) \in Seq(S) /\ Len(Tail(s)) = Len(s) - 1
           /\ Range(s) = Range(Tail(s)) \cup {Head(s)}
           /\ Head(s) \in E => Head(s) \notin Range(Tail(s))
           /\ Unique(Tail(s), E)
<1>1. /\ Head(s) \in S /\ Tail(s) \in Seq(S)
      /\ DOMAIN s = 1 .. Len(s)
      /\ DOMAIN Tail(s) = 1 .. Len(s) - 1
      /\ Len(s) \in Nat /\ Len(s) > 0 /\ Len(Tail(s)) = Len(s) - 1
      /\ \A i \in 1 .. Len(s) - 1 : Tail(s)[i] = s[i + 1]
      /\ Head(s) = s[1]
  BY HeadTailProperties, LenProperties, EmptySeq
<1>2. Range(Tail(s)) \cup {Head(s)} \subseteq Range(s)
  BY <1>1 DEF Range
<1>3. ASSUME NEW x \in Range(s), x # Head(s) PROVE x \in Range(Tail(s))
  <2>1. PICK i \in 1 .. Len(s) : s[i] = x
    BY <1>1, <1>3 DEF Range
  <2>2. i # 1 /\ i - 1 \in 1 .. Len(s) - 1
    BY <1>1, <1>3, <2>1
  <2>3. Tail(s)[i - 1] = x
    BY <1>1, <2>1, <2>2
  <2> QED BY <1>1, <2>2, <2>3 DEF Range
<1>4. Head(s) \in E => Head(s) \notin Range(Tail(s))
  BY <1>1 DEF Range, Unique
<1>5. Unique(Tail(s), E)
  BY <1>1 DEF Unique
<1> QED BY <1>1, <1>2, <1>3, <1>4, <1>5

----------------------------------------------------------------------------
(* Type correctness.                                                       *)

\* No event is a job of another kind or the absent job.
LEMMA JobsDiffer == /\ NoJob \notin Events /\ OtherJobs \cap Events = {}
                    /\ NoJob \notin OtherJobs
                    /\ Compaction \in OtherJobs /\ Story \in OtherJobs /\ Visit \in OtherJobs
BY ServiceAssumption DEF NoJob, OtherJobs, Compaction, Story, Visit

\* An event and its follow-up are different sources of the outbox.
LEMMA SourcesOfEvents ==
    /\ \A e \in Events : Reply(e) \in Sources /\ Banter(e) \in Sources
    /\ \A e, f : Reply(e) # Banter(f)
    /\ \A e, f : Reply(e) = Reply(f) => e = f
    /\ \A e, f : Banter(e) = Banter(f) => e = f
BY DEF Sources, Reply, Banter

\* Initially everything is empty.
LEMMA TypeInit == Init => TypeOK
BY ServiceAssumption DEF Init, TypeOK, Statuses, Pcs

\* Inserting a row keeps the types of the counters.
LEMMA InsertTypes ==
    ASSUME TypeOK, NEW s \in Sources, Insert(s)
    PROVE  inserted' \in [Sources -> Nat] /\ allowance' \in Int
BY DEF TypeOK, Insert

\* Every step keeps the types and the bound of the job queue.
LEMMA TypeStep == TypeOK /\ PhaseOK /\ [Next]_vars => TypeOK'
<1> SUFFICES ASSUME TypeOK, PhaseOK, [Next]_vars PROVE TypeOK'
  OBVIOUS
<1> USE DEF eventVars, workerVars, outboxVars
<1>0. /\ TypeOK
      /\ NoJob \notin Events
  BY JobsDiffer
<1>1. ASSUME NEW e \in Events, Accept(e) PROVE TypeOK'
  BY <1>1, ServiceAssumption DEF Accept, TypeOK, Statuses
<1>2. ASSUME NEW e \in Events, AcceptDuplicate(e) PROVE TypeOK'
  BY <1>2, ServiceAssumption DEF AcceptDuplicate, TypeOK
<1>3. ASSUME NEW e \in Events, QueueJob(e) PROVE TypeOK'
  <2>1. jobs' \in Seq(Events \cup OtherJobs) /\ Len(jobs') <= QueueCapacity
    BY <1>3, ServiceAssumption DEF QueueJob, TypeOK
  <2> QED BY <1>3, <2>1 DEF QueueJob, TypeOK
<1>4. CASE TakeJob
  <2>1. /\ Head(jobs) \in Events \cup OtherJobs
        /\ Tail(jobs) \in Seq(Events \cup OtherJobs)
        /\ Len(Tail(jobs)) <= QueueCapacity
    BY <1>4, ServiceAssumption DEF TakeJob, TypeOK
  <2> QED BY <1>4, <2>1 DEF TakeJob, TypeOK, Pcs
<1>5. CASE JobFails \/ WorkerDies \/ RunOther \/ Refuse
  BY <1>5 DEF JobFails, WorkerDies, RunOther, Refuse, Finish, TypeOK, Pcs
<1>6. CASE PauseSoul \/ TurnDown \/ NoReaction \/ MarkComplete
  <2>1. status' \in [Events -> Statuses]
    BY <1>6 DEF PauseSoul, TurnDown, NoReaction, MarkComplete, Settle, TypeOK, Statuses
  <2> QED
    BY <1>6, <2>1 DEF PauseSoul, TurnDown, NoReaction, MarkComplete, Settle,
                      Finish, TypeOK, Pcs
<1>7. CASE NoAnswer
  <2>1. status' \in [Events -> Statuses]
    BY <1>7 DEF NoAnswer, Settle, TypeOK, Statuses
  <2> QED BY <1>7, <2>1 DEF NoAnswer, Settle, Finish, TypeOK, Pcs
<1>8. CASE Prompt \/ Answer \/ NoBanter \/ FollowUp \/ NoFollowUp
  BY <1>8 DEF Prompt, Answer, NoBanter, FollowUp, NoFollowUp, GoTo, TypeOK, Pcs
<1>9. CASE ClaimReaction \/ ClaimBanter
  <2>1. job \in Events
    BY <1>9 DEF PhaseOK, ClaimReaction, ClaimBanter, Events
  <2> QED
    BY <1>9, <2>1, SourcesOfEvents
       DEF ClaimReaction, ClaimBanter, GoTo, TypeOK, Pcs
<1>10. CASE Complete
  <2>1. Reply(job) \in Sources
    BY <1>10, SourcesOfEvents DEF Complete, Events
  <2>2. inserted' \in [Sources -> Nat] /\ allowance' \in Int
    BY <1>10, <2>1, InsertTypes DEF Complete
  <2>3. status' \in [Events -> Statuses] /\ forgotten' \in SUBSET Events
    BY <1>10 DEF Complete, TypeOK, Statuses
  <2>4. buffer' \in 0 .. BufferSize
    BY <1>10, ServiceAssumption DEF Complete, TypeOK
  <2> QED BY <1>10, <2>1, <2>2, <2>3, <2>4 DEF Complete, GoTo, TypeOK, Pcs
<1>11. CASE CompleteAmbient \/ EnqueueReaction \/ EnqueueFollowUp
  <2>1. job \in Events
    BY <1>11 DEF PhaseOK, CompleteAmbient, EnqueueReaction, EnqueueFollowUp, Events
  <2>2. inserted' \in [Sources -> Nat] /\ allowance' \in Int
    BY <1>11, <2>1, InsertTypes, SourcesOfEvents
       DEF CompleteAmbient, EnqueueReaction, EnqueueFollowUp
  <2>3. outbox' \in SUBSET Sources
    BY <1>11, <2>1, SourcesOfEvents
       DEF CompleteAmbient, EnqueueReaction, EnqueueFollowUp, TypeOK
  <2>4. status' \in [Events -> Statuses]
    BY <1>11 DEF CompleteAmbient, EnqueueReaction, EnqueueFollowUp, Settle,
                 TypeOK, Statuses
  <2> QED
    BY <1>11, <2>2, <2>3, <2>4 DEF CompleteAmbient, EnqueueReaction, EnqueueFollowUp,
                              Settle, Finish, GoTo, TypeOK, Pcs
<1>12. CASE EndDialogue
  <2>1. jobs' \in Seq(Events \cup OtherJobs) /\ Len(jobs') <= QueueCapacity
    BY <1>12, ServiceAssumption, JobsDiffer DEF EndDialogue, TypeOK
  <2> QED BY <1>12, <2>1 DEF EndDialogue, Finish, TypeOK, Pcs
<1>13. CASE Compact
  BY <1>13, ServiceAssumption DEF Compact, Finish, TypeOK, Pcs
<1>14. CASE Switch
  BY <1>14 DEF Switch, TypeOK
<1>15. CASE Restart
  <2>1. /\ <<>> \in Seq(Events \cup OtherJobs) /\ Len(<<>>) <= QueueCapacity
        /\ restarts' \in 0 .. MaxRestarts
    BY <1>15, ServiceAssumption DEF Restart, TypeOK
  <2> QED BY <1>15, <2>1 DEF Restart, Finish, TypeOK, Pcs
<1>16. ASSUME NEW s \in Sources, Expire(s) PROVE TypeOK'
  BY <1>16 DEF Expire, TypeOK
<1>17. CASE QueueOther
  <2>1. jobs' \in Seq(Events \cup OtherJobs) /\ Len(jobs') <= QueueCapacity
    BY <1>17, ServiceAssumption, JobsDiffer DEF QueueOther, TypeOK
  <2> QED BY <1>17, <2>1 DEF QueueOther, TypeOK
<1>18. CASE UNCHANGED vars
  BY <1>18 DEF vars, TypeOK
<1> QED
  BY <1>1, <1>2, <1>3, <1>4, <1>5, <1>6, <1>7, <1>8, <1>9, <1>10, <1>11, <1>12,
     <1>13, <1>14, <1>15, <1>16, <1>17, <1>18 DEF Next, Requests, Worker

----------------------------------------------------------------------------
(* The inductive invariant.                                                *)

\* Initially nothing is accepted, held, inserted or claimed.
LEMMA InvInit == Init => IInv
<1> SUFFICES ASSUME Init PROVE IInv
  OBVIOUS
<1>1. TypeOK
  BY TypeInit
<1>2. PhaseOK /\ AllowanceCovers
  BY DEF Init, PhaseOK, AllowanceCovers, Committed
<1>3. Held = {} /\ InHand = {}
  BY EmptyJobs DEF Init, Held, InHand, Unanswered
<1>4. HeldOnce
  BY <1>3, EmptyJobs DEF Init, HeldOnce
<1>5. \A e \in Events : inserted[Reply(e)] = 0 /\ inserted[Banter(e)] = 0
  BY SourcesOfEvents DEF Init
<1>6. AnswersTracked /\ FollowUpsTracked
  BY <1>3, <1>5 DEF Init, AnswersTracked, FollowUpsTracked
<1>7. AnsweredOnce /\ OneFollowUp /\ CompleteIsAnswered
  BY <1>5 DEF Init, AnsweredOnce, OneFollowUp, CompleteIsAnswered
<1> QED BY <1>1, <1>2, <1>4, <1>6, <1>7 DEF IInv

\* A job of another kind leaves the events of the queue as they are.
LEMMA PutOther ==
    ASSUME TypeOK, HeldOnce, NEW other \in OtherJobs, jobs' = Append(jobs, other)
    PROVE  Unique(jobs', Events) /\ Range(jobs') = Range(jobs) \cup {other}
<1> DEFINE S == Events \cup OtherJobs
<1>1. jobs \in Seq(S) /\ other \in S /\ Unique(jobs, Events)
  BY DEF TypeOK, HeldOnce, Unique
<1>2. other \in Events => other \notin Range(jobs)
  BY JobsDiffer
<1> HIDE DEF S
<1> QED BY <1>1, <1>2, PutJob

\* A job that ends without a row, and perhaps the worker with it: its event
\* is no longer held, and its status is left alone, or is settled as something
\* other than complete.
LEMMA DropJob ==
    ASSUME IInv, pc' \in {"idle", "dead"}, job' = NoJob, TypeOK',
           UNCHANGED <<accepting, forgotten, jobs, ai, reactions, outbox,
                       inserted, allowance>>,
           \/ UNCHANGED status
           \/ /\ pc \in {"start", "triage", "generate"} /\ job \in Events
              /\ \E s \in {"paused", "ignored"} : Settle(s)
    PROVE  IInv'
<1>1. /\ TypeOK /\ PhaseOK /\ HeldOnce /\ AnswersTracked /\ FollowUpsTracked
      /\ AllowanceCovers /\ AnsweredOnce /\ OneFollowUp /\ CompleteIsAnswered
  BY DEF IInv
<1>2. pc' \in {"idle", "dead"} /\ job' = NoJob
  OBVIOUS
<1>3. PhaseOK' /\ AllowanceCovers' /\ FollowUpsTracked' /\ AnsweredOnce' /\ OneFollowUp'
  <2>1. PhaseOK' /\ FollowUpsTracked'
    BY <1>1, <1>2 DEF PhaseOK, FollowUpsTracked
  <2>2. AllowanceCovers'
    BY <1>1, <1>2 DEF AllowanceCovers, Committed, TypeOK
  <2>3. AnsweredOnce' /\ OneFollowUp'
    BY <1>1 DEF AnsweredOnce, OneFollowUp
  <2> QED BY <2>1, <2>2, <2>3
<1>4. InHand' = {} /\ Held' = accepting \cup (Range(jobs) \cap Events)
  BY <1>2 DEF InHand, Unanswered, Held
<1>5. /\ \A e \in Held' : status'[e] = status[e]
      /\ \A e \in Events : status'[e] \in {"absent", "complete"} => status'[e] = status[e]
  <2>1. CASE UNCHANGED status
    BY <2>1
  <2>2. CASE /\ pc \in {"start", "triage", "generate"} /\ job \in Events
             /\ \E s \in {"paused", "ignored"} : Settle(s)
    <3>1. job \notin Held'
      BY <1>1, <1>4, <2>2 DEF HeldOnce, InHand, Unanswered
    <3>2. \A e \in Events : e # job => status'[e] = status[e]
      BY <1>1, <2>2 DEF Settle, TypeOK
    <3>3. status[job] = "queued" /\ status'[job] \in {"paused", "ignored"}
      BY <1>1, <2>2 DEF Settle, TypeOK, HeldOnce, Held, InHand, Unanswered
    <3>4. Held' \subseteq Events
      BY <1>1, <1>4 DEF TypeOK
    <3> QED BY <3>1, <3>2, <3>3, <3>4
  <2> QED BY <2>1, <2>2
<1>6. HeldOnce'
  BY <1>1, <1>2, <1>4, <1>5 DEF HeldOnce, Held
<1>7. AnswersTracked' /\ CompleteIsAnswered'
  BY <1>1, <1>2, <1>4, <1>5 DEF AnswersTracked, CompleteIsAnswered, Held
<1> QED BY <1>3, <1>6, <1>7 DEF IInv

\* A job that moves on without touching the tables of events and replies.
LEMMA MoveOn ==
    ASSUME IInv, TypeOK', PhaseOK', AllowanceCovers', FollowUpsTracked',
           UNCHANGED <<status, accepting, forgotten, jobs, outbox, inserted, job>>,
           \/ Unanswered /\ Unanswered'
           \/ /\ pc \in {"banter", "followup", "followCommit"}
              /\ pc' \in {"followup", "followCommit", "finish"}
    PROVE  IInv'
<1>1. /\ HeldOnce /\ AnswersTracked /\ AnsweredOnce /\ OneFollowUp /\ CompleteIsAnswered
  BY DEF IInv
<1>2. InHand' = InHand /\ Held' = Held /\ pc' # "mark"
  BY DEF InHand, Held, Unanswered
<1>3. HeldOnce'
  BY <1>1, <1>2 DEF HeldOnce
<1>4. AnswersTracked' /\ AnsweredOnce' /\ OneFollowUp' /\ CompleteIsAnswered'
  BY <1>1, <1>2 DEF AnswersTracked, AnsweredOnce, OneFollowUp, CompleteIsAnswered, Unanswered
<1> QED BY <1>3, <1>4 DEF IInv

\* What Insert does to the counters: a source that has a row, or had none
\* before, ends with at least one; the others are left alone.
LEMMA InsertCounts ==
    ASSUME TypeOK, AnswersTracked, NEW s \in Sources, Insert(s)
    PROVE  /\ inserted'[s] > 0
           /\ inserted[s] = 0 => inserted'[s] <= 1
           /\ inserted'[s] \in {inserted[s], inserted[s] + 1}
           /\ \A t \in Sources \ {s} : inserted'[t] = inserted[t]
           /\ ai => allowance' = allowance
           /\ allowance' >= allowance - 1
<1>1. inserted[s] \in Nat /\ (s \in outbox => inserted[s] > 0)
  BY DEF TypeOK, AnswersTracked
<1>2. inserted'[s] = IF s \in outbox THEN inserted[s] ELSE inserted[s] + 1
  BY DEF TypeOK, Insert
<1>3. \A t \in Sources \ {s} : inserted'[t] = inserted[t]
  BY DEF TypeOK, Insert
<1>4. (ai => allowance' = allowance) /\ allowance' >= allowance - 1
  BY DEF TypeOK, Insert
<1> QED BY <1>1, <1>2, <1>3, <1>4

\* The transaction that answers the event in hand: its row is inserted, some
\* completed events may be forgotten, and the event is no longer held.
LEMMA AnswerInHand ==
    ASSUME IInv, TypeOK', PhaseOK', pc = "commit", job \in Events,
           Insert(Reply(job)),
           UNCHANGED <<accepting, jobs, ai, reactions>>,
           outbox' \subseteq outbox \cup {Reply(job)},
           forgotten \subseteq forgotten',
           \A e \in Events \ {job} :
               \/ status'[e] = status[e]
               \/ status[e] = "complete" /\ status'[e] = "absent" /\ e \in forgotten',
           status'[job] = "absent" => job \in forgotten',
           pc' \in {"idle", "mark", "banter", "finish"},
           pc' # "idle" => job' = job,
           pc' = "mark" => status'[job] = "queued"
    PROVE  IInv'
<1>1. /\ TypeOK /\ PhaseOK /\ HeldOnce /\ AnswersTracked /\ FollowUpsTracked
      /\ AllowanceCovers /\ AnsweredOnce /\ OneFollowUp /\ CompleteIsAnswered
  BY DEF IInv
<1>2. /\ Reply(job) \in Sources
      /\ \A e \in Events : Banter(e) \in Sources /\ Banter(e) # Reply(job)
      /\ \A e \in Events \ {job} : Reply(e) \in Sources /\ Reply(e) # Reply(job)
  BY SourcesOfEvents
<1>3. /\ inserted'[Reply(job)] > 0
      /\ inserted[Reply(job)] = 0 => inserted'[Reply(job)] <= 1
      /\ \A t \in Sources \ {Reply(job)} : inserted'[t] = inserted[t]
      /\ ai => allowance' = allowance
      /\ allowance' >= allowance - 1
  BY <1>1, <1>2, InsertCounts
<1>4. /\ \A e \in Events : inserted'[Banter(e)] = inserted[Banter(e)]
      /\ \A e \in Events \ {job} : inserted'[Reply(e)] = inserted[Reply(e)]
  BY <1>2, <1>3
<1>5. InHand = {job} /\ InHand' = {}
  BY DEF InHand, Unanswered
<1>6. /\ Held = Held' \cup {job}
      /\ job \notin Held' /\ Held' \subseteq Events
  BY <1>1, <1>5 DEF Held, HeldOnce, TypeOK
<1>7. HeldOnce'
  <2>1. \A e \in Held' : status'[e] = "queued"
    BY <1>1, <1>6 DEF HeldOnce
  <2>2. pc' = "mark" => status'[job'] = "queued" /\ job' \notin Held'
    BY <1>6
  <2> QED BY <1>1, <1>5, <2>1, <2>2 DEF HeldOnce
<1>8. AnswersTracked'
  <2>1. ASSUME NEW e \in Events \ forgotten', e \in Held' \/ status'[e] = "absent"
        PROVE  inserted'[Reply(e)] = 0
    <3>1. e # job /\ e \notin forgotten
      BY <2>1, <1>6
    <3>2. e \in Held \/ status[e] = "absent"
      BY <2>1, <3>1, <1>6
    <3> QED BY <1>1, <1>4, <3>1, <3>2 DEF AnswersTracked
  <2>2. \A s \in outbox' : inserted'[s] > 0
    BY <1>1, <1>3 DEF AnswersTracked, TypeOK
  <2>3. pc' \in {"mark", "banter", "followup", "followCommit"} =>
            inserted'[Reply(job')] > 0
    BY <1>3
  <2> QED BY <2>1, <2>2, <2>3 DEF AnswersTracked
<1>9. FollowUpsTracked'
  BY <1>1, <1>4 DEF FollowUpsTracked
<1>10. AllowanceCovers'
  BY <1>1, <1>3 DEF AllowanceCovers, Committed, TypeOK
<1>11. AnsweredOnce'
  <2>1. job \notin forgotten => inserted[Reply(job)] = 0
    BY <1>1, <1>6 DEF AnswersTracked
  <2> QED BY <1>1, <1>3, <1>4, <2>1 DEF AnsweredOnce
<1>12. OneFollowUp' /\ CompleteIsAnswered'
  <2>1. OneFollowUp'
    BY <1>1, <1>3, <1>4 DEF OneFollowUp
  <2>2. CompleteIsAnswered'
    BY <1>1, <1>3, <1>4 DEF CompleteIsAnswered
  <2> QED BY <2>1, <2>2
<1> QED BY <1>7, <1>8, <1>9, <1>10, <1>11, <1>12 DEF IInv

\* Every step keeps the invariant.
LEMMA InvStep == IInv /\ [Next]_vars => IInv'
<1> SUFFICES ASSUME IInv, [Next]_vars PROVE IInv'
  OBVIOUS
<1> USE DEF eventVars, workerVars, outboxVars
<1>a. /\ TypeOK /\ PhaseOK /\ HeldOnce /\ AnswersTracked /\ FollowUpsTracked
      /\ AllowanceCovers /\ AnsweredOnce /\ OneFollowUp /\ CompleteIsAnswered
  BY DEF IInv
<1>b. TypeOK'
  BY <1>a, TypeStep
<1>c. GameEvents \subseteq Events /\ DirectEvents \subseteq Events /\ AmbientEvents \subseteq Events
  BY DEF Events
<1>d. Unique(jobs, Events) /\ jobs \in Seq(Events \cup OtherJobs)
  BY <1>a DEF HeldOnce, TypeOK, Unique
<1>1. ASSUME NEW e \in Events, Accept(e) PROVE IInv'
  <2>1. /\ status[e] = "absent"
        /\ status' = [status EXCEPT ![e] = "queued"]
        /\ accepting' = accepting \cup {e}
        /\ UNCHANGED <<forgotten, jobs, pc, job, ai, reactions, outbox, inserted, allowance>>
    BY <1>1 DEF Accept
  <2>2. e \notin Held /\ Held' = Held \cup {e} /\ InHand' = InHand
    BY <1>a, <2>1 DEF HeldOnce, Held, InHand, Unanswered
  <2>3. /\ status'[e] = "queued"
        /\ \A f \in Events \ {e} : status'[f] = status[f]
    BY <1>a, <2>1 DEF TypeOK
  <2>4. PhaseOK' /\ AllowanceCovers' /\ FollowUpsTracked' /\ AnsweredOnce' /\ OneFollowUp'
    BY <1>a, <2>1 DEF PhaseOK, AllowanceCovers, Committed, FollowUpsTracked,
                      AnsweredOnce, OneFollowUp
  <2>5. HeldOnce'
    <3>1. Held \subseteq Events /\ (pc = "mark" => job \in Events /\ job # e)
      BY <1>a, <1>c, <2>1 DEF TypeOK, PhaseOK, Held, InHand, HeldOnce
    <3>2. e \notin Range(jobs) /\ e \notin InHand
      BY <2>2 DEF Held
    <3> QED BY <1>a, <2>1, <2>2, <2>3, <3>1, <3>2 DEF HeldOnce
  <2>6. AnswersTracked' /\ CompleteIsAnswered'
    BY <1>a, <2>1, <2>2, <2>3 DEF AnswersTracked, CompleteIsAnswered
  <2> QED BY <1>b, <2>4, <2>5, <2>6 DEF IInv
<1>2. ASSUME NEW e \in Events, QueueJob(e) PROVE IInv'
  <2>1. /\ e \in accepting /\ accepting' = accepting \ {e}
        /\ UNCHANGED <<status, forgotten, pc, job, ai, reactions, outbox, inserted, allowance>>
    BY <1>2 DEF QueueJob
  <2>2. e \notin Range(jobs) /\ e \notin InHand
    BY <1>a, <2>1 DEF HeldOnce
  <2>3. /\ Range(jobs') \subseteq Range(jobs) \cup {e}
        /\ Unique(jobs', Events)
    <3>1. CASE jobs' = Append(jobs, e)
      BY <1>d, <2>2, <3>1, PutJob
    <3>2. CASE UNCHANGED jobs
      BY <1>d, <3>2
    <3> QED BY <1>2, <3>1, <3>2 DEF QueueJob
  <2>4. Held' \subseteq Held /\ InHand' = InHand
    BY <2>1, <2>3 DEF Held, InHand, Unanswered
  <2>5. PhaseOK' /\ AllowanceCovers' /\ FollowUpsTracked' /\ AnsweredOnce' /\ OneFollowUp'
        /\ CompleteIsAnswered'
    BY <1>a, <2>1 DEF PhaseOK, AllowanceCovers, Committed, FollowUpsTracked,
                      AnsweredOnce, OneFollowUp, CompleteIsAnswered
  <2>6. HeldOnce'
    BY <1>a, <2>1, <2>2, <2>3, <2>4 DEF HeldOnce, Unique
  <2>7. AnswersTracked'
    BY <1>a, <2>1, <2>4 DEF AnswersTracked
  <2> QED BY <1>b, <2>5, <2>6, <2>7 DEF IInv
<1>3. CASE TakeJob
  <2>1. /\ pc = "idle" /\ pc' = "start" /\ job' = Head(jobs) /\ jobs' = Tail(jobs)
        /\ jobs # <<>>
        /\ UNCHANGED <<status, accepting, forgotten, ai, reactions, outbox, inserted, allowance>>
    BY <1>3 DEF TakeJob
  <2>2. /\ job' \in Events \cup OtherJobs
        /\ Range(jobs) = Range(jobs') \cup {job'}
        /\ job' \in Events => job' \notin Range(jobs')
        /\ Unique(jobs', Events)
    BY <1>d, <2>1, GetJob
  <2>3. /\ InHand' = {job'} \cap Events
        /\ Held' = Held
    BY <2>1, <2>2 DEF Held, InHand, Unanswered
  <2>4. PhaseOK' /\ FollowUpsTracked'
    BY <1>a, <2>1, <2>2, JobsDiffer DEF PhaseOK, FollowUpsTracked
  <2>5. AllowanceCovers' /\ AnsweredOnce' /\ OneFollowUp' /\ CompleteIsAnswered'
    BY <1>a, <2>1 DEF AllowanceCovers, Committed, AnsweredOnce, OneFollowUp,
                      CompleteIsAnswered
  <2>6. HeldOnce'
    BY <1>a, <2>1, <2>2, <2>3 DEF HeldOnce, Unique
  <2>7. AnswersTracked'
    BY <1>a, <2>1, <2>3 DEF AnswersTracked
  <2> QED BY <1>b, <2>4, <2>5, <2>6, <2>7 DEF IInv
<1>4. CASE JobFails \/ WorkerDies \/ RunOther \/ Refuse
  BY <1>4, <1>b, DropJob DEF JobFails, WorkerDies, RunOther, Refuse, Finish
<1>5. CASE PauseSoul \/ TurnDown \/ NoReaction
  <2>1. job \in Events /\ pc \in {"start", "triage"}
    BY <1>5, <1>a, <1>c DEF PauseSoul, TurnDown, NoReaction, PhaseOK
  <2>2. Settle("paused") \/ Settle("ignored")
    BY <1>5 DEF PauseSoul, TurnDown, NoReaction
  <2> QED
    BY <1>5, <1>b, <2>1, <2>2, DropJob DEF PauseSoul, TurnDown, NoReaction, Settle, Finish
<1>6. CASE NoAnswer
  <2>1. job \in Events /\ pc = "generate"
    BY <1>6, <1>a DEF NoAnswer, PhaseOK
  <2>2. UNCHANGED status \/ Settle("ignored")
    BY <1>6 DEF NoAnswer
  <2> QED BY <1>6, <1>b, <2>1, <2>2, DropJob DEF NoAnswer, Settle, Finish
<1>7. CASE Prompt \/ Answer
  <2>1. PhaseOK'
    BY <1>7, <1>a, <1>c, JobsDiffer DEF Prompt, Answer, GoTo, PhaseOK
  <2>2. AllowanceCovers'
    BY <1>7 DEF Prompt, Answer, AllowanceCovers
  <2>3. FollowUpsTracked'
    BY <1>7, <1>a DEF Prompt, Answer, GoTo, FollowUpsTracked
  <2>4. Unanswered /\ Unanswered'
    BY <1>7 DEF Prompt, Answer, GoTo, Unanswered
  <2> QED BY <1>7, <1>b, <2>1, <2>2, <2>3, <2>4, MoveOn DEF Prompt, Answer, GoTo
<1>8. CASE ClaimReaction
  <2>1. PhaseOK' /\ AllowanceCovers'
    BY <1>8, <1>a, <1>c DEF ClaimReaction, GoTo, PhaseOK, AllowanceCovers
  <2>2. FollowUpsTracked'
    BY <1>8, <1>a DEF ClaimReaction, GoTo, FollowUpsTracked
  <2> QED BY <1>8, <1>b, <2>1, <2>2, MoveOn DEF ClaimReaction, GoTo, Unanswered
<1>9. CASE NoBanter \/ NoFollowUp
  <2>1. PhaseOK' /\ FollowUpsTracked'
    BY <1>9, <1>a DEF NoBanter, NoFollowUp, GoTo, PhaseOK, FollowUpsTracked
  <2>2. AllowanceCovers'
    BY <1>9, <1>a DEF NoBanter, NoFollowUp, GoTo, AllowanceCovers, Committed, TypeOK
  <2> QED BY <1>9, <1>b, <2>1, <2>2, MoveOn DEF NoBanter, NoFollowUp, GoTo
<1>10. CASE ClaimBanter
  <2>1. job \in Events /\ inserted[Banter(job)] = 0
    <3>1. job \in Events
      BY <1>10, <1>a, <1>c DEF ClaimBanter, PhaseOK
    <3>2. inserted[Banter(job)] \in Nat /\ ~(inserted[Banter(job)] > 0)
      BY <1>10, <1>a, <3>1, SourcesOfEvents DEF ClaimBanter, FollowUpsTracked, TypeOK
    <3> QED BY <3>1, <3>2
  <2>2. PhaseOK' /\ AllowanceCovers'
    BY <1>10, <1>a DEF ClaimBanter, GoTo, PhaseOK, AllowanceCovers
  <2>3. FollowUpsTracked'
    BY <1>10, <1>a, <2>1 DEF ClaimBanter, GoTo, FollowUpsTracked
  <2> QED BY <1>10, <1>b, <2>2, <2>3, MoveOn DEF ClaimBanter, GoTo
<1>11. CASE FollowUp
  <2>1. PhaseOK' /\ AllowanceCovers' /\ FollowUpsTracked'
    BY <1>11, <1>a DEF FollowUp, GoTo, PhaseOK, AllowanceCovers, FollowUpsTracked
  <2> QED BY <1>11, <1>b, <2>1, MoveOn DEF FollowUp, GoTo
<1>12. ASSUME NEW e \in Events, AcceptDuplicate(e) PROVE IInv'
  <2>1. UNCHANGED <<status, accepting, forgotten, jobs, pc, job, ai, reactions,
                    outbox, inserted, allowance>>
    BY <1>12 DEF AcceptDuplicate
  <2>2. Held' = Held /\ InHand' = InHand
    BY <2>1 DEF Held, InHand, Unanswered
  <2>3. PhaseOK' /\ HeldOnce' /\ AnswersTracked' /\ FollowUpsTracked'
    BY <1>a, <2>1, <2>2 DEF PhaseOK, HeldOnce, AnswersTracked, FollowUpsTracked
  <2>4. AllowanceCovers' /\ AnsweredOnce' /\ OneFollowUp' /\ CompleteIsAnswered'
    BY <1>a, <2>1 DEF AllowanceCovers, Committed, AnsweredOnce, OneFollowUp,
                      CompleteIsAnswered
  <2> QED BY <1>b, <2>3, <2>4 DEF IInv
<1>13. CASE Complete
  <2>1. PICK gone \in SUBSET {e \in Events : status[e] = "complete" \/ e = job} :
            /\ status' = [e \in Events |-> IF e \in gone THEN "absent"
                                           ELSE IF e = job THEN "complete"
                                           ELSE status[e]]
            /\ forgotten' = forgotten \cup gone
    BY <1>13 DEF Complete
  <2>2. job \in Events /\ pc = "commit"
    BY <1>13, <1>c DEF Complete
  <2>3. pc' \in {"banter", "finish"} /\ job' = job /\ PhaseOK'
    BY <1>13, <1>a, JobsDiffer, <2>2 DEF Complete, GoTo, PhaseOK
  <2>4. /\ \A e \in Events \ {job} :
               \/ status'[e] = status[e]
               \/ status[e] = "complete" /\ status'[e] = "absent" /\ e \in forgotten'
        /\ status'[job] = "absent" => job \in forgotten'
    BY <2>1, <2>2
  <2>5. /\ Insert(Reply(job)) /\ outbox' \subseteq outbox \cup {Reply(job)}
        /\ UNCHANGED <<accepting, jobs, ai, reactions>>
    BY <1>13 DEF Complete
  <2> QED BY <1>b, <2>1, <2>2, <2>3, <2>4, <2>5, AnswerInHand
<1>14. CASE CompleteAmbient \/ EnqueueReaction
  <2>1. job \in Events /\ pc = "commit" /\ status[job] = "queued"
    BY <1>14, <1>a, <1>c
       DEF CompleteAmbient, EnqueueReaction, HeldOnce, Held, InHand, Unanswered
  <2>2. /\ Insert(Reply(job)) /\ outbox' \subseteq outbox \cup {Reply(job)}
        /\ UNCHANGED <<accepting, jobs, ai, reactions, forgotten>>
    BY <1>14 DEF CompleteAmbient, EnqueueReaction, Settle
  <2>3. /\ \A e \in Events \ {job} : status'[e] = status[e]
        /\ status'[job] \in {"queued", "complete"}
    BY <1>14, <1>a, <2>1 DEF CompleteAmbient, EnqueueReaction, Settle, TypeOK
  <2>4. /\ pc' \in {"idle", "mark"} /\ PhaseOK'
        /\ pc' = "mark" => status'[job] = "queued" /\ job' = job
    BY <1>14, <1>a, <1>c, <2>1
       DEF CompleteAmbient, EnqueueReaction, GoTo, Finish, PhaseOK, NoJob
  <2> QED BY <1>b, <2>1, <2>2, <2>3, <2>4, AnswerInHand
<1>15. CASE MarkComplete
  <2>1. /\ job \in Events /\ pc = "mark" /\ pc' = "idle" /\ job' = NoJob
        /\ status[job] = "queued" /\ job \notin Held /\ inserted[Reply(job)] > 0
        /\ UNCHANGED <<accepting, forgotten, jobs, ai, reactions, outbox, inserted, allowance>>
    BY <1>15, <1>a, <1>c
       DEF MarkComplete, Settle, Finish, PhaseOK, HeldOnce, AnswersTracked
  <2>2. /\ status'[job] = "complete"
        /\ \A e \in Events \ {job} : status'[e] = status[e]
    BY <1>15, <1>a, <2>1 DEF MarkComplete, Settle, TypeOK
  <2>3. InHand' = {} /\ InHand = {} /\ Held' = Held /\ Held \subseteq Events
    BY <1>a, <2>1 DEF Held, InHand, Unanswered, TypeOK
  <2>4. PhaseOK' /\ FollowUpsTracked' /\ AllowanceCovers'
    BY <1>a, <2>1 DEF PhaseOK, FollowUpsTracked, AllowanceCovers, Committed
  <2>5. HeldOnce'
    BY <1>a, <2>1, <2>2, <2>3 DEF HeldOnce
  <2>6. AnswersTracked'
    BY <1>a, <2>1, <2>2, <2>3 DEF AnswersTracked
  <2>7. AnsweredOnce' /\ OneFollowUp' /\ CompleteIsAnswered'
    BY <1>a, <2>1, <2>2 DEF AnsweredOnce, OneFollowUp, CompleteIsAnswered
  <2> QED BY <1>b, <2>4, <2>5, <2>6, <2>7 DEF IInv
<1>16. CASE EnqueueFollowUp
  <2>1. /\ job \in Events /\ pc = "followCommit" /\ pc' = "finish" /\ job' = job
        /\ inserted[Banter(job)] = 0 /\ Banter(job) \in reactions
        /\ inserted[Reply(job)] > 0
        /\ UNCHANGED <<status, accepting, forgotten, jobs, ai, reactions>>
        /\ outbox' = outbox \cup {Banter(job)}
    BY <1>16, <1>a, <1>c
       DEF EnqueueFollowUp, GoTo, PhaseOK, FollowUpsTracked, AnswersTracked
  <2>2. /\ Banter(job) \in Sources
        /\ \A e \in Events : Reply(e) \in Sources \ {Banter(job)}
        /\ \A e \in Events \ {job} : Banter(e) \in Sources \ {Banter(job)}
    BY <2>1, SourcesOfEvents
  <2>3. /\ inserted'[Banter(job)] > 0 /\ inserted'[Banter(job)] <= 1
        /\ \A t \in Sources \ {Banter(job)} : inserted'[t] = inserted[t]
        /\ ai => allowance' = allowance
        /\ allowance' >= allowance - 1
    BY <1>16, <1>a, <2>1, <2>2, InsertCounts DEF EnqueueFollowUp
  <2>4. /\ \A e \in Events : inserted'[Reply(e)] = inserted[Reply(e)]
        /\ \A e \in Events \ {job} : inserted'[Banter(e)] = inserted[Banter(e)]
    BY <2>2, <2>3
  <2>5. InHand' = InHand /\ Held' = Held
    BY <2>1 DEF Held, InHand, Unanswered
  <2>6. PhaseOK' /\ HeldOnce'
    BY <1>a, <2>1, <2>5 DEF PhaseOK, HeldOnce
  <2>7. AnswersTracked' /\ FollowUpsTracked'
    <3>1. \A s \in outbox' : inserted'[s] > 0
      BY <1>a, <2>1, <2>3 DEF AnswersTracked, TypeOK
    <3>2. AnswersTracked'
      BY <1>a, <2>1, <2>4, <2>5, <3>1 DEF AnswersTracked
    <3>3. FollowUpsTracked'
      BY <1>a, <2>1, <2>4 DEF FollowUpsTracked
    <3> QED BY <3>2, <3>3
  <2>8. AllowanceCovers'
    BY <1>a, <1>b, <2>1, <2>3 DEF AllowanceCovers, Committed, TypeOK
  <2>9. AnsweredOnce' /\ OneFollowUp' /\ CompleteIsAnswered'
    BY <1>a, <2>1, <2>3, <2>4 DEF AnsweredOnce, OneFollowUp, CompleteIsAnswered
  <2> QED BY <1>b, <2>6, <2>7, <2>8, <2>9 DEF IInv
<1>17. CASE EndDialogue
  <2>1. /\ pc = "finish" /\ pc' = "idle" /\ job' = NoJob
        /\ jobs' = jobs \/ jobs' = Append(jobs, Compaction)
        /\ UNCHANGED <<status, accepting, forgotten, ai, reactions, outbox, inserted, allowance>>
    BY <1>17 DEF EndDialogue, Finish
  <2>2. /\ Unique(jobs', Events)
        /\ Range(jobs') \subseteq Range(jobs) \cup {Compaction}
        /\ Range(jobs) \subseteq Range(jobs')
    <3>1. CASE jobs' = jobs
      BY <1>d, <3>1
    <3>2. CASE jobs' = Append(jobs, Compaction)
      BY <1>a, <3>2, JobsDiffer, PutOther
    <3> QED BY <2>1, <3>1, <3>2
  <2>3. Held' = Held /\ InHand' = {} /\ InHand = {}
    BY <2>1, <2>2, JobsDiffer DEF Held, InHand, Unanswered
  <2>4. PhaseOK' /\ FollowUpsTracked' /\ AllowanceCovers'
    BY <1>a, <2>1 DEF PhaseOK, FollowUpsTracked, AllowanceCovers, Committed
  <2>5. HeldOnce'
    <3>1. accepting \cap Range(jobs') = {}
      BY <1>a, <2>2, JobsDiffer DEF HeldOnce, TypeOK
    <3> QED BY <1>a, <2>1, <2>2, <2>3, <3>1 DEF HeldOnce, Unique
  <2>6. AnswersTracked' /\ AnsweredOnce' /\ OneFollowUp' /\ CompleteIsAnswered'
    BY <1>a, <2>1, <2>3 DEF AnswersTracked, AnsweredOnce, OneFollowUp, CompleteIsAnswered
  <2> QED BY <1>b, <2>4, <2>5, <2>6 DEF IInv
<1>18. CASE Compact
  BY <1>18, <1>b, DropJob DEF Compact, Finish
<1>19. CASE Switch
  <2>1. UNCHANGED <<status, accepting, forgotten, jobs, pc, job, reactions, outbox, inserted>>
    BY <1>19 DEF Switch
  <2>2. Held' = Held /\ InHand' = InHand
    BY <2>1 DEF Held, InHand, Unanswered
  <2>3. PhaseOK' /\ HeldOnce' /\ AnswersTracked' /\ FollowUpsTracked'
    BY <1>a, <2>1, <2>2 DEF PhaseOK, HeldOnce, AnswersTracked, FollowUpsTracked
  <2>4. AllowanceCovers'
    <3>1. Committed' <=> Committed
      BY <2>1 DEF Committed
    <3>2. CASE ai
      BY <1>19, <3>1, <3>2 DEF Switch, AllowanceCovers
    <3>3. CASE ~ai
      BY <1>19, <3>3 DEF Switch, AllowanceCovers
    <3> QED BY <3>2, <3>3
  <2>5. AnsweredOnce' /\ OneFollowUp' /\ CompleteIsAnswered'
    BY <1>a, <2>1 DEF AnsweredOnce, OneFollowUp, CompleteIsAnswered
  <2> QED BY <1>b, <2>3, <2>4, <2>5 DEF IInv
<1>20. CASE Restart
  <2>1. /\ accepting' = {} /\ jobs' = <<>> /\ pc' = "idle" /\ job' = NoJob
        /\ UNCHANGED <<status, forgotten, ai, reactions, outbox, inserted, allowance>>
    BY <1>20 DEF Restart, Finish
  <2>2. Held' = {} /\ InHand' = {}
    BY <2>1, EmptyJobs DEF Held, InHand, Unanswered
  <2>3. PhaseOK' /\ FollowUpsTracked' /\ AllowanceCovers'
    BY <1>a, <2>1 DEF PhaseOK, FollowUpsTracked, AllowanceCovers, Committed, TypeOK
  <2>4. HeldOnce'
    BY <2>1, <2>2, EmptyJobs DEF HeldOnce
  <2>5. AnswersTracked'
    BY <1>a, <2>1, <2>2 DEF AnswersTracked
  <2>6. AnsweredOnce' /\ OneFollowUp' /\ CompleteIsAnswered'
    BY <1>a, <2>1 DEF AnsweredOnce, OneFollowUp, CompleteIsAnswered
  <2> QED BY <1>b, <2>3, <2>4, <2>5, <2>6 DEF IInv
<1>21. CASE (\E s \in Sources : Expire(s)) \/ UNCHANGED vars
  <2>1. UNCHANGED <<status, accepting, forgotten, jobs, pc, job, ai, reactions,
                    outbox, inserted, allowance>>
    BY <1>21 DEF Expire, vars
  <2>2. Held' = Held /\ InHand' = InHand
    BY <2>1 DEF Held, InHand, Unanswered
  <2>3. PhaseOK' /\ HeldOnce' /\ AnswersTracked' /\ FollowUpsTracked'
    BY <1>a, <2>1, <2>2 DEF PhaseOK, HeldOnce, AnswersTracked, FollowUpsTracked
  <2>4. AllowanceCovers' /\ AnsweredOnce' /\ OneFollowUp' /\ CompleteIsAnswered'
    BY <1>a, <2>1 DEF AllowanceCovers, Committed, AnsweredOnce, OneFollowUp,
                      CompleteIsAnswered
  <2> QED BY <1>b, <2>3, <2>4 DEF IInv
<1>22. CASE QueueOther
  <2>1. PICK other \in OtherJobs : jobs' = Append(jobs, other)
    BY <1>22, JobsDiffer DEF QueueOther
  <2>2. UNCHANGED <<status, accepting, forgotten, pc, job, ai, reactions, outbox,
                    inserted, allowance>>
    BY <1>22 DEF QueueOther
  <2>3. Unique(jobs', Events) /\ Range(jobs') = Range(jobs) \cup {other}
    BY <1>a, <2>1, PutOther
  <2>4. /\ Held' = Held /\ InHand' = InHand /\ other \notin Events
        /\ InHand \subseteq Events
    BY <2>2, <2>3, JobsDiffer DEF Held, InHand, Unanswered
  <2>5. PhaseOK' /\ FollowUpsTracked' /\ AllowanceCovers' /\ AnsweredOnce' /\ OneFollowUp'
        /\ CompleteIsAnswered'
    BY <1>a, <2>2 DEF PhaseOK, FollowUpsTracked, AllowanceCovers, Committed,
                      AnsweredOnce, OneFollowUp, CompleteIsAnswered
  <2>6. HeldOnce'
    BY <1>a, <2>2, <2>3, <2>4 DEF HeldOnce, Unique, TypeOK
  <2>7. AnswersTracked'
    BY <1>a, <2>2, <2>4 DEF AnswersTracked
  <2> QED BY <1>b, <2>5, <2>6, <2>7 DEF IInv
<1> QED
  BY <1>1, <1>2, <1>3, <1>4, <1>5, <1>6, <1>7, <1>8, <1>9, <1>10, <1>11, <1>12,
     <1>13, <1>14, <1>15, <1>16, <1>17, <1>18, <1>19, <1>20, <1>21, <1>22
     DEF Next, Requests, Worker

----------------------------------------------------------------------------
(* The theorems.                                                           *)

\* Every reachable state satisfies the inductive invariant.
THEOREM Invariance == Spec => []IInv
<1>1. Init => IInv
  BY InvInit
<1>2. IInv /\ [Next]_vars => IInv'
  BY InvStep
<1> QED BY <1>1, <1>2, PTL DEF Spec

\* The variables keep their types and the job queue its bound.
THEOREM TypeCorrect == Spec => []TypeOK
<1>1. IInv => TypeOK
  BY DEF IInv
<1> QED BY <1>1, Invariance, PTL

\* Event ingestion is idempotent: however often an event is posted, and
\* whatever expires, fails or restarts, it gets at most one row of the outbox
\* while its own row is kept (accept, complete, complete_ambient,
\* enqueue_proactive).
THEOREM NeverAnsweredTwice == Spec => []AnsweredOnce
<1>1. IInv => AnsweredOnce
  BY DEF IInv
<1> QED BY <1>1, Invariance, PTL

\* A message draws at most one follow-up, and only once it was answered
\* itself (_banter_followup, claim_reaction).
THEOREM AtMostOneFollowUp == Spec => []OneFollowUp
<1>1. IInv => OneFollowUp
  BY DEF IInv
<1> QED BY <1>1, Invariance, PTL

\* No event is marked complete without a row of the outbox (_social_event
\* writes them in two transactions).
THEOREM CompletedWasAnswered == Spec => []CompleteIsAnswered
<1>1. IInv => CompleteIsAnswered
  BY DEF IInv
<1> QED BY <1>1, Invariance, PTL

\* After the kill switch at most the one row slips through whose reply was
\* checked before (_route_generation, PUT /admin/v1/ai/state).
THEOREM SwitchHolds == Spec => []KillSwitchHolds
<1>1. IInv => KillSwitchHolds
  <2>1. TypeOK /\ AllowanceCovers => KillSwitchHolds
    BY DEF TypeOK, AllowanceCovers, KillSwitchHolds
  <2> QED BY <2>1 DEF IInv
<1> QED BY <1>1, Invariance, PTL

\* No step but a deletion moves an event out of a settled status: the worker
\* only settles the event in its hand, which is still "queued".
THEOREM SettledForGood == Spec => SettledStays
<1> DEFINE Kept == \A e \in Events :
               status[e] \in {"paused", "ignored", "complete"} =>
                   \/ status'[e] = status[e]
                   \/ status[e] = "complete" /\ status'[e] = "absent"
<1>1. IInv /\ [Next]_vars => [Kept]_vars
  <2> SUFFICES ASSUME IInv, [Next]_vars PROVE Kept
    OBVIOUS
  <2> USE DEF eventVars, workerVars, outboxVars
  <2>1. TypeOK /\ PhaseOK /\ HeldOnce
    BY DEF IInv
  <2>2. CASE UNCHANGED status
    BY <2>2
  <2>3. ASSUME NEW e \in Events, Accept(e) PROVE Kept
    BY <2>1, <2>3 DEF Accept, TypeOK
  <2>4. CASE PauseSoul \/ TurnDown \/ NoReaction \/ NoAnswer \/ CompleteAmbient \/ MarkComplete
    <3>1. job \in Events /\ status[job] = "queued"
      BY <2>1, <2>4
         DEF PauseSoul, TurnDown, NoReaction, NoAnswer, CompleteAmbient, MarkComplete,
             PhaseOK, HeldOnce, Held, InHand, Unanswered, Events
    <3>2. UNCHANGED status \/ \E s \in Statuses : Settle(s)
      BY <2>4
         DEF PauseSoul, TurnDown, NoReaction, NoAnswer, CompleteAmbient, MarkComplete, Statuses
    <3> QED BY <2>1, <3>1, <3>2 DEF Settle, TypeOK
  <2>5. CASE Complete
    <3>1. job \in Events /\ status[job] = "queued"
      BY <2>1, <2>5 DEF Complete, HeldOnce, Held, InHand, Unanswered, Events
    <3> QED BY <2>5, <3>1 DEF Complete
  <2>6. CASE TakeJob \/ JobFails \/ WorkerDies \/ RunOther \/ Refuse \/ Prompt
             \/ ClaimReaction \/ Answer
             \/ EnqueueReaction \/ NoBanter \/ ClaimBanter \/ FollowUp \/ NoFollowUp
             \/ EnqueueFollowUp \/ EndDialogue \/ Compact
    BY <2>2, <2>6
       DEF TakeJob, JobFails, WorkerDies, RunOther, Refuse, Prompt, ClaimReaction,
           Answer, EnqueueReaction, NoBanter, ClaimBanter, FollowUp, NoFollowUp, EnqueueFollowUp, EndDialogue, Compact
  <2>7. CASE \/ \E e \in Events : AcceptDuplicate(e) \/ QueueJob(e)
             \/ QueueOther \/ Switch \/ Restart \/ \E s \in Sources : Expire(s)
             \/ UNCHANGED vars
    BY <2>2, <2>7 DEF AcceptDuplicate, QueueJob, QueueOther, Switch, Restart, Expire, vars
  <2> QED BY <2>3, <2>4, <2>5, <2>6, <2>7 DEF Next, Requests, Worker
<1> QED BY <1>1, Invariance, PTL DEF Spec, SettledStays

----------------------------------------------------------------------------
(* Implementation of the abstract answering of events.                     *)

\* A step that leaves the tables alone, and opens nothing, drops events or
\* stutters.
LEMMA OnlyDrops ==
    ASSUME UNCHANGED <<status, inserted>>, Held' \subseteq Held
    PROVE  EA!Drop
BY DEF EA!Drop

\* A job that ends without a row drops its event or dismisses it.
LEMMA EndsUnanswered ==
    ASSUME IInv, pc' \in {"idle", "dead"}, UNCHANGED <<accepting, jobs, inserted>>,
           \/ UNCHANGED status
           \/ /\ pc \in {"start", "triage", "generate"} /\ job \in Events
              /\ \E s \in {"paused", "ignored"} : Settle(s)
    PROVE  EA!Next
<1>1. Held' = Held \ InHand
  BY DEF IInv, HeldOnce, Held, InHand, Unanswered
<1>2. CASE UNCHANGED status
  BY <1>1, <1>2, OnlyDrops DEF EA!Next
<1>3. CASE /\ pc \in {"start", "triage", "generate"} /\ job \in Events
           /\ \E s \in {"paused", "ignored"} : Settle(s)
  <2>1. InHand = {job} /\ job \in Held /\ status[job] = "queued"
    BY <1>3 DEF IInv, HeldOnce, Held, InHand, Unanswered
  <2>2. \E s \in {"paused", "ignored"} : status' = [status EXCEPT ![job] = s]
    BY <1>3, <2>1 DEF Settle
  <2>3. EA!Dismiss(job)
    BY <1>1, <2>1, <2>2 DEF EA!Dismiss
  <2> QED BY <1>3, <2>3 DEF EA!Next
<1> QED BY <1>2, <1>3

\* A row inserted for the event in hand answers it.
LEMMA InsertAnswers ==
    ASSUME IInv, pc = "commit", job \in Events, Insert(Reply(job)),
           UNCHANGED <<accepting, jobs>>,
           pc' \notin {"start", "triage", "generate", "commit"},
           \/ UNCHANGED status
           \/ \E gone \in SUBSET {e \in Events : status[e] = "complete" \/ e = job} :
                 status' = [e \in Events |-> IF e \in gone THEN "absent"
                                             ELSE IF e = job THEN "complete"
                                             ELSE status[e]]
    PROVE  EA!Next
<1>0. TypeOK /\ HeldOnce /\ AnswersTracked
  BY DEF IInv
<1>1. InHand = {job} /\ InHand' = {} /\ job \in Held /\ Held' = Held \ {job}
  BY <1>0 DEF HeldOnce, Held, InHand, Unanswered
<1>2. /\ Reply(job) \in Sources
      /\ \A e \in Events : Reply(e) \in Sources /\ Banter(e) \in Sources
      /\ \A e \in Events : Banter(e) # Reply(job)
      /\ \A e \in Events \ {job} : Reply(e) # Reply(job)
  BY SourcesOfEvents
<1>3. /\ \A t \in Sources \ {Reply(job)} : inserted'[t] = inserted[t]
      /\ \/ inserted'[Reply(job)] = inserted[Reply(job)] + 1
         \/ /\ inserted'[Reply(job)] = inserted[Reply(job)]
            /\ inserted[Reply(job)] > 0
  BY <1>0, <1>2 DEF Insert, TypeOK, AnswersTracked
<1>4. \A e \in Events : inserted'[Banter(e)] = inserted[Banter(e)]
  BY <1>2, <1>3
<1> DEFINE R == [e \in Events |-> inserted[Reply(e)]]
           F == [e \in Events |-> inserted[Banter(e)]]
<1>5. F' = F
  BY <1>4
<1>6. R' = [R EXCEPT ![job] = @ + 1] \/ (R[job] > 0 /\ R' = R)
  <2>1. \A e \in Events \ {job} : R'[e] = R[e]
    BY <1>2, <1>3
  <2>2. CASE inserted'[Reply(job)] = inserted[Reply(job)] + 1
    BY <2>1, <2>2
  <2>3. CASE inserted'[Reply(job)] = inserted[Reply(job)] /\ inserted[Reply(job)] > 0
    BY <2>1, <2>3
  <2> QED BY <1>3, <2>2, <2>3
<1>7. EA!Answered(job)
  BY <1>6 DEF EA!Answered
<1>8. EA!Answer(job)
  BY <1>1, <1>5, <1>7 DEF EA!Answer
<1> QED BY <1>8 DEF EA!Next

\* Every step is a step of the abstract answering or a stutter.
LEMMA StepAnswers == IInv /\ [Next]_vars => [EA!Next]_(EA!vars)
<1> SUFFICES ASSUME IInv, [Next]_vars PROVE [EA!Next]_(EA!vars)
  OBVIOUS
<1> USE DEF eventVars, workerVars, outboxVars
<1>a. TypeOK /\ PhaseOK /\ HeldOnce /\ AnswersTracked /\ FollowUpsTracked
  BY DEF IInv
<1>c. GameEvents \subseteq Events /\ DirectEvents \subseteq Events /\ AmbientEvents \subseteq Events
  BY DEF Events
<1>d. Unique(jobs, Events) /\ jobs \in Seq(Events \cup OtherJobs)
  BY <1>a DEF HeldOnce, TypeOK, Unique
<1>e. ASSUME UNCHANGED <<status, inserted>>, Held' \subseteq Held PROVE EA!Next
  BY <1>e, OnlyDrops DEF EA!Next
<1>1. ASSUME NEW e \in Events, Accept(e) PROVE EA!Next
  <2>1. Held' = Held \cup {e}
    BY <1>1 DEF Accept, Held, InHand, Unanswered
  <2>2. EA!Accept(e)
    BY <1>1, <2>1 DEF Accept, EA!Accept
  <2> QED BY <2>2 DEF EA!Next
<1>2. ASSUME NEW e \in Events, QueueJob(e) PROVE EA!Next
  <2>1. Range(jobs') \subseteq Range(jobs) \cup {e}
    <3>1. CASE jobs' = Append(jobs, e)
      <4>1. e \notin Range(jobs)
        BY <1>a, <1>2 DEF HeldOnce, QueueJob
      <4> QED BY <1>d, <3>1, <4>1, PutJob
    <3>2. CASE UNCHANGED jobs
      BY <3>2
    <3> QED BY <1>2, <3>1, <3>2 DEF QueueJob
  <2>2. Held' \subseteq Held
    BY <1>2, <2>1 DEF QueueJob, Held, InHand, Unanswered
  <2> QED BY <1>2, <1>e, <2>2 DEF QueueJob
<1>3. CASE TakeJob
  <2>1. Range(jobs) = Range(jobs') \cup {job'}
    BY <1>3, <1>d, GetJob DEF TakeJob
  <2>2. Held' \subseteq Held
    BY <1>3, <2>1 DEF TakeJob, Held, InHand, Unanswered
  <2> QED BY <1>3, <1>e, <2>2 DEF TakeJob
<1>4. CASE JobFails \/ WorkerDies \/ RunOther \/ Refuse \/ Compact
  BY <1>4, EndsUnanswered DEF JobFails, WorkerDies, RunOther, Refuse, Compact, Finish
<1>5. CASE PauseSoul \/ TurnDown \/ NoReaction
  <2>1. job \in Events /\ pc \in {"start", "triage"}
    BY <1>5, <1>a, <1>c DEF PauseSoul, TurnDown, NoReaction, PhaseOK
  <2> QED
    BY <1>5, <2>1, EndsUnanswered DEF PauseSoul, TurnDown, NoReaction, Settle, Finish
<1>6. CASE NoAnswer
  <2>1. job \in Events /\ pc = "generate"
    BY <1>6, <1>a DEF NoAnswer, PhaseOK
  <2> QED BY <1>6, <2>1, EndsUnanswered DEF NoAnswer, Settle, Finish
<1>7. CASE Complete
  <2>1. job \in Events
    BY <1>7, <1>c DEF Complete
  <2>2. pc = "commit" /\ pc' \in {"banter", "finish"}
    BY <1>7 DEF Complete, GoTo
  <2>3. Insert(Reply(job)) /\ UNCHANGED <<accepting, jobs>>
    BY <1>7 DEF Complete
  <2>4. \E gone \in SUBSET {e \in Events : status[e] = "complete" \/ e = job} :
           status' = [e \in Events |-> IF e \in gone THEN "absent"
                                       ELSE IF e = job THEN "complete"
                                       ELSE status[e]]
    BY <1>7 DEF Complete
  <2> QED BY <2>1, <2>2, <2>3, <2>4, InsertAnswers
<1>8. CASE CompleteAmbient
  <2>1. job \in Events /\ pc = "commit" /\ pc' = "idle" /\ status[job] = "queued"
    BY <1>8, <1>a, <1>c DEF CompleteAmbient, Finish, HeldOnce, Held, InHand, Unanswered
  <2>2. Insert(Reply(job)) /\ UNCHANGED <<accepting, jobs>>
    BY <1>8 DEF CompleteAmbient, Settle
  <2>3. \E gone \in SUBSET {e \in Events : status[e] = "complete" \/ e = job} :
           status' = [e \in Events |-> IF e \in gone THEN "absent"
                                       ELSE IF e = job THEN "complete"
                                       ELSE status[e]]
    <3>1. status' = [e \in Events |-> IF e \in {} THEN "absent"
                                      ELSE IF e = job THEN "complete"
                                      ELSE status[e]]
      BY <1>8, <1>a, <2>1 DEF CompleteAmbient, Settle, TypeOK
    <3> WITNESS {} \in SUBSET {e \in Events : status[e] = "complete" \/ e = job}
    <3> QED BY <3>1
  <2> QED BY <2>1, <2>2, <2>3, InsertAnswers
<1>9. CASE EnqueueReaction
  <2>1. job \in Events /\ pc = "commit" /\ pc' = "mark"
    BY <1>9, <1>c DEF EnqueueReaction, GoTo
  <2>2. Insert(Reply(job)) /\ UNCHANGED <<accepting, jobs, status>>
    BY <1>9 DEF EnqueueReaction
  <2> QED BY <2>1, <2>2, InsertAnswers
<1>10. CASE MarkComplete
  <2>1. /\ job \in Events /\ status[job] = "queued" /\ job \notin Held
        /\ inserted[Reply(job)] > 0
    BY <1>10, <1>a, <1>c DEF MarkComplete, PhaseOK, HeldOnce, AnswersTracked
  <2>2. status' = [status EXCEPT ![job] = "complete"] /\ Held' = Held
    BY <1>10, <2>1 DEF MarkComplete, Settle, Finish, Held, InHand, Unanswered
  <2>3. EA!Complete(job)
    BY <1>10, <2>1, <2>2 DEF EA!Complete, MarkComplete
  <2> QED BY <2>1, <2>3 DEF EA!Next
<1>11. CASE EnqueueFollowUp
  <2>1. /\ job \in Events /\ inserted[Banter(job)] = 0 /\ inserted[Reply(job)] > 0
        /\ Banter(job) \notin outbox
    BY <1>11, <1>a, <1>c
       DEF EnqueueFollowUp, PhaseOK, FollowUpsTracked, AnswersTracked
  <2>2. inserted' = [inserted EXCEPT ![Banter(job)] = 1]
    BY <1>11, <2>1 DEF EnqueueFollowUp, Insert
  <2>3. Held' = Held /\ status' = status
    BY <1>11 DEF EnqueueFollowUp, GoTo, Held, InHand, Unanswered
  <2>4. \A e \in Events : inserted'[Reply(e)] = inserted[Reply(e)]
    BY <1>a, <2>2, SourcesOfEvents DEF TypeOK
  <2>5. /\ inserted'[Banter(job)] = 1
        /\ \A e \in Events \ {job} : inserted'[Banter(e)] = inserted[Banter(e)]
    BY <1>a, <2>1, <2>2, SourcesOfEvents DEF TypeOK
  <2>6. EA!Follow(job)
    BY <2>1, <2>3, <2>4, <2>5 DEF EA!Follow
  <2> QED BY <2>1, <2>6 DEF EA!Next
<1>12. CASE \/ Prompt \/ ClaimReaction \/ Answer \/ NoBanter \/ ClaimBanter
            \/ FollowUp \/ NoFollowUp
  <2>1. UNCHANGED <<status, inserted, accepting, jobs, job>>
    BY <1>12 DEF Prompt, ClaimReaction, Answer, NoBanter, ClaimBanter, FollowUp,
                 NoFollowUp, GoTo
  <2>2. InHand' = InHand
    BY <1>12, <2>1
       DEF Prompt, ClaimReaction, Answer, NoBanter, ClaimBanter, FollowUp,
           NoFollowUp, GoTo, InHand, Unanswered
  <2> QED BY <1>e, <2>1, <2>2 DEF Held
<1>13. CASE EndDialogue
  <2>1. Range(jobs') \cap Events = Range(jobs) \cap Events
    <3>1. CASE jobs' = jobs
      BY <3>1
    <3>2. CASE jobs' = Append(jobs, Compaction)
      BY <1>a, <3>2, JobsDiffer, PutOther
    <3> QED BY <1>13, <3>1, <3>2 DEF EndDialogue
  <2>2. Held' \subseteq Held
    BY <1>13, <2>1 DEF EndDialogue, Finish, Held, InHand, Unanswered
  <2> QED BY <1>13, <1>e, <2>2 DEF EndDialogue
<1>14. CASE Switch
  BY <1>14, <1>e DEF Switch, Held, InHand, Unanswered
<1>15. CASE Restart
  <2>1. Held' = {}
    BY <1>15, EmptyJobs DEF Restart, Finish, Held, InHand, Unanswered
  <2> QED BY <1>15, <1>e, <2>1 DEF Restart
<1>16. CASE (\E e \in Events : AcceptDuplicate(e)) \/ (\E s \in Sources : Expire(s))
  BY <1>16, <1>e DEF AcceptDuplicate, Expire, Held, InHand, Unanswered
<1>17. CASE QueueOther
  <2>1. PICK other \in OtherJobs : jobs' = Append(jobs, other)
    BY <1>17, JobsDiffer DEF QueueOther
  <2>2. Range(jobs') \cap Events = Range(jobs) \cap Events
    BY <1>a, <2>1, JobsDiffer, PutOther
  <2> QED BY <1>17, <1>e, <2>2 DEF QueueOther, Held, InHand, Unanswered
<1>18. CASE UNCHANGED vars
  BY <1>18, <1>e DEF vars, Held, InHand, Unanswered
<1> QED
  BY <1>1, <1>2, <1>3, <1>4, <1>5, <1>6, <1>7, <1>8, <1>9, <1>10, <1>11, <1>12,
     <1>13, <1>14, <1>15, <1>16, <1>17, <1>18
     DEF Next, Requests, Worker

\* The service implements EventAnswering: its queue, worker, restarts and
\* pruning never open a known event, answer a closed one, complete an
\* unanswered one or follow one up twice.
THEOREM Answering == Spec => AnswersEvents
<1>1. Init => EA!Init
  <2> SUFFICES ASSUME Init PROVE EA!Init
    OBVIOUS
  <2>1. Held = {}
    BY EmptyJobs DEF Init, Held, InHand, Unanswered
  <2>2. \A e \in Events : inserted[Reply(e)] = 0 /\ inserted[Banter(e)] = 0
    BY SourcesOfEvents DEF Init
  <2> QED BY <2>1, <2>2 DEF Init, EA!Init
<1>2. IInv /\ [Next]_vars => [EA!Next]_(EA!vars)
  BY StepAnswers
<1> QED BY <1>1, <1>2, Invariance, PTL DEF Spec, AnswersEvents, EA!Spec

=============================================================================
