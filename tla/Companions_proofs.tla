-------------------------- MODULE Companions_proofs -------------------------
(***************************************************************************)
(* Proofs about Companions, for every number of request threads, forges    *)
(* and characters, every set of founders and every size of the job queue.  *)
(***************************************************************************)
EXTENDS Companions, TLAPS

----------------------------------------------------------------------------
(* Type correctness.                                                       *)

\* The idle handler, and every handler that an action makes of another one.
LEMMA HandlerTypes ==
    /\ Idle \in Handlers
    /\ \A r \in Handlers, p \in Steps : [r EXCEPT !.pc = p] \in Handlers
    /\ \A r \in Handlers, c \in BOOLEAN : [r EXCEPT !.current = c] \in Handlers
    /\ \A r \in Handlers, p \in Steps, c \in BOOLEAN :
          [r EXCEPT !.pc = p, !.current = c] \in Handlers
    /\ \A r \in Handlers, p \in Steps, t \in After :
          [r EXCEPT !.pc = p, !.then = t] \in Handlers
    /\ \A r \in Handlers, p \in Steps, t \in After, b \in Bots :
          [r EXCEPT !.pc = p, !.then = t, !.bot = b] \in Handlers
    /\ \A r \in Handlers, p \in Steps, b \in Bots : [r EXCEPT !.pc = p, !.bot = b] \in Handlers
    /\ \A r \in Handlers, p \in Steps, f \in Forges :
          [r EXCEPT !.pc = p, !.forge = f] \in Handlers
    /\ \A r \in Handlers, p \in Steps, T \in SUBSET Founders :
          [r EXCEPT !.pc = p, !.todo = T] \in Handlers
    /\ \A r \in Handlers, p \in Steps, b \in Bots, T \in SUBSET Founders :
          [r EXCEPT !.pc = p, !.bot = b, !.todo = T] \in Handlers
<1>1. Idle \in Handlers
  BY DEF Idle, Handlers, Steps, After
<1>2. \A r \in Handlers, p \in Steps : [r EXCEPT !.pc = p] \in Handlers
  BY DEF Handlers
<1>3. \A r \in Handlers, c \in BOOLEAN : [r EXCEPT !.current = c] \in Handlers
  BY DEF Handlers
<1>4. \A r \in Handlers, p \in Steps, c \in BOOLEAN :
          [r EXCEPT !.pc = p, !.current = c] \in Handlers
  BY DEF Handlers
<1>5. \A r \in Handlers, p \in Steps, t \in After :
          [r EXCEPT !.pc = p, !.then = t] \in Handlers
  BY DEF Handlers
<1>6. \A r \in Handlers, p \in Steps, t \in After, b \in Bots :
          [r EXCEPT !.pc = p, !.then = t, !.bot = b] \in Handlers
  BY DEF Handlers
<1>7. \A r \in Handlers, p \in Steps, b \in Bots : [r EXCEPT !.pc = p, !.bot = b] \in Handlers
  BY DEF Handlers
<1>8. \A r \in Handlers, p \in Steps, f \in Forges :
          [r EXCEPT !.pc = p, !.forge = f] \in Handlers
  BY DEF Handlers
<1>9. \A r \in Handlers, p \in Steps, T \in SUBSET Founders :
          [r EXCEPT !.pc = p, !.todo = T] \in Handlers
  BY DEF Handlers
<1>10. \A r \in Handlers, p \in Steps, b \in Bots, T \in SUBSET Founders :
          [r EXCEPT !.pc = p, !.bot = b, !.todo = T] \in Handlers
  BY DEF Handlers
<1> QED BY <1>1, <1>2, <1>3, <1>4, <1>5, <1>6, <1>7, <1>8, <1>9, <1>10


\* The worker and the request threads are the actors.
LEMMA ActorsOfTwoKinds == Worker \in Actors /\ Threads \subseteq Actors
BY DEF Actors

\* A handler that holds what it should still does with more souls, and with an
\* older copy.
LEMMA HoldsMore ==
    ASSUME NEW S, NEW T, S \subseteq T, NEW h \in Handlers, Holds(h, S)
    PROVE  Holds(h, T) /\ Holds([h EXCEPT !.current = FALSE], T)
BY DEF Holds, Handlers

\* An actor that goes on as a well-formed handler leaves all well-formed.
LEMMA SetHolds ==
    ASSUME TypeOK, Holding, souls \subseteq souls', NEW a \in Actors, NEW h \in Handlers,
           Set(a, h), Holds(h, souls')
    PROVE  actors' \in [Actors -> Handlers] /\ Holding'
<1>1. actors' \in [Actors -> Handlers]
  BY DEF Set, TypeOK
<1>2. ASSUME NEW x \in Actors PROVE Holds(actors'[x], souls')
  <2>1. actors'[x] = IF x = a THEN h ELSE actors[x]
    BY DEF Set, TypeOK
  <2>2. actors[x] \in Handlers /\ Holds(actors[x], souls)
    BY DEF TypeOK, Holding
  <2> QED BY <2>1, <2>2, HoldsMore
<1> QED BY <1>1, <1>2 DEF Holding

\* The idle handler holds nothing.
LEMMA IdleHolds == ASSUME NEW S PROVE Holds(Idle, S)
BY CompanionsAssumption DEF Holds, Idle

\* A change of a soul keeps the handlers well-formed.
LEMMA ChangesHolds ==
    ASSUME TypeOK, Holding, NEW a \in Actors, NEW b \in Bots, NEW t \in After,
           Changes(a, b, t), actors[a].forge = NoForge <=> t = "idle",
           At(a, "idle") \/ actors[a].forge # NoForge \/ At(a, "seed")
    PROVE  /\ actors' \in [Actors -> Handlers] /\ Holding'
           /\ souls' \subseteq Bots /\ shown' \subseteq Bots /\ souls \subseteq souls'
<1> DEFINE n == [actors[a] EXCEPT !.pc = "document", !.then = t, !.bot = b]
           h(x) == IF x = a THEN n
                   ELSE IF Bot(x) = b THEN [actors[x] EXCEPT !.current = FALSE] ELSE actors[x]
<1>1. actors' = [x \in Actors |-> h(x)] /\ souls' = souls \cup {b}
  BY DEF Changes
<1>2. n \in Handlers /\ Holds(n, souls')
  <2>1. actors[a] \in Handlers /\ Holds(actors[a], souls)
    BY DEF TypeOK, Holding
  <2>2. "document" \in Steps
    BY DEF Steps
  <2>3. n \in Handlers
    BY <2>1, <2>2, HandlerTypes
  <2>4. /\ n.pc = "document" /\ n.then = t /\ n.bot = b
        /\ n.forge = actors[a].forge /\ n.todo = actors[a].todo
    BY <2>1 DEF Handlers
  <2>5. n.forge = NoForge => n.todo = {}
    BY <2>1, <2>4 DEF Holds
  <2> HIDE DEF n
  <2> QED BY <1>1, <2>3, <2>4, <2>5 DEF Holds
<1>3. ASSUME NEW x \in Actors PROVE h(x) \in Handlers /\ Holds(h(x), souls')
  <2>1. actors[x] \in Handlers /\ Holds(actors[x], souls)
    BY DEF TypeOK, Holding
  <2> QED BY <1>1, <1>2, <2>1, HandlerTypes, HoldsMore
<1> HIDE DEF h
<1>4. actors' \in [Actors -> Handlers] /\ Holding'
  BY <1>1, <1>3 DEF Holding
<1> QED BY <1>4 DEF Changes, TypeOK

\* The invariant of the types.
TypeInv == TypeOK /\ Holding

\* Every step keeps the types and what the handlers hold.
LEMMA TypeStep == TypeInv /\ [Next]_vars => TypeInv'
<1> SUFFICES ASSUME TypeInv, [Next]_vars PROVE TypeInv'
  OBVIOUS
<1> USE ActorsOfTwoKinds
<1>0. /\ TypeOK /\ Holding
      /\ \A a \in Actors : actors[a] \in Handlers /\ Holds(actors[a], souls)
  BY DEF TypeInv, TypeOK, Holding

<1>1. ASSUME NEW t \in Threads, Promote(t) PROVE TypeInv'
  <2>0. PICK b \in Bots : /\ bindings' = bindings \cup {b}
                          /\ Set(t, [Idle EXCEPT !.pc = "seed", !.bot = b])
    BY <1>1 DEF Promote
  <2> DEFINE h == [Idle EXCEPT !.pc = "seed", !.bot = b]
  <2>1. h \in Handlers
    BY <1>0, <1>1, <2>0, HandlerTypes DEF Promote, Steps, After
  <2>2. Holds(h, souls')
    BY <1>0, <1>1, <2>0, IdleHolds, CompanionsAssumption
       DEF Promote, Holds, Handlers, Idle, At, Bot
  <2>3. Set(t, h) /\ souls' = souls
    BY <1>1, <2>0 DEF Promote
  <2> HIDE DEF h
  <2>4. actors' \in [Actors -> Handlers] /\ Holding'
    BY <1>0, <2>1, <2>2, <2>3, SetHolds
  <2> QED BY <1>0, <1>1, <2>0, <2>4, CompanionsAssumption
     DEF Promote, TypeInv, TypeOK, ghosts
<1>2. ASSUME NEW t \in Threads, CreateForgeJob(t) PROVE TypeInv'
  <2>0. PICK f \in Forges : /\ status' = [status EXCEPT ![f] = "queued"]
                         /\ Set(t, [Idle EXCEPT !.pc = "put", !.forge = f])
    BY <1>2 DEF CreateForgeJob
  <2> DEFINE h == [Idle EXCEPT !.pc = "put", !.forge = f]
  <2>1. h \in Handlers
    BY <1>0, <1>2, <2>0, HandlerTypes DEF CreateForgeJob, Steps, After
  <2>2. Holds(h, souls')
    BY <1>0, <1>2, <2>0, IdleHolds, CompanionsAssumption
       DEF CreateForgeJob, Holds, Handlers, Idle, At, Bot
  <2>3. Set(t, h) /\ souls' = souls
    BY <1>2, <2>0 DEF CreateForgeJob
  <2> HIDE DEF h
  <2>4. actors' \in [Actors -> Handlers] /\ Holding'
    BY <1>0, <2>1, <2>2, <2>3, SetHolds
  <2> QED BY <1>0, <1>2, <2>0, <2>4, CompanionsAssumption
     DEF CreateForgeJob, TypeInv, TypeOK, ghosts
<1>3. ASSUME NEW t \in Threads, PutJob(t) PROVE TypeInv'
  <2> DEFINE h == Idle
  <2>1. h \in Handlers
    BY <1>0, <1>3, HandlerTypes DEF PutJob, Steps, After
  <2>2. Holds(h, souls')
    BY <1>0, <1>3, IdleHolds, CompanionsAssumption
       DEF PutJob, Holds, Handlers, Idle, At, Bot
  <2>3. Set(t, h) /\ souls' = souls
    BY <1>3 DEF PutJob, Done
  <2> HIDE DEF h
  <2>4. actors' \in [Actors -> Handlers] /\ Holding'
    BY <1>0, <2>1, <2>2, <2>3, SetHolds
  <2>5. actors[t].forge \in Forges
    BY <1>0, <1>3 DEF PutJob, At, Holds, Handlers
  <2>6. queue' \in Seq(Forges) /\ Len(queue') <= QueueCapacity
    BY <1>0, <1>3, <2>5, CompanionsAssumption DEF PutJob, TypeOK
  <2> QED BY <1>0, <1>3, <2>4, <2>6 DEF PutJob, TypeInv, TypeOK, ghosts
<1>4. ASSUME NEW t \in Threads, QueueFull(t) PROVE TypeInv'
  <2> DEFINE h == Idle
  <2>1. h \in Handlers
    BY <1>0, <1>4, HandlerTypes DEF QueueFull, Steps, After
  <2>2. Holds(h, souls')
    BY <1>0, <1>4, IdleHolds, CompanionsAssumption
       DEF QueueFull, Holds, Handlers, Idle, At, Bot
  <2>3. Set(t, h) /\ souls' = souls
    BY <1>4 DEF QueueFull, Done
  <2> HIDE DEF h
  <2>4. actors' \in [Actors -> Handlers] /\ Holding'
    BY <1>0, <2>1, <2>2, <2>3, SetHolds
  <2>5. actors[t].forge \in Forges
    BY <1>0, <1>4 DEF QueueFull, At, Holds, Handlers
  <2> QED BY <1>0, <1>4, <2>4, <2>5 DEF QueueFull, TypeInv, TypeOK
<1>5. ASSUME NEW a \in Actors, NameSoul(a) PROVE TypeInv'
  <2>0. PICK b \in Bots : Set(a, [Idle EXCEPT !.pc = "seed", !.bot = b])
    BY <1>5 DEF NameSoul
  <2> DEFINE h == [Idle EXCEPT !.pc = "seed", !.bot = b]
  <2>1. h \in Handlers
    BY <1>0, <1>5, <2>0, HandlerTypes DEF NameSoul, Steps, After
  <2>2. Holds(h, souls')
    BY <1>0, <1>5, <2>0, IdleHolds, CompanionsAssumption
       DEF NameSoul, Holds, Handlers, Idle, At, Bot
  <2>3. Set(a, h) /\ souls' = souls
    BY <1>5, <2>0 DEF NameSoul
  <2> HIDE DEF h
  <2>4. actors' \in [Actors -> Handlers] /\ Holding'
    BY <1>0, <2>1, <2>2, <2>3, SetHolds
  <2> QED BY <1>0, <1>5, <2>0, <2>4, CompanionsAssumption
     DEF NameSoul, TypeInv, TypeOK, ghosts
<1>6. ASSUME NEW a \in Actors, ReadSoul(a) PROVE TypeInv'
  <2> DEFINE h == [actors[a] EXCEPT !.pc = "write", !.current = TRUE]
  <2>1. h \in Handlers
    BY <1>0, <1>6, HandlerTypes DEF ReadSoul, Steps, After
  <2>2. Holds(h, souls')
    BY <1>0, <1>6, IdleHolds, CompanionsAssumption
       DEF ReadSoul, Holds, Handlers, Idle, At, Bot
  <2>3. Set(a, h) /\ souls' = souls
    BY <1>6 DEF ReadSoul
  <2> HIDE DEF h
  <2>4. actors' \in [Actors -> Handlers] /\ Holding'
    BY <1>0, <2>1, <2>2, <2>3, SetHolds
  <2> QED BY <1>0, <1>6, <2>4, CompanionsAssumption DEF ReadSoul, TypeInv, TypeOK, ghosts
<1>7. ASSUME NEW a \in Actors, WriteDocument(a) PROVE TypeInv'
  <2> DEFINE h == Onward(a)
  <2>1. h \in Handlers
    <3>1. actors[a] \in Handlers /\ actors[a].then \in Steps /\ FALSE \in BOOLEAN
      BY <1>0 DEF Handlers, Steps, After
    <3> QED BY <3>1, HandlerTypes DEF Onward
  <2>2. Holds(h, souls')
    <3>1. CASE actors[a].then = "idle"
      BY <3>1, IdleHolds DEF Onward
    <3>2. CASE actors[a].then # "idle"
      <4>1. /\ h.pc = actors[a].then /\ h.forge = actors[a].forge /\ h.bot = actors[a].bot
            /\ h.pc \in {"shape", "guide", "next"}
        BY <1>0, <3>2 DEF Onward, Handlers, After
      <4>2. h.forge # NoForge /\ h.bot \in souls /\ souls' = souls
        BY <1>0, <1>7, <3>2, <4>1 DEF WriteDocument, At, Holds
      <4> HIDE DEF h
      <4> QED BY <4>1, <4>2 DEF Holds
    <3> QED BY <3>1, <3>2
  <2>3. Set(a, h) /\ souls' = souls
    BY <1>7 DEF WriteDocument
  <2> HIDE DEF h
  <2>4. actors' \in [Actors -> Handlers] /\ Holding'
    BY <1>0, <2>1, <2>2, <2>3, SetHolds
  <2>5. actors[a].bot \in Bots
    BY <1>0, <1>7 DEF WriteDocument, At, Holds, TypeOK
  <2> QED BY <1>0, <1>7, <2>4, <2>5 DEF WriteDocument, TypeInv, TypeOK, Bot
<1>8. ASSUME NEW a \in Actors, WriteFails(a) PROVE TypeInv'
  <2> DEFINE h == IF actors[a].forge = NoForge THEN Idle ELSE [actors[a] EXCEPT !.pc = "fail"]
  <2>1. h \in Handlers
    BY <1>0, <1>8, HandlerTypes DEF WriteFails, Steps, After
  <2>2. Holds(h, souls')
    BY <1>0, <1>8, IdleHolds, CompanionsAssumption
       DEF WriteFails, Holds, Handlers, Idle, At, Bot
  <2>3. Set(a, h) /\ souls' = souls
    BY <1>8 DEF WriteFails, Done, Set, TypeOK
  <2> HIDE DEF h
  <2>4. actors' \in [Actors -> Handlers] /\ Holding'
    BY <1>0, <2>1, <2>2, <2>3, SetHolds
  <2>5. actors[a].bot \in Bots
    BY <1>0, <1>8 DEF WriteFails, At, Holds, TypeOK
  <2> QED BY <1>0, <1>8, <2>4, <2>5 DEF WriteFails, TypeInv, TypeOK, Bot
<1>9. ASSUME NEW a \in Actors, TouchSoul(a) PROVE TypeInv'
  <2>1. PICK b \in souls : Changes(a, b, "idle")
    BY <1>9 DEF TouchSoul
  <2>2. b \in Bots /\ At(a, "idle") /\ actors[a].forge = NoForge /\ "idle" \in After
    BY <1>0, <1>9 DEF TouchSoul, At, Holds, TypeOK, After
  <2>3. /\ actors' \in [Actors -> Handlers] /\ Holding'
        /\ souls' \subseteq Bots /\ shown' \subseteq Bots
    BY <1>0, <2>1, <2>2, ChangesHolds
  <2> QED BY <1>0, <1>9, <2>3 DEF TouchSoul, TypeInv, TypeOK, ghosts
<1>10. ASSUME NEW a \in Actors, SeedSoul(a) PROVE TypeInv'
  <2>1. /\ Bot(a) \in Bots /\ At(a, "seed") /\ Seeded(a) \in After
        /\ actors[a].forge = NoForge <=> Seeded(a) = "idle"
        /\ unsown' \subseteq Bots
    BY <1>0, <1>10 DEF SeedSoul, At, Bot, Holds, Handlers, TypeOK, Seeded, After
  <2>2. CASE Bot(a) \in souls
    <3> DEFINE h == [actors[a] EXCEPT !.pc = "document", !.then = Seeded(a)]
    <3>1. h \in Handlers
      BY <1>0, <2>1, HandlerTypes DEF Steps
    <3>2. Holds(h, souls')
      BY <1>0, <1>10, <2>1, <2>2 DEF SeedSoul, Holds, Handlers, At, Bot
    <3>3. Set(a, h) /\ souls' = souls /\ shown' = shown
      BY <1>10, <2>2 DEF SeedSoul
    <3> HIDE DEF h
    <3>4. actors' \in [Actors -> Handlers] /\ Holding'
      BY <1>0, <3>1, <3>2, <3>3, SetHolds
    <3> QED BY <1>0, <1>10, <2>1, <3>3, <3>4 DEF SeedSoul, TypeInv, TypeOK
  <2>3. CASE Bot(a) \notin souls
    <3>1. Changes(a, Bot(a), Seeded(a))
      BY <1>10, <2>3 DEF SeedSoul
    <3>2. /\ actors' \in [Actors -> Handlers] /\ Holding'
          /\ souls' \subseteq Bots /\ shown' \subseteq Bots
      BY <1>0, <2>1, <3>1, ChangesHolds
    <3> QED BY <1>0, <1>10, <2>1, <3>2 DEF SeedSoul, TypeInv, TypeOK
  <2> QED BY <2>2, <2>3
<1>11. ASSUME TakeForge PROVE TypeInv'
  <2>0. /\ Head(queue) \in Forges
        /\ Tail(queue) \in Seq(Forges) /\ Len(Tail(queue)) <= QueueCapacity
    BY <1>0, <1>11, CompanionsAssumption DEF TakeForge, TypeOK
  <2> DEFINE h == [Idle EXCEPT !.pc = "activate", !.forge = Head(queue)]
  <2>1. h \in Handlers
    BY <1>0, <1>11, <2>0, HandlerTypes DEF TakeForge, Steps, After
  <2>2. Holds(h, souls')
    BY <1>0, <1>11, <2>0, IdleHolds, CompanionsAssumption
       DEF TakeForge, Holds, Handlers, Idle, At, Bot
  <2>3. Set(Worker, h) /\ souls' = souls
    BY <1>11, <2>0 DEF TakeForge
  <2> HIDE DEF h
  <2>4. actors' \in [Actors -> Handlers] /\ Holding'
    BY <1>0, <2>1, <2>2, <2>3, SetHolds
  <2> QED BY <1>0, <1>11, <2>0, <2>4, CompanionsAssumption
     DEF TakeForge, TypeInv, TypeOK, ghosts
<1>12. ASSUME Activate PROVE TypeInv'
  <2> DEFINE h == [actors[Worker] EXCEPT !.pc = "next", !.todo = Founders]
  <2>1. h \in Handlers
    BY <1>0, <1>12, HandlerTypes DEF Activate, Steps, After
  <2>2. Holds(h, souls')
    BY <1>0, <1>12, IdleHolds, CompanionsAssumption
       DEF Activate, Holds, Handlers, Idle, At, Bot
  <2>3. Set(Worker, h) /\ souls' = souls
    BY <1>12 DEF Activate
  <2> HIDE DEF h
  <2>4. actors' \in [Actors -> Handlers] /\ Holding'
    BY <1>0, <2>1, <2>2, <2>3, SetHolds
  <2>5. actors[Worker].forge \in Forges \cup {NoForge} /\ Founders \subseteq Bots
    BY <1>0, CompanionsAssumption DEF Handlers
  <2> QED BY <1>0, <1>12, <2>4, <2>5 DEF Activate, TypeInv, TypeOK, ghosts
<1>13. ASSUME NextFounder PROVE TypeInv'
  <2>0. PICK b \in actors[Worker].todo :
           Set(Worker, [actors[Worker] EXCEPT !.pc = "seed", !.bot = b, !.todo = @ \ {b}])
    BY <1>13 DEF NextFounder
  <2> DEFINE h == [actors[Worker] EXCEPT !.pc = "seed", !.bot = b, !.todo = @ \ {b}]
  <2>1. h \in Handlers
    <3>1. b \in Bots /\ actors[Worker].todo \ {b} \in SUBSET Founders /\ "seed" \in Steps
      BY <1>0, CompanionsAssumption DEF Handlers, Steps
    <3> QED BY <1>0, <3>1, HandlerTypes
  <2>2. Holds(h, souls')
    BY <1>0, <1>13, <2>0, IdleHolds, CompanionsAssumption
       DEF NextFounder, Holds, Handlers, Idle, At, Bot
  <2>3. Set(Worker, h) /\ souls' = souls
    BY <1>13, <2>0 DEF NextFounder
  <2> HIDE DEF h
  <2>4. actors' \in [Actors -> Handlers] /\ Holding'
    BY <1>0, <2>1, <2>2, <2>3, SetHolds
  <2> QED BY <1>0, <1>13, <2>0, <2>4, CompanionsAssumption
     DEF NextFounder, TypeInv, TypeOK, ghosts
<1>14. ASSUME ShapeSoul PROVE TypeInv'
  <2>1. /\ Bot(Worker) \in Bots /\ "guide" \in After /\ actors[Worker].forge # NoForge
        /\ Changes(Worker, Bot(Worker), "guide")
    BY <1>0, <1>14 DEF ShapeSoul, At, Bot, Holds, TypeOK, After
  <2>2. /\ actors' \in [Actors -> Handlers] /\ Holding'
        /\ souls' \subseteq Bots /\ shown' \subseteq Bots
    BY <1>0, <2>1, ChangesHolds
  <2> QED BY <1>0, <1>14, <2>1, <2>2 DEF ShapeSoul, TypeInv, TypeOK, ghosts
<1>15. ASSUME GuideSoul PROVE TypeInv'
  <2>1. /\ Bot(Worker) \in Bots /\ "next" \in After /\ actors[Worker].forge # NoForge
    BY <1>0, <1>15 DEF GuideSoul, At, Bot, Holds, TypeOK, After
  <2>2. CASE Changes(Worker, Bot(Worker), "next")
    <3>1. /\ actors' \in [Actors -> Handlers] /\ Holding'
          /\ souls' \subseteq Bots /\ shown' \subseteq Bots
      BY <1>0, <2>1, <2>2, ChangesHolds
    <3> QED BY <1>0, <1>15, <3>1 DEF GuideSoul, TypeInv, TypeOK, ghosts
  <2>3. CASE /\ Set(Worker, [actors[Worker] EXCEPT !.pc = "next"])
             /\ UNCHANGED <<souls, shown>>
    <3> DEFINE h == [actors[Worker] EXCEPT !.pc = "next"]
    <3>1. h \in Handlers
      BY <1>0, HandlerTypes DEF Steps
    <3>2. Holds(h, souls')
      BY <1>0, <1>15, <2>1, <2>3 DEF GuideSoul, Holds, Handlers, At, Bot
    <3>3. Set(Worker, h) /\ souls' = souls
      BY <2>3
    <3> HIDE DEF h
    <3>4. actors' \in [Actors -> Handlers] /\ Holding'
      BY <1>0, <3>1, <3>2, <3>3, SetHolds
    <3> QED BY <1>0, <1>15, <2>3, <3>4 DEF GuideSoul, TypeInv, TypeOK, ghosts
  <2> QED BY <1>15, <2>2, <2>3 DEF GuideSoul
<1>16. ASSUME CompleteForge PROVE TypeInv'
  <2> DEFINE h == Idle
  <2>1. h \in Handlers
    BY <1>0, <1>16, HandlerTypes DEF CompleteForge, Steps, After
  <2>2. Holds(h, souls')
    BY <1>0, <1>16, IdleHolds, CompanionsAssumption
       DEF CompleteForge, Holds, Handlers, Idle, At, Bot
  <2>3. Set(Worker, h) /\ souls' = souls
    BY <1>16 DEF CompleteForge, Done
  <2> HIDE DEF h
  <2>4. actors' \in [Actors -> Handlers] /\ Holding'
    BY <1>0, <2>1, <2>2, <2>3, SetHolds
  <2> QED BY <1>0, <1>16, <2>4, CompanionsAssumption
     DEF CompleteForge, TypeInv, TypeOK, ghosts
<1>17. ASSUME ForgeFails PROVE TypeInv'
  <2> DEFINE h == [actors[Worker] EXCEPT !.pc = "fail"]
  <2>1. h \in Handlers
    BY <1>0, <1>17, HandlerTypes DEF ForgeFails, Steps, After
  <2>2. Holds(h, souls')
    BY <1>0, <1>17, IdleHolds, CompanionsAssumption
       DEF ForgeFails, Holds, Handlers, Idle, At, Bot
  <2>3. Set(Worker, h) /\ souls' = souls
    BY <1>17 DEF ForgeFails
  <2> HIDE DEF h
  <2>4. actors' \in [Actors -> Handlers] /\ Holding'
    BY <1>0, <2>1, <2>2, <2>3, SetHolds
  <2> QED BY <1>0, <1>17, <2>4, CompanionsAssumption DEF ForgeFails, TypeInv, TypeOK, ghosts
<1>18. ASSUME ReportFailure PROVE TypeInv'
  <2> DEFINE h == Idle
  <2>1. h \in Handlers
    BY <1>0, <1>18, HandlerTypes DEF ReportFailure, Steps, After
  <2>2. Holds(h, souls')
    BY <1>0, <1>18, IdleHolds, CompanionsAssumption
       DEF ReportFailure, Holds, Handlers, Idle, At, Bot
  <2>3. Set(Worker, h) /\ souls' = souls
    BY <1>18 DEF ReportFailure, Done
  <2> HIDE DEF h
  <2>4. actors' \in [Actors -> Handlers] /\ Holding'
    BY <1>0, <2>1, <2>2, <2>3, SetHolds
  <2>5. Unseeded(Worker) \subseteq Bots
    BY <1>0, CompanionsAssumption DEF Unseeded, Bot, Handlers
  <2> QED BY <1>0, <1>18, <2>4, <2>5 DEF ReportFailure, TypeInv, TypeOK
<1>19. ASSUME WorkerDies PROVE TypeInv'
  <2> DEFINE h == [Idle EXCEPT !.pc = "dead"]
  <2>1. h \in Handlers
    BY <1>0, <1>19, HandlerTypes DEF WorkerDies, Steps, After
  <2>2. Holds(h, souls')
    BY <1>0, <1>19, IdleHolds, CompanionsAssumption
       DEF WorkerDies, Holds, Handlers, Idle, At, Bot
  <2>3. Set(Worker, h) /\ souls' = souls
    BY <1>19 DEF WorkerDies
  <2> HIDE DEF h
  <2>4. actors' \in [Actors -> Handlers] /\ Holding'
    BY <1>0, <2>1, <2>2, <2>3, SetHolds
  <2>5. Unseeded(Worker) \subseteq Bots
    BY <1>0, CompanionsAssumption DEF Unseeded, Bot, Handlers
  <2>6. actors[Worker].forge \in Forges
    BY <1>0, <1>19 DEF WorkerDies, At, Holds, Handlers
  <2> QED BY <1>0, <1>19, <2>4, <2>5, <2>6 DEF WorkerDies, TypeInv, TypeOK
<1>20. ASSUME Restart PROVE TypeInv'
  <2>1. actors' \in [Actors -> Handlers] /\ Holding'
    BY <1>20, HandlerTypes, IdleHolds DEF Restart, Holding
  <2>2. {actors[a].forge : a \in Actors} \ {NoForge} \subseteq Forges
    BY <1>0 DEF Handlers
  <2>3. UNION {Unseeded(a) : a \in Actors} \subseteq Bots
    <3>1. ASSUME NEW a \in Actors PROVE Unseeded(a) \subseteq Bots
      BY <1>0, CompanionsAssumption DEF Unseeded, Bot, Handlers
    <3> QED BY <3>1
  <2>4. {queue[i] : i \in DOMAIN queue} \subseteq Forges
    BY <1>0 DEF TypeOK
  <2>5. lost' \subseteq Forges /\ unsown' \subseteq Bots /\ behind' \subseteq Bots
    BY <1>0, <1>20, <2>2, <2>3, <2>4 DEF Restart, TypeOK
  <2>6. queue' \in Seq(Forges) /\ Len(queue') <= QueueCapacity /\ lock' = Nobody
    BY <1>20, CompanionsAssumption DEF Restart
  <2> QED BY <1>0, <1>20, <2>1, <2>5, <2>6 DEF Restart, TypeInv, TypeOK
<1>21. CASE UNCHANGED vars
  BY <1>0, <1>21 DEF vars, ghosts, TypeInv, TypeOK, Holding, Holds
<1> QED BY <1>1, <1>2, <1>3, <1>4, <1>5, <1>6, <1>7, <1>8, <1>9, <1>10, <1>11, <1>12,
           <1>13, <1>14, <1>15, <1>16, <1>17, <1>18, <1>19, <1>20, <1>21
   DEF Next, Requests, Souls, Document, Forging


----------------------------------------------------------------------------
(* Documents.                                                              *)

\* The invariant of the documents.
DocumentInv == Locked /\ StaleFollowed /\ DocumentsFollow

\* An actor that is at no document, before and after, does not disturb them.
LEMMA Elsewhere ==
    ASSUME TypeOK, DocumentInv, NEW a \in Actors, NEW h, Set(a, h), h.pc # "write",
           ~At(a, "document"), ~At(a, "write"), UNCHANGED <<souls, shown, behind, lock>>
    PROVE  DocumentInv'
<1>1. /\ actors'[a] = h
      /\ \A x \in Actors : x # a => actors'[x] = actors[x]
  BY DEF Set, TypeOK
<1>2. Locked'
  BY <1>1 DEF DocumentInv, Locked, At
<1>3. StaleFollowed'
  BY <1>1 DEF DocumentInv, StaleFollowed, At, Bot
<1>4. DocumentsFollow'
  BY <1>1 DEF DocumentInv, DocumentsFollow, At, Bot
<1> QED BY <1>2, <1>3, <1>4 DEF DocumentInv

\* Who changes a soul goes on to its document, and so makes up for the copies
\* that are now out of date.
LEMMA ChangesFollowed ==
    ASSUME TypeOK, DocumentInv, NEW a \in Actors, NEW b \in Bots, NEW t, Changes(a, b, t),
           ~At(a, "document"), ~At(a, "write"), UNCHANGED <<behind, lock>>
    PROVE  DocumentInv'
<1>0. actors[a] \in Handlers /\ \A x \in Actors : actors[x] \in Handlers
  BY DEF TypeOK
<1>1. actors'[a].pc = "document" /\ actors'[a].bot = b
  BY <1>0 DEF Changes, Handlers
<1>2. \A x \in Actors : x # a => /\ actors'[x].pc = actors[x].pc
                                 /\ actors'[x].bot = actors[x].bot
                                 /\ Bot(x) # b => actors'[x].current = actors[x].current
  BY <1>0 DEF Changes, Handlers, Bot
<1>3. souls' = souls \cup {b} /\ shown' = shown \ {b}
  BY DEF Changes
<1>4. Locked'
  BY <1>1, <1>2 DEF DocumentInv, Locked, At
<1>5. StaleFollowed'
  <2> SUFFICES ASSUME NEW y \in Actors, At(y, "write")', ~actors'[y].current
               PROVE  \E x \in Actors : At(x, "document")' /\ Bot(x)' = Bot(y)'
    BY DEF StaleFollowed
  <2>1. y # a /\ At(y, "write") /\ Bot(y)' = Bot(y)
    BY <1>1, <1>2 DEF At, Bot
  <2>2. CASE Bot(y) = b
    BY <1>1, <2>1, <2>2 DEF At, Bot
  <2>3. CASE Bot(y) # b
    <3>1. ~actors[y].current
      BY <1>2, <2>1, <2>3
    <3>2. PICK x \in Actors : At(x, "document") /\ Bot(x) = Bot(y)
      BY <2>1, <3>1 DEF DocumentInv, StaleFollowed
    <3> QED BY <1>2, <2>1, <3>2 DEF At, Bot
  <2> QED BY <2>2, <2>3
<1>6. DocumentsFollow'
  <2> SUFFICES ASSUME NEW s \in (souls \ (behind \cup shown))'
               PROVE  \E x \in Actors :
                         /\ Bot(x)' = s
                         /\ At(x, "document")' \/ (At(x, "write")' /\ actors'[x].current)
    BY DEF DocumentsFollow
  <2>1. CASE s = b
    BY <1>1, <2>1 DEF At, Bot
  <2>2. CASE s # b
    <3>1. s \in souls \ (behind \cup shown)
      BY <1>3, <2>2
    <3>2. PICK x \in Actors :
              Bot(x) = s /\ (At(x, "document") \/ (At(x, "write") /\ actors[x].current))
      BY <3>1 DEF DocumentInv, DocumentsFollow
    <3> QED BY <1>2, <2>2, <3>2 DEF At, Bot
  <2> QED BY <2>1, <2>2
<1> QED BY <1>4, <1>5, <1>6 DEF DocumentInv

\* Every step keeps the lock with the writer and the documents followed.
LEMMA DocumentStep == TypeInv /\ DocumentInv /\ [Next]_vars => DocumentInv'
<1> SUFFICES ASSUME TypeInv, DocumentInv, [Next]_vars PROVE DocumentInv'
  OBVIOUS
<1> USE ActorsOfTwoKinds
<1>0. /\ TypeOK
      /\ \A a \in Actors : actors[a] \in Handlers /\ Holds(actors[a], souls)
      /\ Idle.pc = "idle"
  BY DEF TypeInv, TypeOK, Holding, Idle

<1>1. ASSUME NEW t \in Threads, Promote(t) PROVE DocumentInv'
  <2>0. PICK b \in Bots : Set(t, [Idle EXCEPT !.pc = "seed", !.bot = b])
    BY <1>1 DEF Promote
  <2> DEFINE h == [Idle EXCEPT !.pc = "seed", !.bot = b]
  <2>1. Set(t, h) /\ UNCHANGED <<souls, shown, behind, lock>>
    BY <1>1, <2>0 DEF Promote, Done, ghosts
  <2>2. h.pc # "write" /\ ~At(t, "document") /\ ~At(t, "write")
    BY <1>0, <1>1 DEF Promote, At, Idle, Handlers
  <2> HIDE DEF h
  <2> QED BY <1>0, <2>1, <2>2, Elsewhere
<1>2. ASSUME NEW t \in Threads, CreateForgeJob(t) PROVE DocumentInv'
  <2>0. PICK f \in Forges : Set(t, [Idle EXCEPT !.pc = "put", !.forge = f])
    BY <1>2 DEF CreateForgeJob
  <2> DEFINE h == [Idle EXCEPT !.pc = "put", !.forge = f]
  <2>1. Set(t, h) /\ UNCHANGED <<souls, shown, behind, lock>>
    BY <1>2, <2>0 DEF CreateForgeJob, Done, ghosts
  <2>2. h.pc # "write" /\ ~At(t, "document") /\ ~At(t, "write")
    BY <1>0, <1>2 DEF CreateForgeJob, At, Idle, Handlers
  <2> HIDE DEF h
  <2> QED BY <1>0, <2>1, <2>2, Elsewhere
<1>3. ASSUME NEW t \in Threads, PutJob(t) PROVE DocumentInv'
  <2> DEFINE h == Idle
  <2>1. Set(t, h) /\ UNCHANGED <<souls, shown, behind, lock>>
    BY <1>3 DEF PutJob, Done, ghosts
  <2>2. h.pc # "write" /\ ~At(t, "document") /\ ~At(t, "write")
    BY <1>0, <1>3 DEF PutJob, At, Idle, Handlers
  <2> HIDE DEF h
  <2> QED BY <1>0, <2>1, <2>2, Elsewhere
<1>4. ASSUME NEW t \in Threads, QueueFull(t) PROVE DocumentInv'
  <2> DEFINE h == Idle
  <2>1. Set(t, h) /\ UNCHANGED <<souls, shown, behind, lock>>
    BY <1>4 DEF QueueFull, Done, ghosts
  <2>2. h.pc # "write" /\ ~At(t, "document") /\ ~At(t, "write")
    BY <1>0, <1>4 DEF QueueFull, At, Idle, Handlers
  <2> HIDE DEF h
  <2> QED BY <1>0, <2>1, <2>2, Elsewhere
<1>5. ASSUME NEW a \in Actors, TouchSoul(a) PROVE DocumentInv'
  <2>1. PICK b \in souls : Changes(a, b, "idle")
    BY <1>5 DEF TouchSoul
  <2>2. b \in Bots /\ ~At(a, "document") /\ ~At(a, "write") /\ UNCHANGED <<behind, lock>>
    BY <1>0, <1>5 DEF TouchSoul, At, TypeOK, ghosts
  <2> QED BY <1>0, <2>1, <2>2, ChangesFollowed
<1>6. ASSUME NEW a \in Actors, NameSoul(a) PROVE DocumentInv'
  <2>0. PICK b \in Bots : Set(a, [Idle EXCEPT !.pc = "seed", !.bot = b])
    BY <1>6 DEF NameSoul
  <2> DEFINE h == [Idle EXCEPT !.pc = "seed", !.bot = b]
  <2>1. Set(a, h) /\ UNCHANGED <<souls, shown, behind, lock>>
    BY <1>6, <2>0 DEF NameSoul, Done, ghosts
  <2>2. h.pc # "write" /\ ~At(a, "document") /\ ~At(a, "write")
    BY <1>0, <1>6 DEF NameSoul, At, Idle, Handlers
  <2> HIDE DEF h
  <2> QED BY <1>0, <2>1, <2>2, Elsewhere
<1>7. ASSUME NEW a \in Actors, SeedSoul(a) PROVE DocumentInv'
  <2>1. /\ Bot(a) \in Bots /\ ~At(a, "document") /\ ~At(a, "write")
        /\ UNCHANGED <<behind, lock>>
    BY <1>0, <1>7 DEF SeedSoul, At, Bot, Holds, Handlers
  <2>2. CASE Bot(a) \in souls
    <3> DEFINE h == [actors[a] EXCEPT !.pc = "document", !.then = Seeded(a)]
    <3>1. Set(a, h) /\ UNCHANGED <<souls, shown>>
      BY <1>7, <2>2 DEF SeedSoul
    <3>2. h.pc # "write"
      BY <1>0 DEF Handlers
    <3> HIDE DEF h
    <3> QED BY <1>0, <2>1, <3>1, <3>2, Elsewhere
  <2>3. CASE Bot(a) \notin souls
    BY <1>0, <1>7, <2>1, <2>3, ChangesFollowed DEF SeedSoul
  <2> QED BY <2>2, <2>3
<1>8. ASSUME NEW a \in Actors, ReadSoul(a) PROVE DocumentInv'
  <2>1. /\ actors'[a].pc = "write" /\ actors'[a].current /\ actors'[a].bot = actors[a].bot
        /\ \A x \in Actors : x # a => actors'[x] = actors[x]
        /\ \A x \in Actors : ~At(x, "write")
        /\ lock' = a /\ UNCHANGED <<souls, shown, behind>>
    BY <1>0, <1>8, CompanionsAssumption
       DEF ReadSoul, Set, TypeOK, Handlers, DocumentInv, Locked, ghosts
  <2>2. Locked' /\ StaleFollowed'
    BY <2>1 DEF Locked, StaleFollowed, At
  <2>3. DocumentsFollow'
    BY <2>1 DEF DocumentInv, DocumentsFollow, At, Bot
  <2> QED BY <2>2, <2>3 DEF DocumentInv
<1>9. ASSUME NEW a \in Actors, WriteDocument(a) PROVE DocumentInv'
  <2>1. /\ actors'[a].pc \notin {"document", "write"}
        /\ \A x \in Actors : x # a => actors'[x] = actors[x]
    <3>1. Onward(a).pc \in After
      BY <1>0 DEF Onward, Idle, Handlers, After
    <3> QED BY <1>0, <1>9, <3>1 DEF WriteDocument, Set, TypeOK, After
  <2>2. /\ At(a, "write") /\ lock' = Nobody /\ souls' = souls
        /\ \A x \in Actors : x # a => ~At(x, "write")
    BY <1>9 DEF WriteDocument, DocumentInv, Locked
  <2>3. Locked' /\ StaleFollowed'
    BY <2>1, <2>2, CompanionsAssumption DEF Locked, StaleFollowed, At
  <2>4. DocumentsFollow'
    <3> SUFFICES ASSUME NEW s \in (souls \ (behind \cup shown))'
                 PROVE  \E x \in Actors :
                           /\ Bot(x)' = s
                           /\ At(x, "document")' \/ (At(x, "write")' /\ actors'[x].current)
      BY DEF DocumentsFollow
    <3>1. CASE s = Bot(a)
      <4>1. ~actors[a].current
        BY <1>9, <3>1 DEF WriteDocument
      <4>2. PICK x \in Actors : At(x, "document") /\ Bot(x) = Bot(a)
        BY <2>2, <4>1 DEF DocumentInv, StaleFollowed
      <4> QED BY <2>1, <2>2, <3>1, <4>2 DEF At, Bot
    <3>2. CASE s # Bot(a)
      <4>1. s \in souls \ (behind \cup shown)
        BY <1>9, <2>2, <3>2 DEF WriteDocument
      <4>2. PICK x \in Actors :
                Bot(x) = s /\ (At(x, "document") \/ (At(x, "write") /\ actors[x].current))
        BY <4>1 DEF DocumentInv, DocumentsFollow
      <4> QED BY <2>1, <3>2, <4>2 DEF At, Bot
    <3> QED BY <3>1, <3>2
  <2> QED BY <2>3, <2>4 DEF DocumentInv
<1>10. ASSUME NEW a \in Actors, WriteFails(a) PROVE DocumentInv'
  <2>1. /\ actors'[a].pc \notin {"document", "write"}
        /\ \A x \in Actors : x # a => actors'[x] = actors[x]
    BY <1>0, <1>10 DEF WriteFails, Set, Done, TypeOK, Handlers
  <2>2. /\ At(a, "write") /\ lock' = Nobody /\ UNCHANGED <<souls, shown>>
        /\ behind' = behind \cup {Bot(a)}
        /\ \A x \in Actors : x # a => ~At(x, "write")
    BY <1>10 DEF WriteFails, DocumentInv, Locked
  <2>3. Locked' /\ StaleFollowed'
    BY <2>1, <2>2, CompanionsAssumption DEF Locked, StaleFollowed, At
  <2>4. DocumentsFollow'
    BY <2>1, <2>2 DEF DocumentInv, DocumentsFollow, At, Bot
  <2> QED BY <2>3, <2>4 DEF DocumentInv
<1>11. ASSUME TakeForge PROVE DocumentInv'
  <2> DEFINE h == [Idle EXCEPT !.pc = "activate", !.forge = Head(queue)]
  <2>1. Set(Worker, h) /\ UNCHANGED <<souls, shown, behind, lock>>
    BY <1>11 DEF TakeForge, Done, ghosts
  <2>2. h.pc # "write" /\ ~At(Worker, "document") /\ ~At(Worker, "write")
    BY <1>0, <1>11 DEF TakeForge, At, Idle, Handlers
  <2> HIDE DEF h
  <2> QED BY <1>0, <2>1, <2>2, Elsewhere
<1>12. ASSUME Activate PROVE DocumentInv'
  <2> DEFINE h == [actors[Worker] EXCEPT !.pc = "next", !.todo = Founders]
  <2>1. Set(Worker, h) /\ UNCHANGED <<souls, shown, behind, lock>>
    BY <1>12 DEF Activate, Done, ghosts
  <2>2. h.pc # "write" /\ ~At(Worker, "document") /\ ~At(Worker, "write")
    BY <1>0, <1>12 DEF Activate, At, Idle, Handlers
  <2> HIDE DEF h
  <2> QED BY <1>0, <2>1, <2>2, Elsewhere
<1>13. ASSUME NextFounder PROVE DocumentInv'
  <2>0. PICK b \in actors[Worker].todo :
          Set(Worker, [actors[Worker] EXCEPT !.pc = "seed", !.bot = b, !.todo = @ \ {b}])
    BY <1>13 DEF NextFounder
  <2> DEFINE h == [actors[Worker] EXCEPT !.pc = "seed", !.bot = b, !.todo = @ \ {b}]
  <2>1. Set(Worker, h) /\ UNCHANGED <<souls, shown, behind, lock>>
    BY <1>13, <2>0 DEF NextFounder, Done, ghosts
  <2>2. h.pc # "write" /\ ~At(Worker, "document") /\ ~At(Worker, "write")
    BY <1>0, <1>13 DEF NextFounder, At, Idle, Handlers
  <2> HIDE DEF h
  <2> QED BY <1>0, <2>1, <2>2, Elsewhere
<1>14. ASSUME ShapeSoul PROVE DocumentInv'
  <2>1. /\ Bot(Worker) \in Bots /\ ~At(Worker, "document") /\ ~At(Worker, "write")
        /\ UNCHANGED <<behind, lock>>
    BY <1>0, <1>14 DEF ShapeSoul, At, Bot, Holds, TypeOK, ghosts
  <2> QED BY <1>0, <1>14, <2>1, ChangesFollowed DEF ShapeSoul
<1>15. ASSUME GuideSoul PROVE DocumentInv'
  <2>1. /\ Bot(Worker) \in Bots /\ ~At(Worker, "document") /\ ~At(Worker, "write")
        /\ UNCHANGED <<behind, lock>>
    BY <1>0, <1>15 DEF GuideSoul, At, Bot, Holds, TypeOK, ghosts
  <2>2. CASE Changes(Worker, Bot(Worker), "next")
    BY <1>0, <2>1, <2>2, ChangesFollowed
  <2>3. CASE /\ Set(Worker, [actors[Worker] EXCEPT !.pc = "next"])
             /\ UNCHANGED <<souls, shown>>
    <3> DEFINE h == [actors[Worker] EXCEPT !.pc = "next"]
    <3>1. h.pc # "write" /\ Set(Worker, h)
      BY <1>0, <2>3 DEF Handlers
    <3> HIDE DEF h
    <3> QED BY <1>0, <2>1, <2>3, <3>1, Elsewhere
  <2> QED BY <1>15, <2>2, <2>3 DEF GuideSoul
<1>16. ASSUME CompleteForge PROVE DocumentInv'
  <2> DEFINE h == Idle
  <2>1. Set(Worker, h) /\ UNCHANGED <<souls, shown, behind, lock>>
    BY <1>16 DEF CompleteForge, Done, ghosts
  <2>2. h.pc # "write" /\ ~At(Worker, "document") /\ ~At(Worker, "write")
    BY <1>0, <1>16 DEF CompleteForge, At, Idle, Handlers
  <2> HIDE DEF h
  <2> QED BY <1>0, <2>1, <2>2, Elsewhere
<1>17. ASSUME ForgeFails PROVE DocumentInv'
  <2> DEFINE h == [actors[Worker] EXCEPT !.pc = "fail"]
  <2>1. Set(Worker, h) /\ UNCHANGED <<souls, shown, behind, lock>>
    BY <1>17 DEF ForgeFails, Done, ghosts
  <2>2. h.pc # "write" /\ ~At(Worker, "document") /\ ~At(Worker, "write")
    BY <1>0, <1>17 DEF ForgeFails, At, Idle, Handlers
  <2> HIDE DEF h
  <2> QED BY <1>0, <2>1, <2>2, Elsewhere
<1>18. ASSUME ReportFailure PROVE DocumentInv'
  <2> DEFINE h == Idle
  <2>1. Set(Worker, h) /\ UNCHANGED <<souls, shown, behind, lock>>
    BY <1>18 DEF ReportFailure, Done, ghosts
  <2>2. h.pc # "write" /\ ~At(Worker, "document") /\ ~At(Worker, "write")
    BY <1>0, <1>18 DEF ReportFailure, At, Idle, Handlers
  <2> HIDE DEF h
  <2> QED BY <1>0, <2>1, <2>2, Elsewhere
<1>19. ASSUME WorkerDies PROVE DocumentInv'
  <2> DEFINE h == [Idle EXCEPT !.pc = "dead"]
  <2>1. Set(Worker, h) /\ UNCHANGED <<souls, shown, behind, lock>>
    BY <1>19 DEF WorkerDies, Done, ghosts
  <2>2. h.pc # "write" /\ ~At(Worker, "document") /\ ~At(Worker, "write")
    BY <1>0, <1>19 DEF WorkerDies, At, Idle, Handlers
  <2> HIDE DEF h
  <2> QED BY <1>0, <2>1, <2>2, Elsewhere
<1>20. ASSUME Restart PROVE DocumentInv'
  <2>1. /\ \A a \in Actors : actors'[a].pc = "idle"
        /\ lock' = Nobody /\ UNCHANGED <<souls, shown>>
        /\ behind' = behind \cup {b \in souls : \E a \in Actors : Writing(a, b)}
    BY <1>0, <1>20 DEF Restart
  <2>2. Locked' /\ StaleFollowed'
    BY <2>1, CompanionsAssumption DEF Locked, StaleFollowed, At
  <2>3. DocumentsFollow'
    BY <2>1 DEF DocumentInv, DocumentsFollow, Writing
  <2> QED BY <2>2, <2>3 DEF DocumentInv
<1>21. CASE UNCHANGED vars
  BY <1>21 DEF vars, ghosts, DocumentInv, Locked, StaleFollowed, DocumentsFollow, At, Bot
<1> QED BY <1>1, <1>2, <1>3, <1>4, <1>5, <1>6, <1>7, <1>8, <1>9, <1>10, <1>11, <1>12,
           <1>13, <1>14, <1>15, <1>16, <1>17, <1>18, <1>19, <1>20, <1>21
   DEF Next, Requests, Souls, Document, Forging

\* Once nobody is at work on it, a document shows its soul.
LEMMA DocumentsShow == DocumentInv => DocumentCurrent
BY DEF DocumentInv, DocumentsFollow, DocumentCurrent, Writing



----------------------------------------------------------------------------
(* What a step does to the handlers.                                       *)

\* An actor that goes on leaves the others alone.
LEMMA SetFrame ==
    ASSUME TypeOK, NEW a \in Actors, NEW h, Set(a, h)
    PROVE  actors'[a] = h /\ \A x \in Actors : x # a => actors'[x] = actors[x]
BY DEF Set, TypeOK

\* It keeps its forge, then, and all keep theirs.
LEMMA SetForge ==
    ASSUME TypeOK, NEW a \in Actors, NEW h, Set(a, h), h.forge = actors[a].forge
    PROVE  \A x \in Actors : actors'[x].forge = actors[x].forge
BY SetFrame

\* A change of a soul leaves forge and founders to whoever has them.
LEMMA ChangesFrame ==
    ASSUME TypeOK, NEW a \in Actors, NEW b \in Bots, NEW t, Changes(a, b, t)
    PROVE  /\ actors'[a].pc = "document" /\ actors'[a].then = t /\ actors'[a].bot = b
           /\ \A x \in Actors : /\ actors'[x].forge = actors[x].forge
                                /\ actors'[x].todo = actors[x].todo
           /\ \A x \in Actors : x # a => /\ actors'[x].pc = actors[x].pc
                                         /\ actors'[x].then = actors[x].then
                                         /\ actors'[x].bot = actors[x].bot
           /\ souls' = souls \cup {b}
<1> \A x \in Actors : actors[x] \in Handlers
  BY DEF TypeOK
<1> QED BY DEF Changes, Handlers

\* The fields of a handler that goes on to another step.
LEMMA OnFrame ==
    ASSUME NEW r \in Handlers
    PROVE  /\ \A p : LET h == [r EXCEPT !.pc = p] IN
                     /\ h.pc = p /\ h.then = r.then
                     /\ h.bot = r.bot /\ h.todo = r.todo /\ h.forge = r.forge
           /\ \A p, c : LET h == [r EXCEPT !.pc = p, !.current = c] IN
                     /\ h.pc = p /\ h.then = r.then
                     /\ h.bot = r.bot /\ h.todo = r.todo /\ h.forge = r.forge
           /\ \A p, t : LET h == [r EXCEPT !.pc = p, !.then = t] IN
                     /\ h.pc = p /\ h.then = t
                     /\ h.bot = r.bot /\ h.todo = r.todo /\ h.forge = r.forge
<1>1. \A p : LET h == [r EXCEPT !.pc = p] IN
                     /\ h.pc = p /\ h.then = r.then
                     /\ h.bot = r.bot /\ h.todo = r.todo /\ h.forge = r.forge
  BY DEF Handlers
<1>2. \A p, c : LET h == [r EXCEPT !.pc = p, !.current = c] IN
                     /\ h.pc = p /\ h.then = r.then
                     /\ h.bot = r.bot /\ h.todo = r.todo /\ h.forge = r.forge
  BY DEF Handlers
<1>3. \A p, t : LET h == [r EXCEPT !.pc = p, !.then = t] IN
                     /\ h.pc = p /\ h.then = t
                     /\ h.bot = r.bot /\ h.todo = r.todo /\ h.forge = r.forge
  BY DEF Handlers
<1> QED BY <1>1, <1>2, <1>3

----------------------------------------------------------------------------
(* Forges that are under way.                                              *)

\* The steps that bring no forge from one place to another.
Quiet == \/ \E t \in Threads : Promote(t)
         \/ \E a \in Actors : Souls(a) \/ Document(a)
         \/ Activate \/ NextFounder \/ ShapeSoul \/ GuideSoul \/ ForgeFails
         \/ UNCHANGED vars

\* Everybody keeps his forge, and each forge its place and status.
ForgesStay ==
    /\ UNCHANGED <<status, queue, lost>>
    /\ \A a \in Actors : actors'[a].forge = actors[a].forge

\* After a quiet step the forges are where they were.
LEMMA QuietStep == TypeInv /\ Quiet => ForgesStay
<1> SUFFICES ASSUME TypeInv, Quiet PROVE ForgesStay
  OBVIOUS
<1> USE ActorsOfTwoKinds
<1>0. /\ TypeOK
      /\ \A a \in Actors : actors[a] \in Handlers /\ Holds(actors[a], souls)
      /\ Idle.forge = NoForge
  BY DEF TypeInv, TypeOK, Holding, Idle

<1>1. ASSUME NEW t \in Threads, Promote(t) PROVE ForgesStay
  <2>0. PICK b \in Bots : Set(t, [Idle EXCEPT !.pc = "seed", !.bot = b])
    BY <1>1 DEF Promote
  <2> DEFINE h == [Idle EXCEPT !.pc = "seed", !.bot = b]
  <2>1. Set(t, h)
    BY <1>1, <2>0 DEF Promote, Done
  <2>2. h.forge = NoForge /\ actors[t].forge = NoForge
    BY <1>0, <1>1 DEF Promote, Holds, At, Idle
  <2> HIDE DEF h
  <2>3. \A x \in Actors : actors'[x].forge = actors[x].forge
    BY <1>0, <2>1, <2>2, SetForge
  <2> QED BY <1>1, <2>3 DEF ForgesStay, Promote, ghosts
<1>2. ASSUME NEW a \in Actors, TouchSoul(a) PROVE ForgesStay
  <2>1. PICK b \in souls : Changes(a, b, "idle")
    BY <1>2 DEF TouchSoul
  <2>2. \A x \in Actors : actors'[x].forge = actors[x].forge
    BY <1>0, <2>1, ChangesFrame DEF TypeOK
  <2> QED BY <1>2, <2>2 DEF ForgesStay, TouchSoul, ghosts
<1>3. ASSUME NEW a \in Actors, NameSoul(a) PROVE ForgesStay
  <2>0. PICK b \in Bots : Set(a, [Idle EXCEPT !.pc = "seed", !.bot = b])
    BY <1>3 DEF NameSoul
  <2> DEFINE h == [Idle EXCEPT !.pc = "seed", !.bot = b]
  <2>1. Set(a, h)
    BY <1>3, <2>0 DEF NameSoul, Done
  <2>2. h.forge = NoForge /\ actors[a].forge = NoForge
    BY <1>0, <1>3 DEF NameSoul, Holds, At, Idle
  <2> HIDE DEF h
  <2>3. \A x \in Actors : actors'[x].forge = actors[x].forge
    BY <1>0, <2>1, <2>2, SetForge
  <2> QED BY <1>3, <2>3 DEF ForgesStay, NameSoul, ghosts
<1>4. ASSUME NEW a \in Actors, SeedSoul(a) PROVE ForgesStay
  <2>1. Bot(a) \in Bots
    BY <1>0, <1>4 DEF SeedSoul, At, Bot, Holds, Handlers
  <2>2. CASE Bot(a) \in souls
    <3>1. Set(a, [actors[a] EXCEPT !.pc = "document", !.then = Seeded(a)])
      BY <1>4, <2>2 DEF SeedSoul
    <3>0. [actors[a] EXCEPT !.pc = "document", !.then = Seeded(a)].forge = actors[a].forge
      BY <1>0, OnFrame
    <3>2. \A x \in Actors : actors'[x].forge = actors[x].forge
      BY <1>0, <3>0, <3>1, SetForge
    <3> QED BY <1>4, <3>2 DEF ForgesStay, SeedSoul
  <2>3. CASE Bot(a) \notin souls
    <3>1. Changes(a, Bot(a), Seeded(a))
      BY <1>4, <2>3 DEF SeedSoul
    <3>2. \A x \in Actors : actors'[x].forge = actors[x].forge
      BY <1>0, <2>1, <3>1, ChangesFrame
    <3> QED BY <1>4, <3>2 DEF ForgesStay, SeedSoul
  <2> QED BY <2>2, <2>3
<1>5. ASSUME NEW a \in Actors, ReadSoul(a) PROVE ForgesStay
  <2> DEFINE h == [actors[a] EXCEPT !.pc = "write", !.current = TRUE]
  <2>1. Set(a, h)
    BY <1>5 DEF ReadSoul
  <2>2. h.forge = actors[a].forge
    BY <1>0, <1>5, OnFrame
  <2> HIDE DEF h
  <2>3. \A x \in Actors : actors'[x].forge = actors[x].forge
    BY <1>0, <2>1, <2>2, SetForge
  <2> QED BY <1>5, <2>3 DEF ForgesStay, ReadSoul, ghosts
<1>6. ASSUME NEW a \in Actors, WriteDocument(a) PROVE ForgesStay
  <2>1. actors'[a] = Onward(a) /\ \A x \in Actors : x # a => actors'[x] = actors[x]
    BY <1>0, <1>6, SetFrame DEF WriteDocument
  <2>2. Onward(a).forge = actors[a].forge
    BY <1>0, <1>6, OnFrame DEF WriteDocument, Onward, At, Holds
  <2>3. \A x \in Actors : actors'[x].forge = actors[x].forge
    BY <2>1, <2>2
  <2> QED BY <1>6, <2>3 DEF ForgesStay, WriteDocument
<1>7. ASSUME NEW a \in Actors, WriteFails(a) PROVE ForgesStay
  <2>1. CASE actors[a].forge = NoForge
    BY <1>0, <1>7, <2>1, SetForge DEF ForgesStay, WriteFails, Done
  <2>2. CASE actors[a].forge # NoForge
    <3>1. Set(a, [actors[a] EXCEPT !.pc = "fail"])
      BY <1>7, <2>2 DEF WriteFails
    <3>0. [actors[a] EXCEPT !.pc = "fail"].forge = actors[a].forge
      BY <1>0, OnFrame
    <3>2. \A x \in Actors : actors'[x].forge = actors[x].forge
      BY <1>0, <3>0, <3>1, SetForge
    <3> QED BY <1>7, <3>2 DEF ForgesStay, WriteFails
  <2> QED BY <2>1, <2>2
<1>8. ASSUME Activate PROVE ForgesStay
  <2> DEFINE h == [actors[Worker] EXCEPT !.pc = "next", !.todo = Founders]
  <2>1. Set(Worker, h)
    BY <1>8 DEF Activate
  <2>2. h.forge = actors[Worker].forge
    BY <1>0, <1>8 DEF Handlers
  <2> HIDE DEF h
  <2>3. \A x \in Actors : actors'[x].forge = actors[x].forge
    BY <1>0, <2>1, <2>2, SetForge
  <2> QED BY <1>8, <2>3 DEF ForgesStay, Activate, ghosts
<1>9. ASSUME NextFounder PROVE ForgesStay
  <2>0. PICK b \in actors[Worker].todo :
          Set(Worker, [actors[Worker] EXCEPT !.pc = "seed", !.bot = b, !.todo = @ \ {b}])
    BY <1>9 DEF NextFounder
  <2> DEFINE h == [actors[Worker] EXCEPT !.pc = "seed", !.bot = b, !.todo = @ \ {b}]
  <2>1. Set(Worker, h)
    BY <1>9, <2>0 DEF NextFounder
  <2>2. h.forge = actors[Worker].forge
    BY <1>0, <1>9 DEF Handlers
  <2> HIDE DEF h
  <2>3. \A x \in Actors : actors'[x].forge = actors[x].forge
    BY <1>0, <2>1, <2>2, SetForge
  <2> QED BY <1>9, <2>3 DEF ForgesStay, NextFounder, ghosts
<1>10. ASSUME ShapeSoul PROVE ForgesStay
  <2>1. Bot(Worker) \in Bots /\ Changes(Worker, Bot(Worker), "guide")
    BY <1>0, <1>10 DEF ShapeSoul, At, Bot, Holds, TypeOK
  <2>2. \A x \in Actors : actors'[x].forge = actors[x].forge
    BY <1>0, <2>1, ChangesFrame
  <2> QED BY <1>10, <2>2 DEF ForgesStay, ShapeSoul, ghosts
<1>11. ASSUME GuideSoul PROVE ForgesStay
  <2>1. Bot(Worker) \in Bots
    BY <1>0, <1>11 DEF GuideSoul, At, Bot, Holds, TypeOK
  <2>2. \A x \in Actors : actors'[x].forge = actors[x].forge
    <3>1. CASE Changes(Worker, Bot(Worker), "next")
      BY <1>0, <2>1, <3>1, ChangesFrame
    <3>2. CASE Set(Worker, [actors[Worker] EXCEPT !.pc = "next"])
      <4>1. [actors[Worker] EXCEPT !.pc = "next"].forge = actors[Worker].forge
        BY <1>0, OnFrame
      <4> QED BY <1>0, <3>2, <4>1, SetForge
    <3> QED BY <1>11, <3>1, <3>2 DEF GuideSoul
  <2> QED BY <1>11, <2>2 DEF ForgesStay, GuideSoul, ghosts
<1>12. ASSUME ForgeFails PROVE ForgesStay
  <2> DEFINE h == [actors[Worker] EXCEPT !.pc = "fail"]
  <2>1. Set(Worker, h)
    BY <1>12 DEF ForgeFails
  <2>2. h.forge = actors[Worker].forge
    BY <1>0, <1>12, OnFrame
  <2> HIDE DEF h
  <2>3. \A x \in Actors : actors'[x].forge = actors[x].forge
    BY <1>0, <2>1, <2>2, SetForge
  <2> QED BY <1>12, <2>3 DEF ForgesStay, ForgeFails, ghosts
<1>13. CASE UNCHANGED vars
  BY <1>13 DEF vars, ForgesStay, ghosts
<1> QED BY <1>1, <1>2, <1>3, <1>4, <1>5, <1>6, <1>7, <1>8, <1>9, <1>10, <1>11, <1>12,
           <1>13
   DEF Quiet, Souls, Document

\* Every step keeps the forges that are reported as under way in hand.
LEMMA UnderWayStep == TypeInv /\ UnderWay /\ [Next]_vars => UnderWay'
<1> SUFFICES ASSUME TypeInv, UnderWay, [Next]_vars PROVE UnderWay'
  OBVIOUS
<1> USE ActorsOfTwoKinds
<1>0. /\ TypeOK
      /\ \A a \in Actors : actors[a] \in Handlers /\ Holds(actors[a], souls)
      /\ Idle.forge = NoForge
  BY DEF TypeInv, TypeOK, Holding, Idle

<1>1. ASSUME NEW t \in Threads, CreateForgeJob(t) PROVE UnderWay'
  <2>1. PICK f \in Forges : /\ status' = [status EXCEPT ![f] = "queued"]
                          /\ Set(t, [Idle EXCEPT !.pc = "put", !.forge = f])
    BY <1>1 DEF CreateForgeJob
  <2>0. /\ actors'[t] = [Idle EXCEPT !.pc = "put", !.forge = f]
        /\ \A x \in Actors : x # t => actors'[x] = actors[x]
    BY <1>0, <2>1, SetFrame
  <2>2. actors'[t].forge = f /\ actors[t].forge = NoForge
    BY <1>0, <1>1, <2>0 DEF CreateForgeJob, Holds, At, Idle
  <2>3. /\ \A g \in Forges : g # f => status'[g] = status[g]
        /\ UNCHANGED <<queue, lost>>
    BY <1>0, <1>1, <2>1 DEF CreateForgeJob, TypeOK, ghosts
  <2> QED
    <3> SUFFICES ASSUME NEW g \in Forges, status'[g] \in {"queued", "running"}, g \notin lost'
                 PROVE  InHand(g)'
      BY DEF UnderWay
    <3>1. CASE g = f
      BY <2>2, <3>1 DEF InHand
    <3>2. CASE g # f
      <4>1. InHand(g)
        BY <2>3, <3>2 DEF UnderWay
      <4> QED BY <2>0, <2>2, <2>3, <4>1, CompanionsAssumption DEF InHand
    <3> QED BY <3>1, <3>2
<1>2. ASSUME NEW t \in Threads, PutJob(t) PROVE UnderWay'
  <2>1. /\ actors[t].forge \in Forges
        /\ \A x \in Actors : x # t => actors'[x] = actors[x]
    BY <1>0, <1>2, SetFrame DEF PutJob, Done, Holds, At, Handlers
  <2>2. /\ \A i \in DOMAIN queue : i \in DOMAIN queue' /\ queue'[i] = queue[i]
        /\ \E i \in DOMAIN queue' : queue'[i] = actors[t].forge
    <3>1. queue \in Seq(Forges) /\ queue' = Append(queue, actors[t].forge)
      BY <1>0, <1>2 DEF PutJob, TypeOK
    <3>2. /\ DOMAIN queue = 1 .. Len(queue) /\ DOMAIN queue' = 1 .. Len(queue) + 1
          /\ \A i \in 1 .. Len(queue) : queue'[i] = queue[i]
          /\ queue'[Len(queue) + 1] = actors[t].forge /\ Len(queue) \in Nat
      BY <2>1, <3>1
    <3> QED BY <3>2
  <2> QED BY <1>2, <2>1, <2>2 DEF PutJob, UnderWay, InHand, ghosts
<1>3. ASSUME NEW t \in Threads, QueueFull(t) PROVE UnderWay'
  <2>1. \A x \in Actors : x # t => actors'[x] = actors[x]
    BY <1>0, <1>3, SetFrame DEF QueueFull, Done
  <2> QED BY <1>3, <2>1 DEF QueueFull, UnderWay, InHand
<1>4. ASSUME TakeForge PROVE UnderWay'
  <2>0. /\ actors'[Worker] = [Idle EXCEPT !.pc = "activate", !.forge = Head(queue)]
        /\ \A x \in Actors : x # Worker => actors'[x] = actors[x]
    BY <1>0, <1>4, SetFrame DEF TakeForge
  <2>1. /\ actors'[Worker].forge = Head(queue) /\ actors[Worker].forge = NoForge
        /\ \A x \in Actors : x # Worker => actors'[x] = actors[x]
    BY <1>0, <1>4, <2>0 DEF TakeForge, Holds, At, Idle
  <2>2. \A i \in DOMAIN queue : queue[i] # Head(queue) =>
            \E j \in DOMAIN queue' : queue'[j] = queue[i]
    <3>1. queue \in Seq(Forges) /\ queue # <<>> /\ queue' = Tail(queue)
      BY <1>0, <1>4 DEF TakeForge, TypeOK
    <3>2. /\ DOMAIN queue = 1 .. Len(queue) /\ DOMAIN queue' = 1 .. Len(queue) - 1
          /\ \A i \in 1 .. Len(queue) - 1 : queue'[i] = queue[i + 1]
          /\ Head(queue) = queue[1] /\ Len(queue) \in Nat
      BY <3>1
    <3>3. ASSUME NEW i \in DOMAIN queue, queue[i] # Head(queue)
          PROVE  \E j \in DOMAIN queue' : queue'[j] = queue[i]
      <4>1. i - 1 \in 1 .. Len(queue) - 1 /\ queue'[i - 1] = queue[i]
        BY <3>2, <3>3
      <4> QED BY <3>2, <4>1
    <3> QED BY <3>3
  <2> QED
    <3> SUFFICES ASSUME NEW f \in Forges, status'[f] \in {"queued", "running"}, f \notin lost'
                 PROVE  InHand(f)'
      BY DEF UnderWay
    <3>1. CASE f = Head(queue)
      BY <2>1, <3>1 DEF InHand
    <3>2. CASE f # Head(queue)
      <4>1. InHand(f)
        BY <1>0, <1>4, <3>2 DEF TakeForge, UnderWay, TypeOK, ghosts
      <4>2. CASE \E a \in Actors : actors[a].forge = f
        BY <2>1, <4>2, CompanionsAssumption DEF InHand
      <4>3. CASE \E i \in DOMAIN queue : queue[i] = f
        BY <2>2, <3>2, <4>3 DEF InHand
      <4> QED BY <4>1, <4>2, <4>3 DEF InHand
    <3> QED BY <3>1, <3>2
<1>5. ASSUME CompleteForge PROVE UnderWay'
  <2>1. \A x \in Actors : x # Worker => actors'[x] = actors[x]
    BY <1>0, <1>5, SetFrame DEF CompleteForge, Done
  <2> QED BY <1>0, <1>5, <2>1 DEF CompleteForge, UnderWay, InHand, TypeOK, ghosts
<1>6. ASSUME ReportFailure PROVE UnderWay'
  <2>1. \A x \in Actors : x # Worker => actors'[x] = actors[x]
    BY <1>0, <1>6, SetFrame DEF ReportFailure, Done
  <2> QED BY <1>0, <1>6, <2>1 DEF ReportFailure, UnderWay, InHand, TypeOK, ghosts
<1>7. ASSUME WorkerDies PROVE UnderWay'
  <2>1. \A x \in Actors : x # Worker => actors'[x] = actors[x]
    BY <1>0, <1>7, SetFrame DEF WorkerDies, Done
  <2> QED BY <1>0, <1>7, <2>1 DEF WorkerDies, UnderWay, InHand, TypeOK, ghosts
<1>8. ASSUME Restart PROVE UnderWay'
  BY <1>0, <1>8, CompanionsAssumption DEF Restart, UnderWay, InHand
<1>9. CASE Quiet
  BY <1>9, QuietStep DEF ForgesStay, UnderWay, InHand
<1> QED BY <1>1, <1>2, <1>3, <1>4, <1>5, <1>6, <1>7, <1>8, <1>9
   DEF Next, Requests, Forging, Quiet

----------------------------------------------------------------------------
(* The forge that is being made, and the one that is complete.             *)

\* The invariant of the worlds.
WorldInv == ForgeInHand /\ CompleteMeansReady

\* Nothing is taken back while the world stays, no other forge is complete and
\* the worker, if it still makes its forge, has as many founders left to shape.
LEMMA WorldKept ==
    ASSUME WorldInv, world' = world,
           \A f \in Forges : status'[f] = "complete" => status[f] = "complete",
           bindings \subseteq bindings', souls \subseteq souls', shaped \subseteq shaped',
           Making' => /\ Making /\ Unshaped \subseteq Unshaped'
                      /\ actors'[Worker].forge = actors[Worker].forge
    PROVE  WorldInv'
<1>1. ForgeInHand'
  BY DEF WorldInv, ForgeInHand
<1>2. CompleteMeansReady'
  BY DEF WorldInv, CompleteMeansReady
<1> QED BY <1>1, <1>2 DEF WorldInv

\* The worker at the same step, for the same forge, with the same founders.
LEMMA SameMaking ==
    ASSUME actors'[Worker].forge = actors[Worker].forge,
           actors'[Worker].pc = actors[Worker].pc,
           actors'[Worker].then = actors[Worker].then,
           actors'[Worker].bot = actors[Worker].bot,
           actors'[Worker].todo = actors[Worker].todo
    PROVE  Making' => /\ Making /\ Unshaped \subseteq Unshaped'
                      /\ actors'[Worker].forge = actors[Worker].forge
BY DEF Making, Unshaped, At, Bot

\* A request leaves the worker to its forge.
LEMMA RequestMaking ==
    ASSUME TypeOK, NEW a \in Actors, NEW h, Set(a, h), a # Worker
    PROVE  Making' => /\ Making /\ Unshaped \subseteq Unshaped'
                      /\ actors'[Worker].forge = actors[Worker].forge
<1>1. actors'[Worker] = actors[Worker]
  BY SetFrame DEF Actors
<1> QED BY <1>1, SameMaking

\* Who is done, has failed or is at the start makes no forge.
LEMMA NotMaking ==
    ASSUME actors'[Worker].forge = NoForge \/ actors'[Worker].pc \in {"activate", "fail"}
    PROVE  ~Making'
BY DEF Making, At

\* Every step keeps the founders of the forge at hand, and of the complete one.
LEMMA WorldStep == TypeInv /\ WorldInv /\ [Next]_vars => WorldInv'
<1> SUFFICES ASSUME TypeInv, WorldInv, [Next]_vars PROVE WorldInv'
  OBVIOUS
<1> USE ActorsOfTwoKinds
<1>0. /\ TypeOK /\ Worker \notin Threads
      /\ \A a \in Actors : actors[a] \in Handlers /\ Holds(actors[a], souls)
      /\ Idle.forge = NoForge
      /\ \A p, b : [Idle EXCEPT !.pc = p, !.bot = b].forge = NoForge
      /\ \A p : [Idle EXCEPT !.pc = p].forge = NoForge
  BY CompanionsAssumption DEF TypeInv, TypeOK, Holding, Idle
<1> DEFINE Keeps == Making' => /\ Making /\ Unshaped \subseteq Unshaped'
                               /\ actors'[Worker].forge = actors[Worker].forge

<1>1. ASSUME NEW t \in Threads, Promote(t) PROVE WorldInv'
  <2>0. PICK b \in Bots : Set(t, [Idle EXCEPT !.pc = "seed", !.bot = b])
    BY <1>1 DEF Promote
  <2>1. Keeps
    <3>1. Set(t, [Idle EXCEPT !.pc = "seed", !.bot = b]) /\ t # Worker
      BY <1>0, <1>1, <2>0 DEF Promote, Done
    <3> HIDE DEF Set
    <3> QED BY <1>0, <3>1, RequestMaking
  <2> HIDE DEF Keeps
  <2>2. \A f \in Forges : status'[f] = "complete" => status[f] = "complete"
    BY <1>0, <1>1 DEF Promote, TypeOK
  <2> QED BY <1>0, <1>1, <2>1, <2>2, WorldKept DEF Promote, Keeps, ghosts
<1>2. ASSUME NEW t \in Threads, CreateForgeJob(t) PROVE WorldInv'
  <2>0. PICK g \in Forges : Set(t, [Idle EXCEPT !.pc = "put", !.forge = g])
    BY <1>2 DEF CreateForgeJob
  <2>1. Keeps
    <3>1. Set(t, [Idle EXCEPT !.pc = "put", !.forge = g]) /\ t # Worker
      BY <1>0, <1>2, <2>0 DEF CreateForgeJob, Done
    <3> HIDE DEF Set
    <3> QED BY <1>0, <3>1, RequestMaking
  <2> HIDE DEF Keeps
  <2>2. \A f \in Forges : status'[f] = "complete" => status[f] = "complete"
    BY <1>0, <1>2 DEF CreateForgeJob, TypeOK
  <2> QED BY <1>0, <1>2, <2>1, <2>2, WorldKept DEF CreateForgeJob, Keeps, ghosts
<1>3. ASSUME NEW t \in Threads, PutJob(t) PROVE WorldInv'
  <2>1. Keeps
    <3>1. Set(t, Idle) /\ t # Worker
      BY <1>0, <1>3 DEF PutJob, Done
    <3> HIDE DEF Set
    <3> QED BY <1>0, <3>1, RequestMaking
  <2> HIDE DEF Keeps
  <2>2. \A f \in Forges : status'[f] = "complete" => status[f] = "complete"
    BY <1>0, <1>3 DEF PutJob, TypeOK
  <2> QED BY <1>0, <1>3, <2>1, <2>2, WorldKept DEF PutJob, Keeps, ghosts
<1>4. ASSUME NEW t \in Threads, QueueFull(t) PROVE WorldInv'
  <2>1. Keeps
    <3>1. Set(t, Idle) /\ t # Worker
      BY <1>0, <1>4 DEF QueueFull, Done
    <3> HIDE DEF Set
    <3> QED BY <1>0, <3>1, RequestMaking
  <2> HIDE DEF Keeps
  <2>2. \A f \in Forges : status'[f] = "complete" => status[f] = "complete"
    BY <1>0, <1>4 DEF QueueFull, TypeOK
  <2> QED BY <1>0, <1>4, <2>1, <2>2, WorldKept DEF QueueFull, Keeps, ghosts
<1>5. ASSUME NEW a \in Actors, TouchSoul(a) PROVE WorldInv'
  <2>1. PICK b \in souls : Changes(a, b, "idle")
    BY <1>5 DEF TouchSoul
  <2>2. b \in Bots
    BY <1>0 DEF TypeOK
  <2>3. Keeps
    <3>1. CASE a # Worker
      BY <1>0, <2>1, <2>2, <3>1, ChangesFrame, SameMaking
    <3>2. CASE a = Worker
      <4>1. actors[Worker].forge = NoForge
        BY <1>0, <1>5, <3>2 DEF TouchSoul, At, Holds
      <4> QED BY <1>0, <2>1, <2>2, <3>2, <4>1, ChangesFrame, NotMaking
    <3> QED BY <3>1, <3>2
  <2> HIDE DEF Keeps
  <2>4. souls' = souls \cup {b}
    BY <2>1 DEF Changes
  <2> QED BY <1>5, <2>3, <2>4, WorldKept DEF TouchSoul, Keeps, ghosts
<1>6. ASSUME NEW a \in Actors, NameSoul(a) PROVE WorldInv'
  <2>0. PICK b \in Bots : Set(a, [Idle EXCEPT !.pc = "seed", !.bot = b])
    BY <1>6 DEF NameSoul
  <2>1. Keeps
    <3>1. CASE a # Worker
      BY <1>0, <2>0, <3>1, RequestMaking
    <3>2. CASE a = Worker
      <4>1. actors'[Worker] = [Idle EXCEPT !.pc = "seed", !.bot = b]
        BY <1>0, <2>0, <3>2, SetFrame
      <4>2. actors'[Worker].forge = NoForge
        BY <4>1 DEF Idle
      <4> QED BY <4>2, NotMaking
    <3> QED BY <3>1, <3>2
  <2> HIDE DEF Keeps
  <2> QED BY <1>6, <2>1, WorldKept DEF NameSoul, Keeps, ghosts
<1>7. ASSUME NEW a \in Actors, SeedSoul(a) PROVE WorldInv'
  <2>1. Bot(a) \in Bots /\ At(a, "seed")
    BY <1>0, <1>7 DEF SeedSoul, At, Bot, Holds, Handlers
  <2>2. souls \subseteq souls'
    BY <1>7 DEF SeedSoul, Changes
  <2>3. Keeps
    <3>1. CASE a # Worker /\ Bot(a) \in souls
      BY <1>0, <1>7, <3>1, RequestMaking DEF SeedSoul
    <3>2. CASE a # Worker /\ Bot(a) \notin souls
      <4>1. Changes(a, Bot(a), Seeded(a))
        BY <1>7, <3>2 DEF SeedSoul
      <4> QED BY <1>0, <2>1, <3>2, <4>1, ChangesFrame, SameMaking
    <3>3. CASE a = Worker
      <4>1. /\ actors'[Worker].pc = "document" /\ actors'[Worker].then = Seeded(Worker)
            /\ actors'[Worker].forge = actors[Worker].forge
            /\ actors'[Worker].bot = actors[Worker].bot
            /\ actors'[Worker].todo = actors[Worker].todo
        <5>1. CASE Bot(a) \in souls
          <6>1. actors'[Worker] = [actors[Worker] EXCEPT !.pc = "document", !.then = Seeded(Worker)]
            BY <1>0, <1>7, <3>3, <5>1, SetFrame DEF SeedSoul
          <6> QED BY <1>0, <6>1, OnFrame
        <5>2. CASE Bot(a) \notin souls
          <6>1. Changes(Worker, Bot(Worker), Seeded(Worker))
            BY <1>7, <3>3, <5>2 DEF SeedSoul
          <6> QED BY <1>0, <2>1, <3>3, <6>1, ChangesFrame DEF Bot
        <5> QED BY <5>1, <5>2
      <4> QED BY <2>1, <3>3, <4>1 DEF Making, Unshaped, Seeded, At, Bot
    <3> QED BY <3>1, <3>2, <3>3
  <2> HIDE DEF Keeps
  <2> QED BY <1>7, <2>2, <2>3, WorldKept DEF SeedSoul, Keeps
<1>8. ASSUME NEW a \in Actors, ReadSoul(a) PROVE WorldInv'
  <2>0. Set(a, [actors[a] EXCEPT !.pc = "write", !.current = TRUE])
    BY <1>8 DEF ReadSoul
  <2>1. Keeps
    <3>1. CASE a # Worker
      BY <1>0, <2>0, <3>1, RequestMaking
    <3>2. CASE a = Worker
      <4>0. actors'[Worker] = [actors[Worker] EXCEPT !.pc = "write", !.current = TRUE]
        BY <1>0, <2>0, <3>2, SetFrame
      <4>1. /\ actors'[Worker].pc = "write" /\ actors'[Worker].then = actors[Worker].then
            /\ actors'[Worker].forge = actors[Worker].forge
            /\ actors'[Worker].bot = actors[Worker].bot
            /\ actors'[Worker].todo = actors[Worker].todo
        BY <1>0, <4>0, OnFrame
      <4> QED BY <1>8, <3>2, <4>1 DEF ReadSoul, Making, Unshaped, At, Bot
    <3> QED BY <3>1, <3>2
  <2> HIDE DEF Keeps
  <2> QED BY <1>8, <2>1, WorldKept DEF ReadSoul, Keeps, ghosts
<1>9. ASSUME NEW a \in Actors, WriteDocument(a) PROVE WorldInv'
  <2>0. Set(a, Onward(a))
    BY <1>9 DEF WriteDocument
  <2>1. Keeps
    <3>1. CASE a # Worker
      BY <1>0, <2>0, <3>1, RequestMaking
    <3>2. CASE a = Worker /\ actors[a].then = "idle"
      BY <1>0, <2>0, <3>2, SetFrame, NotMaking DEF Onward
    <3>3. CASE a = Worker /\ actors[a].then # "idle"
      <4>0. actors'[Worker] = [actors[Worker] EXCEPT !.pc = actors[Worker].then, !.current = FALSE]
        BY <1>0, <2>0, <3>3, SetFrame DEF Onward
      <4>1. /\ actors'[Worker].pc = actors[Worker].then
            /\ actors'[Worker].forge = actors[Worker].forge
            /\ actors'[Worker].bot = actors[Worker].bot
            /\ actors'[Worker].todo = actors[Worker].todo
            /\ actors[Worker].then \in After
        BY <1>0, <4>0, OnFrame DEF Handlers
      <4> QED BY <1>9, <3>3, <4>1 DEF WriteDocument, Making, Unshaped, At, Bot, After
    <3> QED BY <3>1, <3>2, <3>3
  <2> HIDE DEF Keeps
  <2> QED BY <1>9, <2>1, WorldKept DEF WriteDocument, Keeps, ghosts
<1>10. ASSUME NEW a \in Actors, WriteFails(a) PROVE WorldInv'
  <2>1. Keeps
    <3>1. CASE a # Worker
      <4>1. PICK h : Set(a, h)
        BY <1>10 DEF WriteFails, Done
      <4> QED BY <1>0, <3>1, <4>1, RequestMaking
    <3>2. CASE a = Worker /\ actors[a].forge = NoForge
      BY <1>0, <1>10, <3>2, SetFrame, NotMaking DEF WriteFails, Done
    <3>3. CASE a = Worker /\ actors[a].forge # NoForge
      <4>1. actors'[Worker] = [actors[Worker] EXCEPT !.pc = "fail"]
        BY <1>0, <1>10, <3>3, SetFrame DEF WriteFails
      <4>2. actors'[Worker].pc = "fail"
        BY <1>0, <4>1, OnFrame
      <4> QED BY <4>2, NotMaking
    <3> QED BY <3>1, <3>2, <3>3
  <2> HIDE DEF Keeps
  <2> QED BY <1>10, <2>1, WorldKept DEF WriteFails, Keeps, ghosts
<1>11. ASSUME TakeForge PROVE WorldInv'
  <2>0. actors'[Worker] = [Idle EXCEPT !.pc = "activate", !.forge = Head(queue)]
    BY <1>0, <1>11, SetFrame DEF TakeForge, Done
  <2>1. Keeps
    BY <1>0, <2>0, NotMaking DEF Idle
  <2> HIDE DEF Keeps
  <2>2. \A f \in Forges : status'[f] = "complete" => status[f] = "complete"
    BY <1>0, <1>11 DEF TakeForge, TypeOK
  <2> QED BY <1>11, <2>1, <2>2, WorldKept DEF TakeForge, Keeps, ghosts
<1>12. ASSUME Activate PROVE WorldInv'
  <2>0. actors'[Worker] = [actors[Worker] EXCEPT !.pc = "next", !.todo = Founders]
    BY <1>0, <1>12, SetFrame DEF Activate
  <2>1. actors'[Worker].forge = actors[Worker].forge /\ actors'[Worker].todo = Founders
    BY <1>0, <2>0 DEF Handlers
  <2>2. ForgeInHand'
    BY <1>12, <2>1 DEF Activate, ForgeInHand, Unshaped
  <2>3. CompleteMeansReady'
    BY <1>12, CompanionsAssumption DEF Activate, WorldInv, CompleteMeansReady
  <2> QED BY <2>2, <2>3 DEF WorldInv
<1>13. ASSUME NextFounder PROVE WorldInv'
  <2>0. PICK b \in actors[Worker].todo :
           Set(Worker, [actors[Worker] EXCEPT !.pc = "seed", !.bot = b, !.todo = @ \ {b}])
    BY <1>13 DEF NextFounder
  <2>1. actors'[Worker] = [actors[Worker] EXCEPT !.pc = "seed", !.bot = b, !.todo = @ \ {b}]
    BY <1>0, <2>0, SetFrame
  <2>2. /\ actors'[Worker].pc = "seed" /\ actors'[Worker].bot = b
        /\ actors'[Worker].todo = actors[Worker].todo \ {b}
        /\ actors'[Worker].forge = actors[Worker].forge
    BY <1>0, <2>1 DEF Handlers
  <2>3. Keeps
    BY <1>13, <2>2 DEF NextFounder, Making, Unshaped, At, Bot
  <2> HIDE DEF Keeps
  <2> QED BY <1>13, <2>3, WorldKept DEF NextFounder, Keeps, ghosts
<1>14. ASSUME ShapeSoul PROVE WorldInv'
  <2>1. /\ Bot(Worker) \in Bots /\ At(Worker, "shape")
        /\ Changes(Worker, Bot(Worker), "guide")
    BY <1>0, <1>14 DEF ShapeSoul, At, Bot, Holds, TypeOK
  <2>2. /\ actors'[Worker].pc = "document" /\ actors'[Worker].then = "guide"
        /\ actors'[Worker].forge = actors[Worker].forge
        /\ actors'[Worker].todo = actors[Worker].todo
        /\ souls' = souls \cup {Bot(Worker)} /\ shaped' = shaped \cup {Bot(Worker)}
        /\ UNCHANGED <<world, status, bindings>>
    BY <1>0, <1>14, <2>1, ChangesFrame DEF ShapeSoul
  <2>3. Unshaped' = actors[Worker].todo /\ Unshaped = actors[Worker].todo \cup {Bot(Worker)}
    BY <2>1, <2>2 DEF Unshaped, At
  <2>4. ForgeInHand'
    BY <2>1, <2>2, <2>3 DEF WorldInv, ForgeInHand, Making, At
  <2>5. CompleteMeansReady'
    BY <2>2 DEF WorldInv, CompleteMeansReady
  <2> QED BY <2>4, <2>5 DEF WorldInv
<1>15. ASSUME GuideSoul PROVE WorldInv'
  <2>1. Bot(Worker) \in Bots /\ At(Worker, "guide")
    BY <1>0, <1>15 DEF GuideSoul, At, Bot, Holds, TypeOK
  <2>2. souls \subseteq souls'
    BY <1>15 DEF GuideSoul, Changes
  <2>3. Keeps
    <3>1. CASE Changes(Worker, Bot(Worker), "next")
      <4>1. /\ actors'[Worker].pc = "document" /\ actors'[Worker].then = "next"
            /\ actors'[Worker].forge = actors[Worker].forge
            /\ actors'[Worker].todo = actors[Worker].todo
        BY <1>0, <2>1, <3>1, ChangesFrame
      <4> QED BY <2>1, <4>1 DEF Making, Unshaped, At
    <3>2. CASE Set(Worker, [actors[Worker] EXCEPT !.pc = "next"])
      <4>1. actors'[Worker] = [actors[Worker] EXCEPT !.pc = "next"]
        BY <1>0, <3>2, SetFrame
      <4>2. /\ actors'[Worker].pc = "next"
            /\ actors'[Worker].forge = actors[Worker].forge
            /\ actors'[Worker].todo = actors[Worker].todo
        BY <1>0, <4>1, OnFrame
      <4> QED BY <2>1, <4>2 DEF Making, Unshaped, At
    <3> QED BY <1>15, <3>1, <3>2 DEF GuideSoul
  <2> HIDE DEF Keeps
  <2> QED BY <1>15, <2>2, <2>3, WorldKept DEF GuideSoul, Keeps, ghosts
<1>16. ASSUME CompleteForge PROVE WorldInv'
  <2>0. actors'[Worker] = Idle /\ UNCHANGED <<world, bindings, souls, shaped>>
    BY <1>0, <1>16, SetFrame DEF CompleteForge, Done
  <2>1. ForgeInHand'
    BY <1>0, <2>0 DEF ForgeInHand, Making
  <2>2. actors[Worker].forge # NoForge /\ Making
    BY <1>0, <1>16 DEF CompleteForge, Holds, Making, At
  <2>3. Unshaped = {}
    BY <1>16 DEF CompleteForge, Unshaped, At
  <2>4. /\ world = actors[Worker].forge
        /\ Founders \subseteq bindings \cap souls \cap shaped
    BY <2>2, <2>3 DEF WorldInv, ForgeInHand
  <2>5. CompleteMeansReady'
    BY <1>0, <1>16, <2>0, <2>4 DEF CompleteForge, WorldInv, CompleteMeansReady, TypeOK
  <2> QED BY <2>1, <2>5 DEF WorldInv
<1>17. ASSUME ForgeFails PROVE WorldInv'
  <2>0. actors'[Worker] = [actors[Worker] EXCEPT !.pc = "fail"]
    BY <1>0, <1>17, SetFrame DEF ForgeFails, Done
  <2>1. Keeps
    BY <1>0, <2>0, OnFrame, NotMaking
  <2> HIDE DEF Keeps
  <2>2. \A f \in Forges : status'[f] = "complete" => status[f] = "complete"
    BY <1>0, <1>17 DEF ForgeFails, TypeOK
  <2> QED BY <1>17, <2>1, <2>2, WorldKept DEF ForgeFails, Keeps, ghosts
<1>18. ASSUME ReportFailure PROVE WorldInv'
  <2>0. actors'[Worker] = Idle
    BY <1>0, <1>18, SetFrame DEF ReportFailure, Done
  <2>1. Keeps
    BY <1>0, <2>0, NotMaking
  <2> HIDE DEF Keeps
  <2>2. \A f \in Forges : status'[f] = "complete" => status[f] = "complete"
    BY <1>0, <1>18 DEF ReportFailure, TypeOK
  <2> QED BY <1>18, <2>1, <2>2, WorldKept DEF ReportFailure, Keeps, ghosts
<1>19. ASSUME WorkerDies PROVE WorldInv'
  <2>0. actors'[Worker] = [Idle EXCEPT !.pc = "dead"]
    BY <1>0, <1>19, SetFrame DEF WorkerDies, Done
  <2>1. Keeps
    BY <1>0, <2>0, NotMaking DEF Idle
  <2> HIDE DEF Keeps
  <2>2. \A f \in Forges : status'[f] = "complete" => status[f] = "complete"
    BY <1>0, <1>19 DEF WorkerDies, TypeOK
  <2> QED BY <1>19, <2>1, <2>2, WorldKept DEF WorkerDies, Keeps, ghosts
<1>20. ASSUME Restart PROVE WorldInv'
  <2>1. Keeps
    BY <1>0, <1>20, NotMaking DEF Restart
  <2> HIDE DEF Keeps
  <2> QED BY <1>20, <2>1, WorldKept DEF Restart, Keeps
<1>21. CASE UNCHANGED vars
  <2>1. Keeps
    BY <1>21, SameMaking DEF vars, ghosts
  <2> HIDE DEF Keeps
  <2> QED BY <1>21, <2>1, WorldKept DEF vars, ghosts, Keeps
<1> QED BY <1>1, <1>2, <1>3, <1>4, <1>5, <1>6, <1>7, <1>8, <1>9, <1>10, <1>11, <1>12,
           <1>13, <1>14, <1>15, <1>16, <1>17, <1>18, <1>19, <1>20, <1>21
   DEF Next, Requests, Souls, Document, Forging


----------------------------------------------------------------------------
(* Companions without a soul.                                              *)

\* They stay in somebody's hands, or the failure is on record, or they get it.
LEMMA SeedingKept ==
    ASSUME BoundHasSoul, bindings' = bindings, souls \subseteq souls',
           unsown \subseteq unsown' \cup souls',
           \A x \in Actors : Unseeded(x) \subseteq Unseeded(x)' \cup souls' \cup unsown'
    PROVE  BoundHasSoul'
BY DEF BoundHasSoul

\* It is enough to look at the one actor that goes on.
LEMMA SeedingOfOne ==
    ASSUME TypeOK, NEW a \in Actors, NEW h, Set(a, h), souls \subseteq souls',
           Unseeded(a) \subseteq h.todo \cup {h.bot} \cup souls' \cup unsown'
    PROVE  \A x \in Actors : Unseeded(x) \subseteq Unseeded(x)' \cup souls' \cup unsown'
<1>1. actors'[a] = h /\ \A x \in Actors : x # a => actors'[x] = actors[x]
  BY SetFrame
<1> QED BY <1>1 DEF Unseeded, Bot

\* Nor does a change of a soul matter, if nobody was at hand before.
LEMMA SeedingOfChange ==
    ASSUME TypeOK, NEW a \in Actors, NEW b \in Bots, NEW t, Changes(a, b, t),
           Bot(a) \in {b, Nobody}
    PROVE  \A x \in Actors : Unseeded(x) \subseteq Unseeded(x)' \cup souls' \cup unsown'
BY ChangesFrame DEF Unseeded, Bot

\* Every step keeps the companions in the hands of somebody who seeds them.
LEMMA SeedingStep == TypeInv /\ BoundHasSoul /\ [Next]_vars => BoundHasSoul'
<1> SUFFICES ASSUME TypeInv, BoundHasSoul, [Next]_vars PROVE BoundHasSoul'
  OBVIOUS
<1> USE ActorsOfTwoKinds
<1>0. /\ TypeOK
      /\ \A a \in Actors : actors[a] \in Handlers /\ Holds(actors[a], souls)
      /\ Idle.bot = Nobody
  BY DEF TypeInv, TypeOK, Holding, Idle
<1> DEFINE Keeps == \A x \in Actors : Unseeded(x) \subseteq Unseeded(x)' \cup souls' \cup unsown'

<1>1. ASSUME NEW t \in Threads, Promote(t) PROVE BoundHasSoul'
  <2>0. PICK b \in Bots : /\ bindings' = bindings \cup {b}
                          /\ Set(t, [Idle EXCEPT !.pc = "seed", !.bot = b])
    BY <1>1 DEF Promote
  <2>1. /\ actors'[t] = [Idle EXCEPT !.pc = "seed", !.bot = b]
        /\ \A x \in Actors : x # t => actors'[x] = actors[x]
    BY <1>0, <2>0, SetFrame
  <2>2. actors'[t].bot = b
    BY <2>1 DEF Idle
  <2>3. Unseeded(t) = {} /\ souls' = souls /\ unsown' = unsown
    BY <1>0, <1>1 DEF Promote, At, Holds, Unseeded, Bot, ghosts
  <2>4. b \in souls' \/ b \in Unseeded(t)'
    BY <2>2, CompanionsAssumption DEF Unseeded, Bot
  <2>5. \A x \in Actors : Unseeded(x) \subseteq Unseeded(x)'
    BY <2>1, <2>3 DEF Unseeded, Bot
  <2> QED BY <2>0, <2>3, <2>4, <2>5 DEF BoundHasSoul
<1>2. ASSUME NEW t \in Threads, CreateForgeJob(t) PROVE BoundHasSoul'
  <2>0. PICK f \in Forges : Set(t, [Idle EXCEPT !.pc = "put", !.forge = f])
    BY <1>2 DEF CreateForgeJob
  <2>1. Set(t, [Idle EXCEPT !.pc = "put", !.forge = f])
    BY <1>2, <2>0 DEF CreateForgeJob, Done
  <2>2. Unseeded(t) = {}
    BY <1>0, <1>2 DEF CreateForgeJob, At, Holds, Unseeded, Bot
  <2>3. Keeps
    BY <1>0, <1>2, <2>1, <2>2, SeedingOfOne DEF CreateForgeJob
  <2> HIDE DEF Keeps
  <2> QED BY <1>2, <2>3, SeedingKept DEF CreateForgeJob, Keeps, ghosts
<1>3. ASSUME NEW t \in Threads, PutJob(t) PROVE BoundHasSoul'
  <2>1. Set(t, Idle)
    BY <1>3 DEF PutJob, Done
  <2>2. Unseeded(t) = {}
    BY <1>0, <1>3 DEF PutJob, At, Holds, Unseeded, Bot
  <2>3. Keeps
    BY <1>0, <1>3, <2>1, <2>2, SeedingOfOne DEF PutJob
  <2> HIDE DEF Keeps
  <2> QED BY <1>3, <2>3, SeedingKept DEF PutJob, Keeps, ghosts
<1>4. ASSUME NEW t \in Threads, QueueFull(t) PROVE BoundHasSoul'
  <2>1. Set(t, Idle)
    BY <1>4 DEF QueueFull, Done
  <2>2. Unseeded(t) = {}
    BY <1>0, <1>4 DEF QueueFull, At, Holds, Unseeded, Bot
  <2>3. Keeps
    BY <1>0, <1>4, <2>1, <2>2, SeedingOfOne DEF QueueFull
  <2> HIDE DEF Keeps
  <2> QED BY <1>4, <2>3, SeedingKept DEF QueueFull, Keeps, ghosts
<1>5. ASSUME NEW a \in Actors, TouchSoul(a) PROVE BoundHasSoul'
  <2>1. PICK b \in souls : Changes(a, b, "idle")
    BY <1>5 DEF TouchSoul
  <2>2. b \in Bots /\ Bot(a) = Nobody
    BY <1>0, <1>5 DEF TouchSoul, At, Bot, Holds, TypeOK
  <2>3. Keeps
    BY <1>0, <2>1, <2>2, SeedingOfChange
  <2> HIDE DEF Keeps
  <2>4. souls \subseteq souls'
    BY <2>1 DEF Changes
  <2> QED BY <1>5, <2>3, <2>4, SeedingKept DEF TouchSoul, Keeps, ghosts
<1>6. ASSUME NEW a \in Actors, NameSoul(a) PROVE BoundHasSoul'
  <2>0. PICK b \in Bots : Set(a, [Idle EXCEPT !.pc = "seed", !.bot = b])
    BY <1>6 DEF NameSoul
  <2>1. Set(a, [Idle EXCEPT !.pc = "seed", !.bot = b])
    BY <1>6, <2>0 DEF NameSoul, Done
  <2>2. Unseeded(a) = {}
    BY <1>0, <1>6 DEF NameSoul, At, Holds, Unseeded, Bot
  <2>3. Keeps
    BY <1>0, <1>6, <2>1, <2>2, SeedingOfOne DEF NameSoul
  <2> HIDE DEF Keeps
  <2> QED BY <1>6, <2>3, SeedingKept DEF NameSoul, Keeps, ghosts
<1>7. ASSUME NEW a \in Actors, SeedSoul(a) PROVE BoundHasSoul'
  <2>1. Bot(a) \in Bots
    BY <1>0, <1>7 DEF SeedSoul, At, Bot, Holds, Handlers
  <2>2. souls' = souls \cup {Bot(a)}
    BY <1>7 DEF SeedSoul, Changes
  <2>3. Keeps
    <3>1. CASE Bot(a) \in souls
      <4> DEFINE h == [actors[a] EXCEPT !.pc = "document", !.then = Seeded(a)]
      <4>1. h.todo = actors[a].todo /\ h.bot = actors[a].bot
        BY <1>0, OnFrame
      <4>2. Set(a, h)
        BY <1>7, <3>1 DEF SeedSoul
      <4> HIDE DEF h
      <4> QED BY <1>0, <2>2, <4>1, <4>2, SeedingOfOne DEF Unseeded, Bot
    <3>2. CASE Bot(a) \notin souls
      BY <1>0, <1>7, <2>1, <3>2, SeedingOfChange DEF SeedSoul
    <3> QED BY <3>1, <3>2
  <2> HIDE DEF Keeps
  <2>4. unsown \subseteq unsown' \cup souls'
    BY <1>7, <2>2 DEF SeedSoul
  <2> QED BY <1>7, <2>2, <2>3, <2>4, SeedingKept DEF SeedSoul, Keeps
<1>8. ASSUME NEW a \in Actors, ReadSoul(a) PROVE BoundHasSoul'
  <2>1. Set(a, [actors[a] EXCEPT !.pc = "write", !.current = TRUE])
    BY <1>8 DEF ReadSoul
  <2> DEFINE h == [actors[a] EXCEPT !.pc = "write", !.current = TRUE]
  <2>2. h.todo = actors[a].todo /\ h.bot = actors[a].bot
    BY <1>0, OnFrame
  <2> HIDE DEF h
  <2>3. Unseeded(a) \subseteq h.todo \cup {h.bot}
    BY <2>2 DEF Unseeded, Bot
  <2>4. Set(a, h) /\ souls' = souls
    BY <1>8, <2>1 DEF ReadSoul, h
  <2>5. Keeps
    BY <1>0, <2>3, <2>4, SeedingOfOne
  <2> HIDE DEF Keeps
  <2> QED BY <1>8, <2>5, SeedingKept DEF ReadSoul, Keeps, ghosts
<1>9. ASSUME NEW a \in Actors, WriteDocument(a) PROVE BoundHasSoul'
  <2>0. Set(a, Onward(a))
    BY <1>9 DEF WriteDocument, Done
  <2>1. Keeps
    <3>1. CASE actors[a].then = "idle"
      <4>1. Unseeded(a) = {}
        BY <1>0, <1>9, <3>1 DEF WriteDocument, At, Holds, Unseeded, Bot
      <4> QED BY <1>0, <1>9, <2>0, <4>1, SeedingOfOne DEF WriteDocument
    <3>2. CASE ~(actors[a].then = "idle")
      <4> DEFINE h == [actors[a] EXCEPT !.pc = actors[a].then, !.current = FALSE]
      <4>1. h.todo = actors[a].todo /\ h.bot = actors[a].bot
        BY <1>0, OnFrame
      <4>2. Set(a, h) /\ souls' = souls
        BY <1>9, <3>2 DEF WriteDocument, Onward
      <4> HIDE DEF h
      <4> QED BY <1>0, <4>1, <4>2, SeedingOfOne DEF Unseeded, Bot
    <3> QED BY <3>1, <3>2
  <2> HIDE DEF Keeps
  <2> QED BY <1>9, <2>1, SeedingKept DEF WriteDocument, Keeps
<1>10. ASSUME NEW a \in Actors, WriteFails(a) PROVE BoundHasSoul'
  <2>0. Set(a, IF actors[a].forge = NoForge THEN Idle ELSE [actors[a] EXCEPT !.pc = "fail"])
    BY <1>10 DEF WriteFails, Done
  <2>1. Keeps
    <3>1. CASE actors[a].forge = NoForge
      <4>1. Unseeded(a) = {}
        BY <1>0, <1>10, <3>1 DEF WriteFails, At, Holds, Unseeded, Bot
      <4> QED BY <1>0, <1>10, <2>0, <4>1, SeedingOfOne DEF WriteFails
    <3>2. CASE ~(actors[a].forge = NoForge)
      <4> DEFINE h == [actors[a] EXCEPT !.pc = "fail"]
      <4>1. h.todo = actors[a].todo /\ h.bot = actors[a].bot
        BY <1>0, OnFrame
      <4>2. Set(a, h) /\ souls' = souls
        BY <1>10, <3>2 DEF WriteFails, Onward
      <4> HIDE DEF h
      <4> QED BY <1>0, <4>1, <4>2, SeedingOfOne DEF Unseeded, Bot
    <3> QED BY <3>1, <3>2
  <2> HIDE DEF Keeps
  <2> QED BY <1>10, <2>1, SeedingKept DEF WriteFails, Keeps
<1>11. ASSUME TakeForge PROVE BoundHasSoul'
  <2>1. Set(Worker, [Idle EXCEPT !.pc = "activate", !.forge = Head(queue)])
    BY <1>11 DEF TakeForge, Done
  <2>2. Unseeded(Worker) = {}
    BY <1>0, <1>11 DEF TakeForge, At, Holds, Unseeded, Bot
  <2>3. Keeps
    BY <1>0, <1>11, <2>1, <2>2, SeedingOfOne DEF TakeForge
  <2> HIDE DEF Keeps
  <2> QED BY <1>11, <2>3, SeedingKept DEF TakeForge, Keeps, ghosts
<1>12. ASSUME Activate PROVE BoundHasSoul'
  <2>1. /\ actors'[Worker] = [actors[Worker] EXCEPT !.pc = "next", !.todo = Founders]
        /\ \A x \in Actors : x # Worker => actors'[x] = actors[x]
    BY <1>0, <1>12, SetFrame DEF Activate
  <2>2. actors'[Worker].todo = Founders
    BY <1>0, <2>1 DEF Handlers
  <2>3. Unseeded(Worker) = {} /\ UNCHANGED <<souls, unsown>>
    BY <1>0, <1>12 DEF Activate, At, Holds, Unseeded, Bot, ghosts
  <2>4. Founders \subseteq souls' \cup Unseeded(Worker)'
    BY <2>2, CompanionsAssumption DEF Unseeded
  <2>5. \A x \in Actors : Unseeded(x) \subseteq Unseeded(x)'
    BY <2>1, <2>3 DEF Unseeded, Bot
  <2>6. bindings' = bindings \cup Founders
    BY <1>12 DEF Activate
  <2> QED BY <2>3, <2>4, <2>5, <2>6 DEF BoundHasSoul
<1>13. ASSUME NextFounder PROVE BoundHasSoul'
  <2>0. PICK b \in actors[Worker].todo :
           Set(Worker, [actors[Worker] EXCEPT !.pc = "seed", !.bot = b, !.todo = @ \ {b}])
    BY <1>13 DEF NextFounder
  <2> DEFINE h == [actors[Worker] EXCEPT !.pc = "seed", !.bot = b, !.todo = @ \ {b}]
  <2>1. h.bot = b /\ h.todo = actors[Worker].todo \ {b}
    BY <1>0 DEF Handlers
  <2>2. Set(Worker, h) /\ souls' = souls /\ Bot(Worker) \in souls \cup {Nobody}
    BY <1>0, <1>13, <2>0 DEF NextFounder, At, Holds, Bot
  <2> HIDE DEF h
  <2>3. Keeps
    BY <1>0, <2>1, <2>2, SeedingOfOne DEF Unseeded
  <2> HIDE DEF Keeps
  <2> QED BY <1>13, <2>3, SeedingKept DEF NextFounder, Keeps, ghosts
<1>14. ASSUME ShapeSoul PROVE BoundHasSoul'
  <2>1. Bot(Worker) \in Bots /\ Changes(Worker, Bot(Worker), "guide")
    BY <1>0, <1>14 DEF ShapeSoul, At, Bot, Holds, TypeOK
  <2>2. Keeps
    BY <1>0, <2>1, SeedingOfChange
  <2> HIDE DEF Keeps
  <2>3. souls \subseteq souls'
    BY <2>1 DEF Changes
  <2> QED BY <1>14, <2>2, <2>3, SeedingKept DEF ShapeSoul, Keeps, ghosts
<1>15. ASSUME GuideSoul PROVE BoundHasSoul'
  <2>1. Bot(Worker) \in Bots
    BY <1>0, <1>15 DEF GuideSoul, At, Bot, Holds, TypeOK
  <2>2. souls \subseteq souls'
    BY <1>15 DEF GuideSoul, Changes
  <2>3. Keeps
    <3>1. CASE Changes(Worker, Bot(Worker), "next")
      BY <1>0, <2>1, <3>1, SeedingOfChange
    <3>2. CASE Set(Worker, [actors[Worker] EXCEPT !.pc = "next"])
      <4> DEFINE h == [actors[Worker] EXCEPT !.pc = "next"]
      <4>1. h.todo = actors[Worker].todo /\ h.bot = actors[Worker].bot /\ Set(Worker, h)
        BY <1>0, <3>2, OnFrame
      <4> HIDE DEF h
      <4> QED BY <1>0, <2>2, <4>1, SeedingOfOne DEF Unseeded, Bot
    <3> QED BY <1>15, <3>1, <3>2 DEF GuideSoul
  <2> HIDE DEF Keeps
  <2> QED BY <1>15, <2>2, <2>3, SeedingKept DEF GuideSoul, Keeps, ghosts
<1>16. ASSUME CompleteForge PROVE BoundHasSoul'
  <2>1. Set(Worker, Idle)
    BY <1>16 DEF CompleteForge, Done
  <2>2. Unseeded(Worker) = {}
    BY <1>0, <1>16 DEF CompleteForge, At, Holds, Unseeded, Bot
  <2>3. Keeps
    BY <1>0, <1>16, <2>1, <2>2, SeedingOfOne DEF CompleteForge
  <2> HIDE DEF Keeps
  <2> QED BY <1>16, <2>3, SeedingKept DEF CompleteForge, Keeps, ghosts
<1>17. ASSUME ForgeFails PROVE BoundHasSoul'
  <2>1. Set(Worker, [actors[Worker] EXCEPT !.pc = "fail"])
    BY <1>17 DEF ForgeFails
  <2> DEFINE h == [actors[Worker] EXCEPT !.pc = "fail"]
  <2>2. h.todo = actors[Worker].todo /\ h.bot = actors[Worker].bot
    BY <1>0, OnFrame
  <2> HIDE DEF h
  <2>3. Unseeded(Worker) \subseteq h.todo \cup {h.bot}
    BY <2>2 DEF Unseeded, Bot
  <2>4. Set(Worker, h) /\ souls' = souls
    BY <1>17, <2>1 DEF ForgeFails, h
  <2>5. Keeps
    BY <1>0, <2>3, <2>4, SeedingOfOne
  <2> HIDE DEF Keeps
  <2> QED BY <1>17, <2>5, SeedingKept DEF ForgeFails, Keeps, ghosts
<1>18. ASSUME ReportFailure PROVE BoundHasSoul'
  <2>1. Set(Worker, Idle) /\ souls' = souls /\ Unseeded(Worker) \subseteq unsown'
    BY <1>18 DEF ReportFailure, Done
  <2>2. Keeps
    BY <1>0, <2>1, SeedingOfOne
  <2> HIDE DEF Keeps
  <2> QED BY <1>18, <2>2, SeedingKept DEF ReportFailure, Keeps
<1>19. ASSUME WorkerDies PROVE BoundHasSoul'
  <2>1. Set(Worker, [Idle EXCEPT !.pc = "dead"]) /\ souls' = souls /\ Unseeded(Worker) \subseteq unsown'
    BY <1>19 DEF WorkerDies, Done
  <2>2. Keeps
    BY <1>0, <2>1, SeedingOfOne
  <2> HIDE DEF Keeps
  <2> QED BY <1>19, <2>2, SeedingKept DEF WorkerDies, Keeps
<1>20. ASSUME Restart PROVE BoundHasSoul'
  <2>1. Keeps
    BY <1>20 DEF Restart
  <2> HIDE DEF Keeps
  <2> QED BY <1>20, <2>1, SeedingKept DEF Restart, Keeps
<1>21. CASE UNCHANGED vars
  BY <1>21 DEF vars, BoundHasSoul, Unseeded, Bot, ghosts
<1> QED BY <1>1, <1>2, <1>3, <1>4, <1>5, <1>6, <1>7, <1>8, <1>9, <1>10, <1>11, <1>12,
           <1>13, <1>14, <1>15, <1>16, <1>17, <1>18, <1>19, <1>20, <1>21
   DEF Next, Requests, Souls, Document, Forging

----------------------------------------------------------------------------
(* The refinement of WorldForging.                                         *)

\* What the queue's two ends do to it.
LEMMA QueueEnds ==
    ASSUME queue \in Seq(Forges)
    PROVE  /\ DOMAIN queue = 1 .. Len(queue) /\ Len(queue) \in Nat
           /\ \A f \in Forges :
                 /\ DOMAIN Append(queue, f) = 1 .. Len(queue) + 1
                 /\ \A i \in DOMAIN queue : Append(queue, f)[i] = queue[i]
                 /\ Append(queue, f)[Len(queue) + 1] = f
           /\ queue # <<>> =>
                 /\ 1 \in DOMAIN queue /\ Head(queue) = queue[1] /\ Head(queue) \in Forges
                 /\ DOMAIN Tail(queue) = 1 .. Len(queue) - 1
                 /\ \A i \in DOMAIN Tail(queue) :
                       i + 1 \in DOMAIN queue /\ Tail(queue)[i] = queue[i + 1]
<1>1. DOMAIN queue = 1 .. Len(queue) /\ Len(queue) \in Nat
  OBVIOUS
<1>2. ASSUME NEW f \in Forges
      PROVE  /\ DOMAIN Append(queue, f) = 1 .. Len(queue) + 1
             /\ \A i \in DOMAIN queue : Append(queue, f)[i] = queue[i]
             /\ Append(queue, f)[Len(queue) + 1] = f
  OBVIOUS
<1>3. ASSUME queue # <<>>
      PROVE  /\ 1 \in DOMAIN queue /\ Head(queue) = queue[1] /\ Head(queue) \in Forges
             /\ DOMAIN Tail(queue) = 1 .. Len(queue) - 1
             /\ \A i \in DOMAIN Tail(queue) :
                   i + 1 \in DOMAIN queue /\ Tail(queue)[i] = queue[i + 1]
  BY <1>3
<1> QED BY <1>1, <1>2, <1>3

\* Every step keeps each forge in one place, with the status of that place.
LEMMA HeldOnceStep == TypeInv /\ HeldOnce /\ [Next]_vars => HeldOnce'
<1> SUFFICES ASSUME TypeInv, HeldOnce, [Next]_vars PROVE HeldOnce'
  OBVIOUS
<1> USE ActorsOfTwoKinds, CompanionsAssumption
<1>0. /\ TypeOK /\ queue \in Seq(Forges) /\ status \in [Forges -> {"none", "queued", "running", "complete", "failed"}]
      /\ \A a \in Actors : /\ actors[a] \in Handlers /\ Holds(actors[a], souls)
                           /\ actors[a].forge \in Forges \cup {NoForge}
      /\ Idle.forge = NoForge
      /\ \A i \in DOMAIN queue : queue[i] \in Forges
  BY DEF TypeInv, TypeOK, Holding, Idle, Handlers

<1>1. ASSUME NEW t \in Threads, CreateForgeJob(t) PROVE HeldOnce'
  <2>1. PICK f \in Forges : /\ status[f] = "none"
                            /\ status' = [status EXCEPT ![f] = "queued"]
                            /\ Set(t, [Idle EXCEPT !.pc = "put", !.forge = f])
    BY <1>1 DEF CreateForgeJob
  <2>2. /\ actors'[t].forge = f
        /\ \A x \in Actors : x # t => actors'[x] = actors[x]
    <3>1. [Idle EXCEPT !.pc = "put", !.forge = f].forge = f
      BY DEF Idle
    <3> QED BY <1>0, <2>1, <3>1, SetFrame
  <2>3. /\ \A i \in DOMAIN queue : queue[i] # f
        /\ \A x \in Actors : actors[x].forge # f
    BY <2>1 DEF HeldOnce, Actors
  <2>4. /\ status'[f] = "queued" /\ queue' = queue
        /\ \A g \in Forges : g # f => status'[g] = status[g]
    BY <1>0, <1>1, <2>1 DEF CreateForgeJob
  <2> QED BY <1>0, <2>2, <2>3, <2>4 DEF HeldOnce
<1>2. ASSUME NEW t \in Threads, PutJob(t) PROVE HeldOnce'
  <2> DEFINE f == actors[t].forge
  <2>1. f \in Forges /\ status[f] = "queued" /\ \A i \in DOMAIN queue : queue[i] # f
    BY <1>0, <1>2 DEF PutJob, At, Holds, HeldOnce
  <2>2. /\ actors'[t].forge = NoForge /\ UNCHANGED status
        /\ \A x \in Actors : x # t => actors'[x] = actors[x]
    BY <1>0, <1>2, SetFrame DEF PutJob, Done
  <2>3. queue' = Append(queue, f)
    BY <1>2 DEF PutJob
  <2>4. \A i \in DOMAIN queue' : \/ i \in DOMAIN queue /\ queue'[i] = queue[i]
                                 \/ i = Len(queue) + 1 /\ queue'[i] = f
    <3>1. /\ DOMAIN queue' = 1 .. Len(queue) + 1 /\ DOMAIN queue = 1 .. Len(queue)
          /\ Len(queue) \in Nat
      BY <1>0, <2>1, <2>3, QueueEnds
    <3>2. \A i \in DOMAIN queue' : i \in DOMAIN queue \/ i = Len(queue) + 1
      BY <3>1
    <3> QED BY <1>0, <2>1, <2>3, <3>2, QueueEnds
  <2>5. \A u \in Threads : actors[u].forge = f => u = t
    BY <2>1 DEF HeldOnce
  <2>6. actors[Worker].forge # f
    BY <2>1 DEF HeldOnce
  <2> HIDE DEF f
  <2>7. \A i \in DOMAIN queue' : status'[queue'[i]] = "queued"
    BY <2>1, <2>2, <2>4 DEF HeldOnce
  <2>8. \A i, j \in DOMAIN queue' : queue'[i] = queue'[j] => i = j
    BY <2>1, <2>4 DEF HeldOnce
  <2>9. ASSUME NEW u \in Threads, actors'[u].forge # NoForge
        PROVE  /\ status'[actors'[u].forge] = "queued"
               /\ \A i \in DOMAIN queue' : queue'[i] # actors'[u].forge
               /\ \A v \in Threads : actors'[v].forge = actors'[u].forge => v = u
    <3>1. u # t /\ actors'[u] = actors[u]
      BY <2>2, <2>9
    <3>2. actors[u].forge # f
      BY <2>5, <3>1
    <3> QED BY <2>2, <2>4, <2>9, <3>1, <3>2 DEF HeldOnce
  <2>10. actors'[Worker].forge # NoForge => status'[actors'[Worker].forge] = "running"
    BY <2>2 DEF HeldOnce
  <2> QED BY <2>7, <2>8, <2>9, <2>10 DEF HeldOnce
<1>3. ASSUME NEW t \in Threads, QueueFull(t) PROVE HeldOnce'
  <2>1. /\ actors'[t].forge = NoForge /\ UNCHANGED <<status, queue>>
        /\ \A x \in Actors : x # t => actors'[x] = actors[x]
    BY <1>0, <1>3, SetFrame DEF QueueFull, Done
  <2> QED BY <2>1 DEF HeldOnce
<1>4. ASSUME TakeForge PROVE HeldOnce'
  <2> DEFINE f == Head(queue)
  <2>1. /\ f = queue[1] /\ 1 \in DOMAIN queue /\ f \in Forges /\ queue' = Tail(queue)
        /\ \A i \in DOMAIN queue' : i + 1 \in DOMAIN queue /\ queue'[i] = queue[i + 1]
        /\ \A i \in DOMAIN queue' : i \in Nat /\ i >= 1
    BY <1>0, <1>4, QueueEnds DEF TakeForge
  <2>2. /\ actors'[Worker].forge = f
        /\ \A x \in Actors : x # Worker => actors'[x] = actors[x]
    <3>1. [Idle EXCEPT !.pc = "activate", !.forge = f].forge = f
      BY DEF Idle
    <3>2. Set(Worker, [Idle EXCEPT !.pc = "activate", !.forge = f])
      BY <1>4 DEF TakeForge
    <3> HIDE DEF f
    <3> QED BY <1>0, <3>1, <3>2, SetFrame
  <2>3. status'[f] = "running" /\ \A g \in Forges : g # f => status'[g] = status[g]
    BY <1>0, <1>4, <2>1 DEF TakeForge
  <2> HIDE DEF f
  <2>4. \A i \in DOMAIN queue' : queue'[i] # f
    <3>1. \A i \in DOMAIN queue' : i + 1 # 1
      BY <2>1
    <3> QED BY <2>1, <3>1 DEF HeldOnce
  <2>5. \A i \in DOMAIN queue' : status'[queue'[i]] = "queued"
    BY <1>0, <2>1, <2>3, <2>4 DEF HeldOnce
  <2>6. \A i, j \in DOMAIN queue' : queue'[i] = queue'[j] => i = j
    <3>1. \A i, j \in DOMAIN queue' : queue'[i] = queue'[j] => i + 1 = j + 1
      BY <2>1 DEF HeldOnce
    <3> QED BY <2>1, <3>1
  <2>7. ASSUME NEW u \in Threads, actors'[u].forge # NoForge
        PROVE  /\ status'[actors'[u].forge] = "queued"
               /\ \A i \in DOMAIN queue' : queue'[i] # actors'[u].forge
               /\ \A v \in Threads : actors'[v].forge = actors'[u].forge => v = u
    <3>1. \A v \in Threads : actors'[v] = actors[v]
      BY <2>2
    <3>2. actors[u].forge # f /\ actors[u].forge \in Forges
      BY <1>0, <2>1, <2>7, <3>1 DEF HeldOnce
    <3> QED BY <2>1, <2>3, <2>7, <3>1, <3>2 DEF HeldOnce
  <2> QED BY <2>2, <2>3, <2>5, <2>6, <2>7 DEF HeldOnce
<1>5. ASSUME CompleteForge \/ ReportFailure \/ WorkerDies PROVE HeldOnce'
  <2> DEFINE f == actors[Worker].forge
  <2>1. /\ actors'[Worker].forge = NoForge /\ queue' = queue
        /\ \A x \in Actors : x # Worker => actors'[x] = actors[x]
    <3>1. CASE CompleteForge \/ ReportFailure
      BY <1>0, <3>1, SetFrame DEF CompleteForge, ReportFailure, Done
    <3>2. CASE WorkerDies
      <4>1. [Idle EXCEPT !.pc = "dead"].forge = NoForge
        BY DEF Idle
      <4> QED BY <1>0, <3>2, <4>1, SetFrame DEF WorkerDies
    <3> QED BY <1>5, <3>1, <3>2
  <2>2. f \in Forges /\ status[f] = "running"
    BY <1>0, <1>5 DEF CompleteForge, ReportFailure, WorkerDies, At, Holds, HeldOnce
  <2>3. \A g \in Forges : g # f => status'[g] = status[g]
    BY <1>0, <1>5 DEF CompleteForge, ReportFailure, WorkerDies
  <2>4. /\ \A i \in DOMAIN queue : queue[i] # f
        /\ \A t \in Threads : actors[t].forge # f
    BY <2>2 DEF HeldOnce
  <2> HIDE DEF f
  <2> QED BY <1>0, <2>1, <2>2, <2>3, <2>4 DEF HeldOnce
<1>6. ASSUME Restart PROVE HeldOnce'
  BY <1>0, <1>6 DEF Restart, HeldOnce
<1>7. CASE Quiet
  BY <1>7, QuietStep DEF ForgesStay, HeldOnce, Actors
<1> QED BY <1>1, <1>2, <1>3, <1>4, <1>5, <1>6, <1>7
   DEF Next, Requests, Forging, Quiet

\* Every step keeps the founders bound and the shaped souls there.
LEMMA FoundedStep == TypeInv /\ Founded /\ [Next]_vars => Founded'
<1> SUFFICES ASSUME TypeInv, Founded, [Next]_vars PROVE Founded'
  OBVIOUS
<1>1. CASE ShapeSoul
  BY <1>1 DEF ShapeSoul, Changes, Founded
<1>2. CASE Activate
  BY <1>2 DEF Activate, Founded
<1>3. ASSUME world' = world, bindings \subseteq bindings', souls \subseteq souls', shaped' = shaped
      PROVE  Founded'
  BY <1>3 DEF Founded
<1>4. ASSUME ~ShapeSoul, ~Activate
      PROVE  world' = world /\ bindings \subseteq bindings' /\ souls \subseteq souls' /\ shaped' = shaped
  <2>1. ASSUME NEW t \in Threads, Requests(t)
        PROVE  world' = world /\ bindings \subseteq bindings' /\ souls' = souls /\ shaped' = shaped
    BY <2>1 DEF Requests, Promote, CreateForgeJob, PutJob, QueueFull
  <2>2. ASSUME NEW a \in Actors, Souls(a) \/ Document(a)
        PROVE  world' = world /\ bindings' = bindings /\ souls \subseteq souls' /\ shaped' = shaped
    BY <2>2 DEF Souls, Document, TouchSoul, NameSoul, SeedSoul, ReadSoul, WriteDocument,
                WriteFails, Changes
  <2>3. CASE Forging
    BY <1>4, <2>3 DEF Forging, TakeForge, NextFounder, GuideSoul, CompleteForge, ForgeFails,
                      ReportFailure, WorkerDies, Changes
  <2>4. CASE Restart \/ UNCHANGED vars
    BY <2>4 DEF Restart, vars
  <2> QED BY <2>1, <2>2, <2>3, <2>4 DEF Next
<1> QED BY <1>1, <1>2, <1>3, <1>4

\* The invariant of the refinement.
ForgingInv == TypeInv /\ WorldInv /\ HeldOnce /\ Founded

\* Only the making of the world and of a profile can make it ready.
LEMMA ReadyStays ==
    ASSUME Founded, Founded', world' = world, shaped' = shaped
    PROVE  Ready' = Ready
BY DEF Founded, Ready

\* A step that leaves world, profiles and statuses alone is a stutter.
LEMMA PromiseKept ==
    ASSUME Founded, Founded', UNCHANGED <<world, shaped, status>>
    PROVE  UNCHANGED Promise!vars
BY ReadyStays DEF Promise!vars

\* One step of a forge from one status to another.
LEMMA PromiseMoves ==
    ASSUME Founded, Founded', UNCHANGED <<world, shaped>>,
           NEW f \in Forges, NEW from, NEW to, status[f] = from,
           status' = [status EXCEPT ![f] = to]
    PROVE  Promise!Moves(f, from, to)
BY ReadyStays DEF Promise!Moves

\* Every step is one of WorldForging's or leaves its variables alone.
LEMMA ForgingStep ==
    ForgingInv /\ ForgingInv' /\ [Next]_vars => [Promise!Next]_(Promise!vars)
<1> SUFFICES ASSUME ForgingInv, ForgingInv', [Next]_vars
             PROVE  [Promise!Next]_(Promise!vars)
  OBVIOUS
<1> USE ActorsOfTwoKinds, CompanionsAssumption
<1> DEFINE g == actors[Worker].forge
<1>0. /\ Founded /\ Founded' /\ HeldOnce /\ WorldInv /\ TypeOK
      /\ \A a \in Actors : /\ actors[a] \in Handlers /\ Holds(actors[a], souls)
                           /\ actors[a].forge \in Forges \cup {NoForge}
      /\ queue \in Seq(Forges)
  BY DEF ForgingInv, TypeInv, TypeOK, Holding, Handlers
<1>1. ASSUME ~At(Worker, "idle"), ~At(Worker, "dead"), ~At(Worker, "document"),
             ~At(Worker, "write"), ~At(Worker, "seed")
      PROVE  g \in Forges /\ status[g] = "running"
  BY <1>0, <1>1 DEF At, Holds, HeldOnce
<1>2. ASSUME NEW t \in Threads, CreateForgeJob(t) PROVE Promise!Next
  <2>1. PICK f \in Forges : /\ status[f] = "none"
                            /\ status' = [status EXCEPT ![f] = "queued"]
    BY <1>2 DEF CreateForgeJob
  <2>2. Promise!Moves(f, "none", "queued")
    BY <1>0, <1>2, <2>1, PromiseMoves DEF CreateForgeJob
  <2> QED BY <2>2 DEF Promise!Next
<1>3. ASSUME TakeForge PROVE Promise!Next
  <2>1. Head(queue) \in Forges /\ status[Head(queue)] = "queued"
    BY <1>0, <1>3, QueueEnds DEF TakeForge, HeldOnce
  <2>2. Promise!Moves(Head(queue), "queued", "running")
    BY <1>0, <1>3, <2>1, PromiseMoves DEF TakeForge
  <2> QED BY <2>1, <2>2 DEF Promise!Next
<1>4. ASSUME Activate PROVE Promise!Next
  <2>1. g \in Forges /\ status[g] = "running"
    BY <1>1, <1>4 DEF Activate, At
  <2>2. Promise!Make(g)
    BY <1>4, <2>1 DEF Activate, Promise!Make, Ready
  <2> QED BY <2>1, <2>2 DEF Promise!Next
<1>5. ASSUME ShapeSoul PROVE [Promise!Next]_(Promise!vars)
  <2>1. g \in Forges /\ status[g] = "running" /\ world = g
    BY <1>0, <1>1, <1>5 DEF ShapeSoul, At, WorldInv, ForgeInHand, Making
  <2>2. world' = world /\ status' = status /\ bindings' = bindings
        /\ souls \subseteq souls' /\ shaped \subseteq shaped'
    BY <1>5 DEF ShapeSoul, Changes
  <2>3. CASE Ready' = Ready
    BY <2>2, <2>3 DEF Promise!vars
  <2>4. CASE Ready' # Ready
    <3>1. Ready' = TRUE
      BY <2>2, <2>4 DEF Ready
    <3>2. Promise!Prepare(g)
      BY <2>1, <2>2, <3>1 DEF Promise!Prepare
    <3> QED BY <2>1, <3>2 DEF Promise!Next
  <2> QED BY <2>3, <2>4
<1>6. ASSUME CompleteForge PROVE Promise!Next
  <2>1. g \in Forges /\ status[g] = "running"
    BY <1>1, <1>6 DEF CompleteForge, At
  <2>2. Making /\ Unshaped = {}
    BY <1>6, <2>1 DEF CompleteForge, Making, Unshaped, At
  <2>3. world = g /\ Ready
    BY <1>0, <2>1, <2>2 DEF WorldInv, ForgeInHand, Ready
  <2>4. Promise!Moves(g, "running", "complete")
    BY <1>0, <1>6, <2>1, PromiseMoves DEF CompleteForge
  <2> QED BY <2>1, <2>3, <2>4 DEF Promise!Next
<1>7. ASSUME ReportFailure PROVE Promise!Next
  <2>1. g \in Forges /\ status[g] = "running"
    BY <1>1, <1>7 DEF ReportFailure, At
  <2>2. Promise!Moves(g, "running", "failed")
    BY <1>0, <1>7, <2>1, PromiseMoves DEF ReportFailure
  <2> QED BY <2>1, <2>2 DEF Promise!Next
<1>8. ASSUME UNCHANGED <<world, shaped, status>> PROVE UNCHANGED Promise!vars
  BY <1>0, <1>8, PromiseKept
<1>9. ASSUME NEW t \in Threads, Promote(t) \/ PutJob(t) \/ QueueFull(t)
      PROVE  UNCHANGED Promise!vars
  BY <1>8, <1>9 DEF Promote, PutJob, QueueFull
<1>10. ASSUME NEW a \in Actors, Souls(a) \/ Document(a) PROVE UNCHANGED Promise!vars
  BY <1>8, <1>10 DEF Souls, Document, TouchSoul, NameSoul, SeedSoul, ReadSoul, WriteDocument,
                     WriteFails
<1>11. ASSUME NextFounder \/ GuideSoul \/ ForgeFails \/ WorkerDies PROVE UNCHANGED Promise!vars
  BY <1>8, <1>11 DEF NextFounder, GuideSoul, ForgeFails, WorkerDies
<1>12. CASE Restart \/ UNCHANGED vars
  BY <1>8, <1>12 DEF Restart, vars
<1> QED BY <1>2, <1>3, <1>4, <1>5, <1>6, <1>7, <1>9, <1>10, <1>11, <1>12
   DEF Next, Requests, Forging

----------------------------------------------------------------------------
(* The theorems.                                                           *)

\* Initially there is nothing at all.
LEMMA Begins == Init => TypeInv /\ DocumentInv /\ WorldInv /\ UnderWay /\ BoundHasSoul
<1> SUFFICES ASSUME Init PROVE TypeInv /\ DocumentInv /\ WorldInv /\ UnderWay /\ BoundHasSoul
  OBVIOUS
<1> USE ActorsOfTwoKinds, CompanionsAssumption
<1>0. Idle.pc = "idle" /\ Idle.forge = NoForge
  BY DEF Idle
<1>1. TypeOK
  <2>1. actors \in [Actors -> Handlers]
    BY HandlerTypes DEF Init
  <2>2. queue \in Seq(Forges) /\ Len(queue) <= QueueCapacity
    BY DEF Init
  <2> QED BY <2>1, <2>2 DEF Init, TypeOK
<1>2. Holding
  BY IdleHolds DEF Init, Holding
<1>3. DocumentInv
  BY <1>0 DEF Init, DocumentInv, Locked, StaleFollowed, DocumentsFollow, At
<1>4. WorldInv
  BY <1>0 DEF Init, WorldInv, ForgeInHand, CompleteMeansReady, Making, At
<1>5. UnderWay /\ BoundHasSoul
  BY DEF Init, UnderWay, BoundHasSoul
<1> QED BY <1>1, <1>2, <1>3, <1>4, <1>5 DEF TypeInv

\* In every state the handlers are well-formed and hold what they should.
LEMMA HandlersSound == Spec => []TypeInv
<1>1. TypeInv /\ [Next]_vars => TypeInv'
  BY TypeStep
<1> QED BY Begins, <1>1, PTL DEF Spec

\* The variables keep their types, and the job queue its bound, whatever the
\* numbers of requests, characters and forges.
THEOREM TypesHold == Spec => []TypeOK
<1>1. TypeInv => TypeOK
  BY DEF TypeInv
<1> QED BY HandlersSound, <1>1, PTL

\* Whatever order changes of souls and their documents come in, once nobody is
\* at work on a document it shows its soul, unless a failure left it behind.
THEOREM DocumentsAreCurrent == Spec => []DocumentCurrent
<1>1. TypeInv /\ DocumentInv /\ [Next]_vars => DocumentInv'
  BY DocumentStep
<1> QED BY Begins, HandlersSound, <1>1, DocumentsShow, PTL DEF Spec

\* A forge that is reported complete made the world there is, and its founders
\* are bound and have the souls made for them.
THEOREM CompleteForgesAreReady == Spec => []CompleteMeansReady
<1>1. TypeInv /\ WorldInv /\ [Next]_vars => WorldInv'
  BY WorldStep
<1>2. WorldInv => CompleteMeansReady
  BY DEF WorldInv
<1> QED BY Begins, HandlersSound, <1>1, <1>2, PTL DEF Spec

\* No forge that is reported as queued or running is forgotten, unless it was
\* cut off.
THEOREM ForgesAreUnderWay == Spec => []UnderWay
<1>1. TypeInv /\ UnderWay /\ [Next]_vars => UnderWay'
  BY UnderWayStep
<1> QED BY Begins, HandlersSound, <1>1, PTL DEF Spec

\* No companion is bound without a soul and forgotten, unless its seeding was
\* cut off.
THEOREM CompanionsHaveSouls == Spec => []BoundHasSoul
<1>1. TypeInv /\ BoundHasSoul /\ [Next]_vars => BoundHasSoul'
  BY SeedingStep
<1> QED BY Begins, HandlersSound, <1>1, PTL DEF Spec

\* The forge implements WorldForging: each forge runs and ends once at most, one
\* makes the world, and nobody but it, while it runs, makes the world ready.
THEOREM TheForgeForges == Spec => ForgesWorld
<1>1. Init => Promise!Init /\ ForgingInv
  <2> SUFFICES ASSUME Init PROVE Promise!Init /\ ForgingInv
    OBVIOUS
  <2>1. HeldOnce /\ Founded
    BY ActorsOfTwoKinds DEF Init, Idle, HeldOnce, Founded
  <2>2. Promise!Init
    BY DEF Init, Promise!Init, Ready
  <2> QED BY <2>1, <2>2, Begins DEF ForgingInv
<1>2. ForgingInv /\ [Next]_vars => ForgingInv'
  BY TypeStep, WorldStep, HeldOnceStep, FoundedStep DEF ForgingInv
<1>3. ForgingInv /\ ForgingInv' /\ [Next]_vars => [Promise!Next]_(Promise!vars)
  BY ForgingStep
<1> QED BY <1>1, <1>2, <1>3, PTL DEF Spec, ForgesWorld, Promise!Spec

=============================================================================
