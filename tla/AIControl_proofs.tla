-------------------------- MODULE AIControl_proofs --------------------------
(***************************************************************************)
(* Proofs about AIControl, for every number of request threads, every set  *)
(* of caps and every cost of a call.                                       *)
(***************************************************************************)
EXTENDS AIControl, TLAPS

----------------------------------------------------------------------------
(* Type correctness.                                                       *)

\* The markers are no values.
LEMMA Markers == /\ Keep \notin Caps \cup {NoCap} /\ Keep \notin {0, 1}
                 /\ Nobody \notin Providers /\ Local # Paid /\ Providers = {Local, Paid}
                 /\ NoCap = 0 /\ Caps \subseteq Nat
BY AIControlAssumption DEF Keep, NoCap, Nobody, Providers, Local, Paid

\* A cap, or none, is a number.
LEMMA CapsAreNumbers == \A c \in Caps \cup {NoCap} : c \in Nat
BY AIControlAssumption DEF NoCap

\* What a request thread holds where it is.
Held(r) ==
    /\ r.pc = "idle" => r = Idle
    /\ r.pc = "write" => r.enabled # Keep /\ r.cap # Keep
    /\ r.pc = "assign" => r.enabled # Keep
    /\ r.pc \in {"check", "chat check", "save", "chat save"} => r.provider # Nobody

\* The invariant of the types; while the service is not up no request runs.
TypeInv == /\ TypeOK /\ \A t \in Threads : Held(threads[t])
           /\ service # "up" => \A t \in Threads : threads[t] = Idle

\* The idle thread holds nothing.
LEMMA IdleTypes == /\ Idle \in Requests /\ Held(Idle) /\ Idle.pc = "idle"
                   /\ Idle.enabled = Keep
BY DEF Idle, Requests, Held, Pcs

\* The worker at rest, at a call, and on its way to one.
LEMMA GenerationTypes ==
    /\ AtRest \in Generations
    /\ \A p \in Providers \cup {Nobody} :
          [AtRest EXCEPT !.pc = "call", !.provider = p] \in Generations
    /\ \A g \in Generations, c \in Caps \cup {NoCap} :
          [g EXCEPT !.pc = "usage", !.cap = c] \in Generations
<1>1. AtRest \in Generations
  BY DEF AtRest, Generations
<1>2. \A p \in Providers \cup {Nobody} :
          [AtRest EXCEPT !.pc = "call", !.provider = p] \in Generations
  BY DEF AtRest, Generations
<1>3. \A g \in Generations, c \in Caps \cup {NoCap} :
          [g EXCEPT !.pc = "usage", !.cap = c] \in Generations
  BY DEF Generations
<1> QED BY <1>1, <1>2, <1>3

\* A thread that goes on leaves the others alone.
LEMMA SetFrame ==
    ASSUME TypeInv, NEW t \in Threads, NEW h, Set(t, h)
    PROVE  \A u \in Threads : threads'[u] = IF u = t THEN h ELSE threads[u]
BY DEF TypeInv, TypeOK, Set

\* It keeps the types if it is well-formed.
LEMMA SetTypes ==
    ASSUME TypeInv, NEW t \in Threads, NEW h \in Requests, Held(h), Set(t, h)
    PROVE  threads' \in [Threads -> Requests] /\ \A u \in Threads : Held(threads'[u])
<1>1. threads' \in [Threads -> Requests]
  BY DEF TypeInv, TypeOK, Set
<1> QED BY <1>1, SetFrame DEF TypeInv

\* So does a request that arrives.
LEMMA ReceiveTypes ==
    ASSUME TypeInv, NEW t \in Threads, NEW r \in Requests, Receive(t, r), Held(r)
    PROVE  TypeInv'
<1>1. Set(t, r) /\ service = "up" /\ service' = service
  BY DEF Receive, At
<1>2. threads' \in [Threads -> Requests] /\ \A u \in Threads : Held(threads'[u])
  BY <1>1, SetTypes
<1>3. torn' \in BOOLEAN
  BY DEF Receive, Alone, TypeInv, TypeOK
<1> QED BY <1>1, <1>2, <1>3 DEF Receive, TypeInv, TypeOK, stored

\* An answer leaves its thread idle and the others where they are.
LEMMA AnsweredFrame ==
    ASSUME TypeInv, NEW t \in Threads, Answered(t)
    PROVE  /\ threads'[t] = Idle
           /\ \A u \in Threads \ {t} : \E o \in BOOLEAN :
                 threads'[u] = [threads[u] EXCEPT !.old = o]
<1>1. \A u \in Threads : threads[u].old \in BOOLEAN
  BY DEF TypeInv, TypeOK, Requests
<1>2. threads'[t] = Idle
  BY DEF Answered
<1>3. ASSUME NEW u \in Threads \ {t}
      PROVE  \E o \in BOOLEAN : threads'[u] = [threads[u] EXCEPT !.old = o]
  <2> DEFINE b == /\ threads[t].enabled = 0 /\ ai' = 0 /\ enabled' = 0
                  /\ ~killed /\ threads[u].enabled = 1 /\ ~threads[u].on
             o == threads[u].old \/ b
  <2>1. threads'[u] = [threads[u] EXCEPT !.old = o]
    BY <1>3 DEF Answered
  <2>2. b \in BOOLEAN
    OBVIOUS
  <2> HIDE DEF b
  <2>3. o \in BOOLEAN
    BY <1>1, <2>2
  <2> HIDE DEF o
  <2> QED BY <2>1, <2>3
<1> QED BY <1>2, <1>3

\* It keeps the types, and what an idle thread holds.
LEMMA AnsweredTypes ==
    ASSUME TypeInv, NEW t \in Threads, Answered(t), service = "up", service' = service,
           ai' \in {0, 1}, enabled' \in {0, 1}, UNCHANGED <<cap, profile, route, spent, worker>>
    PROVE  TypeInv'
<1>1. threads' \in [Threads -> Requests] /\ \A u \in Threads : Held(threads'[u])
  <2>1. DOMAIN threads' = Threads /\ threads' = [u \in Threads |-> threads'[u]]
    BY DEF Answered
  <2>2. ASSUME NEW u \in Threads PROVE threads'[u] \in Requests /\ Held(threads'[u])
    <3>1. CASE u = t
      BY <3>1, AnsweredFrame, IdleTypes
    <3>2. CASE u # t /\ threads[u].pc # "idle"
      <4>1. threads[u] \in Requests /\ Held(threads[u])
        BY DEF TypeInv, TypeOK
      <4>2. PICK o \in BOOLEAN : threads'[u] = [threads[u] EXCEPT !.old = o]
        BY <3>2, AnsweredFrame
      <4> QED BY <3>2, <4>1, <4>2 DEF Requests, Held
    <3>3. CASE u # t /\ threads[u].pc = "idle"
      <4>1. threads[u] = Idle
        BY <3>3 DEF TypeInv, Held
      <4>2. Idle.enabled # 1 /\ ~Idle.old
        BY Markers DEF Idle
      <4> DEFINE b == /\ threads[t].enabled = 0 /\ ai' = 0 /\ enabled' = 0
                      /\ ~killed /\ threads[u].enabled = 1 /\ ~threads[u].on
                 o == threads[u].old \/ b
      <4>3. threads'[u] = [threads[u] EXCEPT !.old = o]
        BY <3>3 DEF Answered
      <4>4. o = FALSE
        BY <4>1, <4>2
      <4> HIDE DEF o
      <4>5. threads'[u] = [Idle EXCEPT !.old = FALSE]
        BY <4>1, <4>3, <4>4
      <4> QED BY <4>5, IdleTypes DEF Idle
    <3> QED BY <3>1, <3>2, <3>3
  <2> QED BY <2>1, <2>2
<1>2. killed' \in BOOLEAN /\ woken' \in BOOLEAN /\ UNCHANGED <<high, torn>>
  BY DEF Answered, Undoes, TypeInv, TypeOK
<1> QED BY <1>1, <1>2 DEF TypeInv, TypeOK

\* What a request that goes on may come to hold.
LEMMA RequestTypes ==
    /\ \A p \in Payloads, e \in {0, 1}, c \in Caps \cup {NoCap} :
          /\ Merged(p, e, c) \in Requests /\ Held(Merged(p, e, c))
          /\ Merged(p, e, c).pc = "write"
    /\ \A e \in {Keep, 0, 1} :
          AtSwitch(e) \in Requests /\ Held(AtSwitch(e)) /\ AtSwitch(e).pc = "switch"
    /\ \A pc \in {"merge", "chat"} :
          [Idle EXCEPT !.pc = pc] \in Requests /\ Held([Idle EXCEPT !.pc = pc])
    /\ \A p \in Providers : LET r == [Idle EXCEPT !.pc = "check", !.provider = p]
                            IN  r \in Requests /\ Held(r)
<1>1. ASSUME NEW p \in Payloads, NEW e \in {0, 1}, NEW c \in Caps \cup {NoCap}
      PROVE  /\ Merged(p, e, c) \in Requests /\ Held(Merged(p, e, c))
             /\ Merged(p, e, c).pc = "write"
  <2>1. p.enabled \in {Keep, 0, 1} /\ p.cap \in Caps \cup {Keep}
    BY DEF Payloads
  <2>2. Caps \cup {Keep} \subseteq Caps \cup {Keep, NoCap}
    OBVIOUS
  <2>3. /\ (IF p.enabled = Keep THEN e ELSE p.enabled) \in {0, 1}
        /\ (IF p.cap = Keep THEN c ELSE p.cap) \in Caps \cup {NoCap}
        /\ (p.enabled = 1) \in BOOLEAN
    BY <2>1, Markers
  <2> QED BY <2>3, Markers DEF Merged, Idle, Requests, Held, Pcs
<1>2. ASSUME NEW e \in {Keep, 0, 1}
      PROVE  AtSwitch(e) \in Requests /\ Held(AtSwitch(e)) /\ AtSwitch(e).pc = "switch"
  BY Markers DEF AtSwitch, Idle, Requests, Held, Pcs
<1>3. ASSUME NEW pc \in {"merge", "chat"}
      PROVE  [Idle EXCEPT !.pc = pc] \in Requests /\ Held([Idle EXCEPT !.pc = pc])
  BY Markers DEF Idle, Requests, Held, Pcs
<1>4. ASSUME NEW p \in Providers
      PROVE  LET r == [Idle EXCEPT !.pc = "check", !.provider = p]
             IN  r \in Requests /\ Held(r)
  BY Markers DEF Idle, Requests, Held, Pcs
<1> QED BY <1>1, <1>2, <1>3, <1>4

\* Every step keeps the types and what the threads hold.
LEMMA TypeStep == TypeInv /\ [Next]_vars => TypeInv'
<1> SUFFICES ASSUME TypeInv, [Next]_vars PROVE TypeInv'
  OBVIOUS
<1>0. /\ TypeOK /\ \A t \in Threads : threads[t] \in Requests /\ Held(threads[t])
      /\ cap \in Caps \cup {NoCap} /\ enabled \in {0, 1} /\ route \in Providers
  BY DEF TypeInv, TypeOK
<1>1. ASSUME NEW t \in Threads, PutState(t) PROVE TypeInv'
  BY <1>1, RequestTypes, ReceiveTypes DEF PutState
<1>2. ASSUME NEW t \in Threads, MergeState(t) PROVE TypeInv'
  <2>1. PICK p \in Payloads : Set(t, Merged(p, enabled, cap))
    BY <1>2 DEF MergeState
  <2>2. service = "up" /\ service' = service
    BY <1>2 DEF MergeState, At
  <2>3. threads' \in [Threads -> Requests] /\ \A u \in Threads : Held(threads'[u])
    BY <1>0, <2>1, RequestTypes, SetTypes
  <2> QED BY <1>0, <1>2, <2>2, <2>3 DEF MergeState, TypeInv, TypeOK, stored, ghosts
<1>3. ASSUME NEW t \in Threads, WriteState(t) PROVE TypeInv'
  <2> DEFINE h == [Idle EXCEPT !.pc = "reread"]
  <2>1. h \in Requests /\ Held(h)
    BY <1>0, <1>3, IdleTypes, Markers DEF WriteState, At, Idle, Requests, Held, Pcs
  <2>2. Set(t, h) /\ service = "up" /\ service' = service
    BY <1>3 DEF WriteState, At
  <2> HIDE DEF h
  <2>3. threads' \in [Threads -> Requests] /\ \A u \in Threads : Held(threads'[u])
    BY <2>1, <2>2, SetTypes
  <2>4. enabled' \in {0, 1} /\ cap' \in Caps \cup {NoCap} /\ high' \in Caps \cup {NoCap}
    BY <1>0, <1>3 DEF WriteState, At, Held, Requests, TypeOK, Higher
  <2>5. killed' \in BOOLEAN /\ woken' \in BOOLEAN
    BY <1>0, <1>3 DEF WriteState, Undoes, TypeOK
  <2> QED BY <1>0, <1>3, <2>2, <2>3, <2>4, <2>5 DEF WriteState, TypeInv, TypeOK
<1>4. ASSUME NEW t \in Threads, RereadState(t) PROVE TypeInv'
  <2> DEFINE h == [threads[t] EXCEPT !.pc = "assign", !.enabled = enabled]
  <2>1. h \in Requests /\ Held(h)
    BY <1>0, <1>4, IdleTypes, Markers DEF RereadState, At, Requests, Held, Pcs
  <2>2. Set(t, h) /\ service = "up" /\ service' = service
    BY <1>4 DEF RereadState, At
  <2> HIDE DEF h
  <2>3. threads' \in [Threads -> Requests] /\ \A u \in Threads : Held(threads'[u])
    BY <2>1, <2>2, SetTypes
  <2> QED BY <1>0, <1>4, <2>2, <2>3 DEF RereadState, TypeInv, TypeOK, stored, ghosts
<1>5. ASSUME NEW t \in Threads, AssignState(t) PROVE TypeInv'
  <2>1. ai' \in {0, 1}
    BY <1>0, <1>5 DEF AssignState, At, Held, Requests, TypeOK
  <2> QED BY <1>0, <1>5, <2>1, AnsweredTypes DEF AssignState, At, stored
<1>6. ASSUME NEW t \in Threads, PutSettings(t) PROVE TypeInv'
  BY <1>6, RequestTypes, ReceiveTypes DEF PutSettings
<1>7. ASSUME NEW t \in Threads, ReadDialogueRoute(t) PROVE TypeInv'
  <2> DEFINE h == [threads[t] EXCEPT !.pc = "chat check", !.provider = route]
  <2>1. h \in Requests /\ Held(h)
    BY <1>0, <1>7, IdleTypes, Markers DEF ReadDialogueRoute, At, Requests, Held, Pcs
  <2>2. Set(t, h) /\ service = "up" /\ service' = service
    BY <1>7 DEF ReadDialogueRoute, At
  <2> HIDE DEF h
  <2>3. threads' \in [Threads -> Requests] /\ \A u \in Threads : Held(threads'[u])
    BY <2>1, <2>2, SetTypes
  <2> QED BY <1>0, <1>7, <2>2, <2>3 DEF ReadDialogueRoute, TypeInv, TypeOK, stored, ghosts
<1>8. ASSUME NEW t \in Threads, SaveDialogueRoute(t) PROVE TypeInv'
  <2>1. PICK e \in {Keep, 0, 1} : Set(t, AtSwitch(e))
    BY <1>8 DEF SaveDialogueRoute
  <2>2. service = "up" /\ service' = service
    BY <1>8 DEF SaveDialogueRoute, At
  <2>3. threads' \in [Threads -> Requests] /\ \A u \in Threads : Held(threads'[u])
    BY <2>1, RequestTypes, SetTypes
  <2>4. route' \in Providers
    BY <1>0, <1>8 DEF SaveDialogueRoute, At, Held, Requests
  <2> QED BY <1>0, <1>8, <2>2, <2>3, <2>4 DEF SaveDialogueRoute, TypeInv, TypeOK, ghosts
<1>9. ASSUME NEW t \in Threads, AssignSwitch(t) PROVE TypeInv'
  <2> DEFINE h == [threads[t] EXCEPT !.pc = "validate"]
  <2>1. h \in Requests /\ Held(h)
    BY <1>0, <1>9, IdleTypes, Markers DEF AssignSwitch, At, Requests, Held, Pcs
  <2>2. Set(t, h) /\ service = "up" /\ service' = service
    BY <1>9 DEF AssignSwitch, Goto, At
  <2> HIDE DEF h
  <2>3. threads' \in [Threads -> Requests] /\ \A u \in Threads : Held(threads'[u])
    BY <2>1, <2>2, SetTypes
  <2>4. ai' \in {0, 1}
    BY <1>0, <1>9 DEF AssignSwitch, At, Held, Requests, TypeOK
  <2>5. woken' \in BOOLEAN
    BY <1>0, <1>9 DEF AssignSwitch, TypeOK
  <2> QED BY <1>0, <1>9, <2>2, <2>3, <2>4, <2>5
     DEF AssignSwitch, TypeInv, TypeOK, stored
<1>10. ASSUME NEW t \in Threads, RejectSettings(t) PROVE TypeInv'
  <2> DEFINE h == Idle
  <2>1. h \in Requests /\ Held(h)
    BY <1>0, <1>10, IdleTypes, Markers
  <2>2. Set(t, h) /\ service = "up" /\ service' = service
    BY <1>10 DEF RejectSettings, Done, At
  <2> HIDE DEF h
  <2>3. threads' \in [Threads -> Requests] /\ \A u \in Threads : Held(threads'[u])
    BY <2>1, <2>2, SetTypes
  <2>4. torn' \in BOOLEAN
    BY <1>0, <1>10 DEF RejectSettings, TypeOK
  <2> QED BY <1>0, <1>10, <2>2, <2>3, <2>4 DEF RejectSettings, TypeInv, TypeOK, stored
<1>11. ASSUME NEW t \in Threads, StoreSettings(t) PROVE TypeInv'
  <2>1. enabled' \in {0, 1}
    BY <1>0, <1>11 DEF StoreSettings, At, Held, Requests, TypeOK
  <2>2. ai' \in {0, 1}
    BY <1>0, <1>11 DEF StoreSettings, TypeOK
  <2> QED BY <1>0, <1>11, <2>1, <2>2, AnsweredTypes DEF StoreSettings, At
<1>12. ASSUME NEW t \in Threads, PutRouting(t) PROVE TypeInv'
  BY <1>12, RequestTypes, ReceiveTypes DEF PutRouting
<1>13. ASSUME NEW t \in Threads, CheckProvider(t) PROVE TypeInv'
  <2> DEFINE h == IF profile[threads[t].provider] = "absent" THEN Idle
                   ELSE [threads[t] EXCEPT !.pc =
                           IF threads[t].pc = "check" THEN "save" ELSE "chat save"]
  <2>1. h \in Requests /\ Held(h)
    BY <1>0, <1>13, IdleTypes, Markers DEF CheckProvider, At, Requests, Held, Pcs
  <2>2. Set(t, h) /\ service = "up" /\ service' = service
    BY <1>13 DEF CheckProvider, Done, Goto, At
  <2> HIDE DEF h
  <2>3. threads' \in [Threads -> Requests] /\ \A u \in Threads : Held(threads'[u])
    BY <2>1, <2>2, SetTypes
  <2> QED BY <1>0, <1>13, <2>2, <2>3 DEF CheckProvider, TypeInv, TypeOK, stored, ghosts
<1>14. ASSUME NEW t \in Threads, SaveRoute(t) PROVE TypeInv'
  <2> DEFINE h == Idle
  <2>1. h \in Requests /\ Held(h)
    BY <1>0, <1>14, IdleTypes, Markers
  <2>2. Set(t, h) /\ service = "up" /\ service' = service
    BY <1>14 DEF SaveRoute, Done, At
  <2> HIDE DEF h
  <2>3. threads' \in [Threads -> Requests] /\ \A u \in Threads : Held(threads'[u])
    BY <2>1, <2>2, SetTypes
  <2>4. route' \in Providers
    BY <1>0, <1>14 DEF SaveRoute, At, Held, Requests
  <2> QED BY <1>0, <1>14, <2>2, <2>3, <2>4 DEF SaveRoute, TypeInv, TypeOK, ghosts
<1>15. ASSUME NEW t \in Threads, SaveRouteFails(t) PROVE TypeInv'
  <2> DEFINE h == Idle
  <2>1. h \in Requests /\ Held(h)
    BY <1>0, <1>15, IdleTypes, Markers
  <2>2. Set(t, h) /\ service = "up" /\ service' = service
    BY <1>15 DEF SaveRouteFails, Done, At
  <2> HIDE DEF h
  <2>3. threads' \in [Threads -> Requests] /\ \A u \in Threads : Held(threads'[u])
    BY <2>1, <2>2, SetTypes
  <2> QED BY <1>0, <1>15, <2>2, <2>3 DEF SaveRouteFails, TypeInv, TypeOK, stored, ghosts
<1>16. ASSUME SaveProvider PROVE TypeInv'
  BY <1>0, <1>16, Markers DEF SaveProvider, TypeInv, TypeOK, ghosts
<1>17. ASSUME DeleteProvider PROVE TypeInv'
  BY <1>0, <1>17, Markers DEF DeleteProvider, TypeInv, TypeOK, ghosts
<1>18. ASSUME StartGeneration PROVE TypeInv'
  BY <1>0, <1>18 DEF StartGeneration, Generations, TypeInv, TypeOK, stored, ghosts
<1>19. ASSUME ReadProfile PROVE TypeInv'
  BY <1>0, <1>19, Markers
     DEF ReadProfile, NoCall, AtRest, Generations, TypeInv, TypeOK, stored, ghosts
<1>20. ASSUME ReadCap PROVE TypeInv'
  <2>1. worker.provider \in Providers \cup {Nobody} /\ worker \in Generations
    BY <1>0 DEF TypeOK, Generations
  <2>2. worker' \in Generations
    BY <1>0, <1>20, <2>1, GenerationTypes DEF ReadCap, Call
  <2> QED BY <1>0, <1>20, <2>2 DEF ReadCap, TypeInv, TypeOK, stored, ghosts
<1>21. ASSUME ReadUsage PROVE TypeInv'
  <2>1. worker' \in Generations
    BY <1>21, Markers, GenerationTypes DEF ReadUsage, Call, NoCall
  <2> QED BY <1>0, <1>21, <2>1 DEF ReadUsage, TypeInv, TypeOK, stored, ghosts
<1>22. ASSUME FinishCall PROVE TypeInv'
  <2>1. spent' \in 0 .. MaxSpent
    BY <1>0, <1>22, AIControlAssumption DEF FinishCall, TypeOK
  <2> QED BY <1>0, <1>22, <2>1
     DEF FinishCall, NoCall, AtRest, Generations, TypeInv, TypeOK, ghosts
<1>23. ASSUME FailCall PROVE TypeInv'
  BY <1>0, <1>23, Markers
     DEF FailCall, NoCall, AtRest, Generations, TypeInv, TypeOK, stored, ghosts
<1>24. ASSUME NewMonth PROVE TypeInv'
  BY <1>0, <1>24, AIControlAssumption DEF NewMonth, TypeInv, TypeOK
<1>25. ASSUME Crash PROVE TypeInv'
  BY <1>0, <1>25, IdleTypes
     DEF Crash, AtRest, Generations, TypeInv, TypeOK, stored, ghosts
<1>26. ASSUME Start PROVE TypeInv'
  BY <1>0, <1>26, Markers DEF Start, TypeInv, TypeOK, stored
<1>27. ASSUME ImportProvider PROVE TypeInv'
  BY <1>0, <1>27, Markers DEF ImportProvider, TypeInv, TypeOK, ghosts
<1>28. ASSUME ImportRoute PROVE TypeInv'
  BY <1>0, <1>28, Markers DEF ImportRoute, TypeInv, TypeOK
<1>29. CASE UNCHANGED vars
  BY <1>29 DEF vars, stored, ghosts, TypeInv, TypeOK
<1>30. ASSUME NEW t \in Threads, StateFails(t) PROVE TypeInv'
  <2>1. Set(t, Idle) /\ service = "up" /\ service' = service
    BY <1>30 DEF StateFails, Done, At
  <2>2. threads' \in [Threads -> Requests] /\ \A u \in Threads : Held(threads'[u])
    BY <2>1, IdleTypes, SetTypes
  <2>3. torn' \in BOOLEAN
    BY <1>0, <1>30 DEF StateFails, TypeOK
  <2> QED BY <1>0, <1>30, <2>1, <2>2, <2>3 DEF StateFails, TypeInv, TypeOK, stored
<1> QED BY <1>1, <1>2, <1>3, <1>4, <1>5, <1>6, <1>7, <1>8, <1>9, <1>10, <1>11, <1>12,
           <1>13, <1>14, <1>15, <1>16, <1>17, <1>18, <1>19, <1>20, <1>21, <1>22, <1>23,
           <1>24, <1>25, <1>26, <1>27, <1>28, <1>29, <1>30 DEF Next, State, Settings, Routing,
           Worker, Host

----------------------------------------------------------------------------
(* Routes.                                                                 *)

\* The local profile is never absent, and the imported one is there before the
\* route to it.
RouteInv == /\ RouteExists /\ profile[Local] # "absent"
            /\ service = "importing" => profile[Paid] # "absent"

\* Every step keeps the profile that the route leads to.
LEMMA RouteStep == TypeInv /\ RouteInv /\ [Next]_vars => RouteInv'
<1> SUFFICES ASSUME TypeInv, RouteInv, [Next]_vars PROVE RouteInv'
  OBVIOUS
<1>0. /\ TypeOK /\ \A t \in Threads : threads[t] \in Requests /\ Held(threads[t])
      /\ profile \in [Providers -> {"absent", "enabled", "disabled"}]
      /\ service # "up" => \A t \in Threads : threads[t] = Idle
  BY DEF TypeInv, TypeOK
<1>1. ASSUME NEW t \in Threads, PutState(t) PROVE RouteInv'
  BY <1>1 DEF PutState, Receive, RouteInv, RouteExists, At, stored
<1>2. ASSUME NEW t \in Threads, MergeState(t) PROVE RouteInv'
  BY <1>2 DEF MergeState, RouteInv, RouteExists, At, stored, ghosts
<1>3. ASSUME NEW t \in Threads, WriteState(t) PROVE RouteInv'
  BY <1>3 DEF WriteState, RouteInv, RouteExists, At
<1>4. ASSUME NEW t \in Threads, RereadState(t) PROVE RouteInv'
  BY <1>4 DEF RereadState, RouteInv, RouteExists, At, stored, ghosts
<1>5. ASSUME NEW t \in Threads, AssignState(t) PROVE RouteInv'
  BY <1>5 DEF AssignState, RouteInv, RouteExists, At, stored
<1>6. ASSUME NEW t \in Threads, PutSettings(t) PROVE RouteInv'
  BY <1>6 DEF PutSettings, Receive, RouteInv, RouteExists, At, stored
<1>7. ASSUME NEW t \in Threads, ReadDialogueRoute(t) PROVE RouteInv'
  BY <1>7 DEF ReadDialogueRoute, RouteInv, RouteExists, At, stored, ghosts
<1>8. ASSUME NEW t \in Threads, SaveDialogueRoute(t) PROVE RouteInv'
  BY <1>8 DEF SaveDialogueRoute, RouteInv, RouteExists, At, ghosts
<1>9. ASSUME NEW t \in Threads, AssignSwitch(t) PROVE RouteInv'
  BY <1>9 DEF AssignSwitch, RouteInv, RouteExists, At, stored, ghosts
<1>10. ASSUME NEW t \in Threads, RejectSettings(t) PROVE RouteInv'
  BY <1>10 DEF RejectSettings, RouteInv, RouteExists, At, stored
<1>11. ASSUME NEW t \in Threads, StoreSettings(t) PROVE RouteInv'
  BY <1>11 DEF StoreSettings, RouteInv, RouteExists, At
<1>12. ASSUME NEW t \in Threads, PutRouting(t) PROVE RouteInv'
  BY <1>12 DEF PutRouting, Receive, RouteInv, RouteExists, At, stored
<1>13. ASSUME NEW t \in Threads, CheckProvider(t) PROVE RouteInv'
  BY <1>13 DEF CheckProvider, RouteInv, RouteExists, At, stored, ghosts
<1>14. ASSUME NEW t \in Threads, SaveRoute(t) PROVE RouteInv'
  BY <1>14 DEF SaveRoute, RouteInv, RouteExists, At, ghosts
<1>15. ASSUME NEW t \in Threads, SaveRouteFails(t) PROVE RouteInv'
  BY <1>15 DEF SaveRouteFails, RouteInv, RouteExists, At, stored, ghosts
<1>16. ASSUME SaveProvider PROVE RouteInv'
  BY <1>0, <1>16, Markers DEF SaveProvider, RouteInv, RouteExists, TypeOK, ghosts
<1>17. ASSUME DeleteProvider PROVE RouteInv'
  BY <1>0, <1>17, Markers DEF DeleteProvider, RouteInv, RouteExists, TypeOK, ghosts
<1>18. ASSUME StartGeneration PROVE RouteInv'
  BY <1>0, <1>18, Markers
     DEF StartGeneration, RouteInv, RouteExists, TypeOK, stored, ghosts
<1>19. ASSUME ReadProfile PROVE RouteInv'
  BY <1>0, <1>19, Markers DEF ReadProfile, RouteInv, RouteExists, TypeOK, stored, ghosts
<1>20. ASSUME ReadCap PROVE RouteInv'
  BY <1>0, <1>20, Markers DEF ReadCap, RouteInv, RouteExists, TypeOK, stored, ghosts
<1>21. ASSUME ReadUsage PROVE RouteInv'
  BY <1>0, <1>21, Markers DEF ReadUsage, RouteInv, RouteExists, TypeOK, stored, ghosts
<1>22. ASSUME FinishCall PROVE RouteInv'
  BY <1>0, <1>22, Markers DEF FinishCall, RouteInv, RouteExists, TypeOK, ghosts
<1>23. ASSUME FailCall PROVE RouteInv'
  BY <1>0, <1>23, Markers DEF FailCall, RouteInv, RouteExists, TypeOK, stored, ghosts
<1>24. ASSUME NewMonth PROVE RouteInv'
  BY <1>0, <1>24, Markers DEF NewMonth, RouteInv, RouteExists, TypeOK
<1>25. ASSUME Crash PROVE RouteInv'
  BY <1>0, <1>25, Markers DEF Crash, RouteInv, RouteExists, TypeOK, stored, ghosts
<1>26. ASSUME Start PROVE RouteInv'
  BY <1>0, <1>26, Markers DEF Start, Imports, RouteInv, RouteExists, TypeOK, stored
<1>27. ASSUME ImportProvider PROVE RouteInv'
  BY <1>0, <1>27, Markers
     DEF ImportProvider, Imports, RouteInv, RouteExists, TypeOK, ghosts
<1>28. ASSUME ImportRoute PROVE RouteInv'
  BY <1>0, <1>28, Markers DEF ImportRoute, RouteInv, RouteExists, TypeOK
<1>29. CASE UNCHANGED vars
  BY <1>29 DEF vars, stored, RouteInv, RouteExists
<1>30. ASSUME NEW t \in Threads, StateFails(t) PROVE RouteInv'
  BY <1>30 DEF StateFails, RouteInv, RouteExists, stored
<1> QED BY <1>1, <1>2, <1>3, <1>4, <1>5, <1>6, <1>7, <1>8, <1>9, <1>10, <1>11, <1>12,
           <1>13, <1>14, <1>15, <1>16, <1>17, <1>18, <1>19, <1>20, <1>21, <1>22, <1>23,
           <1>24, <1>25, <1>26, <1>27, <1>28, <1>29, <1>30 DEF Next, State, Settings, Routing,
           Worker, Host

----------------------------------------------------------------------------
(* The budget.                                                             *)

\* While there is a cap, whoever is about to call or to decide on a call has
\* looked at a cap no higher than the highest, unless the month is new.
BudgetInv ==
    high # NoCap =>
        /\ spent < high + MaxCost
        /\ cap # NoCap /\ cap <= high
        /\ worker.pc = "usage" => worker.cap <= high \/ spent = 0
        /\ worker.pc = "call" /\ worker.provider = Paid => spent < high

\* Every step keeps it.
LEMMA BudgetStep == TypeInv /\ BudgetInv /\ [Next]_vars => BudgetInv'
<1> SUFFICES ASSUME TypeInv, BudgetInv, [Next]_vars PROVE BudgetInv'
  OBVIOUS
<1>0. /\ TypeOK /\ \A t \in Threads : threads[t] \in Requests /\ Held(threads[t])
      /\ worker \in Generations /\ spent \in Nat /\ MaxCost \in Nat /\ MaxSpent \in Nat
      /\ high \in Nat /\ cap \in Nat /\ worker.cap \in Nat
  <2>1. TypeOK /\ \A t \in Threads : threads[t] \in Requests /\ Held(threads[t])
    BY DEF TypeInv, TypeOK
  <2>2. /\ worker \in Generations /\ spent \in 0 .. MaxSpent
        /\ high \in Caps \cup {NoCap} /\ cap \in Caps \cup {NoCap}
    BY <2>1 DEF TypeOK
  <2>3. worker.cap \in Caps \cup {NoCap}
    BY <2>2 DEF Generations
  <2>4. spent \in Nat /\ MaxCost \in Nat /\ MaxSpent \in Nat
    BY <2>2, AIControlAssumption
  <2> QED BY <2>1, <2>2, <2>3, <2>4, CapsAreNumbers
<1>1. ASSUME NEW t \in Threads, PutState(t) PROVE BudgetInv'
  BY <1>1 DEF PutState, Receive, BudgetInv, stored
<1>2. ASSUME NEW t \in Threads, MergeState(t) PROVE BudgetInv'
  BY <1>2 DEF MergeState, BudgetInv, stored, ghosts
<1>3. ASSUME NEW t \in Threads, WriteState(t) PROVE BudgetInv'
  <2>1. cap' \in Nat /\ UNCHANGED <<worker, spent>>
    <3>1. cap' = threads[t].cap /\ worker' = worker /\ spent' = spent
      BY <1>3 DEF WriteState
    <3>2. threads[t].cap \in Caps \cup {NoCap}
      BY <1>0, <1>3 DEF WriteState, At, Held, Requests
    <3> QED BY <3>1, <3>2, CapsAreNumbers
  <2>2. high' # NoCap => high # NoCap /\ cap' # NoCap /\ high' = Higher(high, cap')
    BY <1>3 DEF WriteState
  <2>3. high <= Higher(high, cap') /\ cap' <= Higher(high, cap')
    BY <1>0, <2>1 DEF Higher
  <2>4. Higher(high, cap') \in Nat
    BY <1>0, <2>1 DEF Higher
  <2> QED BY <1>0, <2>1, <2>2, <2>3, <2>4 DEF BudgetInv
<1>4. ASSUME NEW t \in Threads, RereadState(t) PROVE BudgetInv'
  BY <1>4 DEF RereadState, BudgetInv, stored, ghosts
<1>5. ASSUME NEW t \in Threads, AssignState(t) PROVE BudgetInv'
  BY <1>5 DEF AssignState, Answered, BudgetInv, stored
<1>6. ASSUME NEW t \in Threads, PutSettings(t) PROVE BudgetInv'
  BY <1>6 DEF PutSettings, Receive, BudgetInv, stored
<1>7. ASSUME NEW t \in Threads, ReadDialogueRoute(t) PROVE BudgetInv'
  BY <1>7 DEF ReadDialogueRoute, BudgetInv, stored, ghosts
<1>8. ASSUME NEW t \in Threads, SaveDialogueRoute(t) PROVE BudgetInv'
  BY <1>8 DEF SaveDialogueRoute, BudgetInv, ghosts
<1>9. ASSUME NEW t \in Threads, AssignSwitch(t) PROVE BudgetInv'
  BY <1>9 DEF AssignSwitch, BudgetInv, stored, ghosts
<1>10. ASSUME NEW t \in Threads, RejectSettings(t) PROVE BudgetInv'
  BY <1>10 DEF RejectSettings, BudgetInv, stored
<1>11. ASSUME NEW t \in Threads, StoreSettings(t) PROVE BudgetInv'
  BY <1>11 DEF StoreSettings, Answered, BudgetInv
<1>12. ASSUME NEW t \in Threads, PutRouting(t) PROVE BudgetInv'
  BY <1>12 DEF PutRouting, Receive, BudgetInv, stored
<1>13. ASSUME NEW t \in Threads, CheckProvider(t) PROVE BudgetInv'
  BY <1>13 DEF CheckProvider, BudgetInv, stored, ghosts
<1>14. ASSUME NEW t \in Threads, SaveRoute(t) PROVE BudgetInv'
  BY <1>14 DEF SaveRoute, BudgetInv, ghosts
<1>15. ASSUME NEW t \in Threads, SaveRouteFails(t) PROVE BudgetInv'
  BY <1>15 DEF SaveRouteFails, BudgetInv, stored, ghosts
<1>16. ASSUME SaveProvider PROVE BudgetInv'
  BY <1>0, <1>16 DEF SaveProvider, BudgetInv, ghosts
<1>17. ASSUME DeleteProvider PROVE BudgetInv'
  BY <1>0, <1>17 DEF DeleteProvider, BudgetInv, ghosts
<1>18. ASSUME StartGeneration PROVE BudgetInv'
  <2>1. worker'.pc = "profile"
    BY <1>0, <1>18 DEF StartGeneration, Generations
  <2> QED BY <1>18, <2>1 DEF StartGeneration, BudgetInv, stored, ghosts
<1>19. ASSUME ReadProfile PROVE BudgetInv'
  <2>1. worker'.pc \in {"idle", "cap"}
    BY <1>0, <1>19 DEF ReadProfile, NoCall, AtRest, Generations
  <2> QED BY <1>19, <2>1 DEF ReadProfile, BudgetInv, stored, ghosts
<1>20. ASSUME ReadCap PROVE BudgetInv'
  <2>1. CASE cap = NoCap
    BY <1>20, <2>1 DEF ReadCap, BudgetInv, stored, ghosts
  <2>2. CASE cap # NoCap /\ worker.provider = Local
    <3>1. worker'.pc = "call" /\ worker'.provider = Local
      BY <1>20, <2>2 DEF ReadCap, Call, AtRest
    <3> QED BY <1>20, <3>1, Markers DEF ReadCap, BudgetInv, stored, ghosts
  <2>3. CASE cap # NoCap /\ worker.provider # Local
    <3>1. worker'.pc = "usage" /\ worker'.cap = cap
      BY <1>0, <1>20, <2>3 DEF ReadCap, Generations
    <3> QED BY <1>20, <3>1 DEF ReadCap, BudgetInv, stored, ghosts
  <2> QED BY <2>1, <2>2, <2>3
<1>21. ASSUME ReadUsage PROVE BudgetInv'
  <2>1. CASE spent < worker.cap /\ Call(Paid)
    <3>1. worker'.pc = "call" /\ worker.pc = "usage"
      BY <1>21, <2>1 DEF ReadUsage, WorkerAt, Call, AtRest
    <3>2. high # NoCap => spent < high
      BY <1>0, <2>1, <3>1, Markers DEF BudgetInv
    <3> QED BY <1>21, <3>1, <3>2 DEF ReadUsage, BudgetInv, stored, ghosts
  <2>2. CASE Call(Local)
    <3>1. worker'.pc = "call" /\ worker'.provider = Local
      BY <2>2 DEF Call, AtRest
    <3> QED BY <1>21, <3>1, Markers DEF ReadUsage, BudgetInv, stored, ghosts
  <2>3. CASE NoCall
    BY <1>21, <2>3 DEF ReadUsage, NoCall, AtRest, BudgetInv, stored, ghosts
  <2> QED BY <1>21, <2>1, <2>2, <2>3 DEF ReadUsage
<1>22. ASSUME FinishCall PROVE BudgetInv'
  <2>1. worker'.pc = "idle" /\ UNCHANGED <<cap, high>>
    BY <1>22 DEF FinishCall, NoCall, AtRest, ghosts
  <2>2. CASE worker.provider = Paid
    <3>1. PICK c \in 0 .. MaxCost :
            spent' = IF spent + c > MaxSpent THEN MaxSpent ELSE spent + c
      BY <1>22, <2>2 DEF FinishCall
    <3>2. spent' <= spent + MaxCost /\ spent' \in Nat
      BY <1>0, <3>1
    <3>3. high # NoCap => spent < high
      BY <1>22, <2>2 DEF FinishCall, WorkerAt, BudgetInv
    <3> QED BY <1>0, <2>1, <3>2, <3>3 DEF BudgetInv
  <2>3. CASE worker.provider # Paid
    <3>1. spent' <= spent /\ spent' \in Nat
      BY <1>0, <1>22, <2>3 DEF FinishCall
    <3> QED BY <1>0, <2>1, <3>1 DEF BudgetInv
  <2> QED BY <2>2, <2>3
<1>23. ASSUME FailCall PROVE BudgetInv'
  BY <1>23 DEF FailCall, NoCall, AtRest, BudgetInv, stored, ghosts
<1>24. ASSUME NewMonth PROVE BudgetInv'
  BY <1>0, <1>24, Markers DEF NewMonth, BudgetInv
<1>25. ASSUME Crash PROVE BudgetInv'
  BY <1>25 DEF Crash, AtRest, BudgetInv, stored, ghosts
<1>26. ASSUME Start PROVE BudgetInv'
  BY <1>0, <1>26 DEF Start, BudgetInv, stored
<1>27. ASSUME ImportProvider PROVE BudgetInv'
  BY <1>0, <1>27 DEF ImportProvider, BudgetInv, ghosts
<1>28. ASSUME ImportRoute PROVE BudgetInv'
  BY <1>0, <1>28 DEF ImportRoute, BudgetInv
<1>29. CASE UNCHANGED vars
  BY <1>29 DEF vars, stored, ghosts, BudgetInv
<1>30. ASSUME NEW t \in Threads, StateFails(t) PROVE BudgetInv'
  BY <1>30 DEF StateFails, BudgetInv, stored
<1> QED BY <1>1, <1>2, <1>3, <1>4, <1>5, <1>6, <1>7, <1>8, <1>9, <1>10, <1>11, <1>12,
           <1>13, <1>14, <1>15, <1>16, <1>17, <1>18, <1>19, <1>20, <1>21, <1>22, <1>23,
           <1>24, <1>25, <1>26, <1>27, <1>28, <1>29, <1>30 DEF Next, State, Settings, Routing,
           Worker, Host

----------------------------------------------------------------------------
(* The kill switch.                                                        *)

\* A request that asks for AI holds it from its settings on; what save_ai_state
\* reads again for its answer, nobody asked for.
Asked(r) ==
    /\ r.pc \in {"switch", "validate"} /\ r.enabled = 1 => r.on
    /\ r.pc \in {"reread", "assign"} => ~r.on

\* While AI counts as killed, what would switch it on was asked for, or was
\* read before.
Covered(r) ==
    /\ r.pc = "write" /\ r.enabled = 1 => r.on \/ r.old
    /\ r.pc = "assign" /\ r.enabled = 1 => r.old

KillInv ==
    /\ SwitchStaysOff
    /\ \A t \in Threads : Asked(threads[t])
    /\ killed => \A t \in Threads : Covered(threads[t])

\* The idle thread wants nothing.
LEMMA IdleAsks == Asked(Idle) /\ Covered(Idle)
BY IdleTypes DEF Asked, Covered

\* A thread that goes on keeps it, if it does not switch AI on itself.
LEMMA SetKills ==
    ASSUME TypeInv, KillInv, NEW t \in Threads, NEW h, Set(t, h), Asked(h),
           killed' => killed /\ Covered(h),
           killed' => enabled' = 0 /\ (service' = "up" /\ ai' = 1 => woken')
    PROVE  KillInv'
<1>1. \A u \in Threads : threads'[u] = IF u = t THEN h ELSE threads[u]
  BY SetFrame
<1>2. \A u \in Threads : Asked(threads'[u])
  BY <1>1 DEF KillInv
<1>3. killed' => \A u \in Threads : Covered(threads'[u])
  BY <1>1 DEF KillInv
<1> QED BY <1>2, <1>3 DEF KillInv, SwitchStaysOff

\* So does one that leaves the switch and the ghosts as they are.
LEMMA PassKills ==
    ASSUME TypeInv, KillInv, NEW t \in Threads, NEW h, Set(t, h), Asked(h), Covered(h),
           UNCHANGED <<service, ai, enabled, killed, woken>>
    PROVE  KillInv'
BY SetKills DEF KillInv, SwitchStaysOff

\* So does an answer: who holds AI as on without having asked for it is marked
\* when AI is switched off.
LEMMA AnsweredKills ==
    ASSUME TypeInv, KillInv, NEW t \in Threads, Answered(t),
           killed' => enabled' = 0 /\ (service' = "up" /\ ai' = 1 => woken')
    PROVE  KillInv'
<1>0. \A u \in Threads : threads[u] \in Requests
  BY DEF TypeInv, TypeOK
<1>1. threads'[t] = Idle
  BY AnsweredFrame
<1>2. ASSUME NEW u \in Threads \ {t}
      PROVE  /\ threads'[u].pc = threads[u].pc /\ threads'[u].enabled = threads[u].enabled
             /\ threads'[u].on = threads[u].on /\ (threads[u].old => threads'[u].old)
  BY <1>0, <1>2 DEF Answered, Requests
<1>3. ASSUME NEW u \in Threads \ {t}, killed', ~killed, threads[u].enabled = 1,
             ~threads[u].on
      PROVE  threads'[u].old
  <2>1. threads[t].enabled = 0 /\ ai' = 0 /\ enabled' = 0
    BY <1>3 DEF Answered
  <2> QED BY <1>0, <1>3, <2>1 DEF Answered, Requests
<1>4. \A u \in Threads : Asked(threads'[u])
  BY <1>1, <1>2, IdleAsks DEF KillInv, Asked
<1>5. ASSUME killed', NEW u \in Threads PROVE Covered(threads'[u])
  <2>1. CASE u = t
    BY <1>1, <2>1, IdleAsks
  <2>2. CASE u # t /\ killed
    BY <1>2, <2>2 DEF KillInv, Covered
  <2>3. CASE u # t /\ ~killed
    BY <1>2, <1>3, <1>5, <2>3 DEF KillInv, Asked, Covered
  <2> QED BY <2>1, <2>2, <2>3
<1> QED BY <1>4, <1>5 DEF KillInv, SwitchStaysOff

\* So does a request that arrives.
LEMMA ReceiveKills ==
    ASSUME TypeInv, KillInv, NEW t \in Threads, NEW r, Receive(t, r), Asked(r), Covered(r)
    PROVE  KillInv'
<1>1. Set(t, r) /\ UNCHANGED <<service, ai, enabled, killed, woken>>
  BY DEF Receive, stored
<1> QED BY <1>1, PassKills

\* What a request comes to hold was asked for.
LEMMA RequestAsks ==
    /\ \A e \in {Keep, 0, 1} : Asked(AtSwitch(e)) /\ Covered(AtSwitch(e))
    /\ \A pc \in {"merge", "chat"} :
          Asked([Idle EXCEPT !.pc = pc]) /\ Covered([Idle EXCEPT !.pc = pc])
    /\ \A p : Asked([Idle EXCEPT !.pc = "check", !.provider = p])
            /\ Covered([Idle EXCEPT !.pc = "check", !.provider = p])
    /\ \A c : \A p \in Payloads :
          /\ \A e \in {0, 1} : Asked(Merged(p, e, c))
          /\ Covered(Merged(p, 0, c))
<1>1. \A e \in {Keep, 0, 1} : Asked(AtSwitch(e)) /\ Covered(AtSwitch(e))
  BY DEF AtSwitch, Idle, Asked, Covered
<1>2. \A pc \in {"merge", "chat"} :
          Asked([Idle EXCEPT !.pc = pc]) /\ Covered([Idle EXCEPT !.pc = pc])
  BY DEF Idle, Asked, Covered
<1>3. \A p : Asked([Idle EXCEPT !.pc = "check", !.provider = p])
            /\ Covered([Idle EXCEPT !.pc = "check", !.provider = p])
  BY DEF Idle, Asked, Covered
<1>4. ASSUME NEW p \in Payloads, NEW c
      PROVE  /\ \A e \in {0, 1} : Asked(Merged(p, e, c))
             /\ Covered(Merged(p, 0, c))
  <2>1. /\ \A e : Merged(p, e, c).pc = "write"
        /\ Merged(p, 0, c).enabled = IF p.enabled = Keep THEN 0 ELSE p.enabled
    BY DEF Merged, Idle
  <2>2. \A e \in {0, 1} : Asked(Merged(p, e, c))
    BY <2>1 DEF Asked
  <2>3. CASE p.enabled = 1
    <3>1. Merged(p, 0, c).on
      BY <2>3 DEF Merged, Idle
    <3> QED BY <2>1, <2>2, <3>1 DEF Covered
  <2>4. CASE p.enabled # 1
    <3>1. Merged(p, 0, c).enabled # 1
      BY <2>1, <2>4
    <3> QED BY <2>1, <2>2, <3>1 DEF Covered
  <2> QED BY <2>3, <2>4
<1> QED BY <1>1, <1>2, <1>3, <1>4

\* Every step keeps it.
LEMMA KillStep == TypeInv /\ KillInv /\ [Next]_vars => KillInv'
<1> SUFFICES ASSUME TypeInv, KillInv, [Next]_vars PROVE KillInv'
  OBVIOUS
<1>0. /\ \A t \in Threads : threads[t] \in Requests /\ Held(threads[t]) /\ Asked(threads[t])
      /\ service # "up" => \A t \in Threads : threads[t] = Idle
      /\ enabled \in {0, 1}
  BY DEF TypeInv, TypeOK, KillInv
<1>1. ASSUME NEW t \in Threads, PutState(t) PROVE KillInv'
  BY <1>1, RequestAsks, ReceiveKills DEF PutState
<1>2. ASSUME NEW t \in Threads, MergeState(t) PROVE KillInv'
  <2>1. PICK p \in Payloads : Set(t, Merged(p, enabled, cap))
    BY <1>2 DEF MergeState
  <2>2. UNCHANGED <<service, ai, enabled, killed, woken>>
    BY <1>2 DEF MergeState, stored, ghosts
  <2>3. Asked(Merged(p, enabled, cap))
    BY <1>0, RequestAsks
  <2>4. killed => Covered(Merged(p, enabled, cap))
    BY RequestAsks DEF KillInv, SwitchStaysOff
  <2> QED BY <2>1, <2>2, <2>3, <2>4, SetKills DEF KillInv, SwitchStaysOff
<1>3. ASSUME NEW t \in Threads, WriteState(t) PROVE KillInv'
  <2> DEFINE h == [Idle EXCEPT !.pc = "reread"]
  <2>1. Set(t, h) /\ Asked(h) /\ Covered(h)
    BY <1>3 DEF WriteState, Idle, Asked, Covered
  <2>2. ASSUME killed' PROVE killed /\ enabled' = 0 /\ (service' = "up" /\ ai' = 1 => woken')
    <3>1. killed /\ ~Undoes(t) /\ Covered(threads[t])
      BY <1>3, <2>2 DEF WriteState, KillInv
    <3>2. threads[t].pc = "write" /\ threads[t].enabled \in {0, 1}
      BY <1>0, <1>3 DEF WriteState, At, Held, Requests
    <3>3. threads[t].enabled = 0
      BY <3>1, <3>2 DEF Undoes, Covered
    <3> QED BY <1>3, <2>2, <3>1, <3>3 DEF WriteState, KillInv, SwitchStaysOff
  <2> HIDE DEF h
  <2> QED BY <2>1, <2>2, SetKills
<1>4. ASSUME NEW t \in Threads, RereadState(t) PROVE KillInv'
  <2> DEFINE h == [threads[t] EXCEPT !.pc = "assign", !.enabled = enabled]
  <2>1. Set(t, h) /\ UNCHANGED <<service, ai, enabled, killed, woken>>
    BY <1>4 DEF RereadState, stored, ghosts
  <2>2. h.pc = "assign" /\ h.enabled = enabled /\ ~h.on
    BY <1>0, <1>4 DEF RereadState, At, Asked, Requests
  <2> HIDE DEF h
  <2>3. Asked(h) /\ (killed => Covered(h))
    BY <2>2 DEF Asked, Covered, KillInv, SwitchStaysOff
  <2> QED BY <2>1, <2>3, SetKills DEF KillInv, SwitchStaysOff
<1>5. ASSUME NEW t \in Threads, AssignState(t) PROVE KillInv'
  <2>1. /\ threads[t].pc = "assign" /\ threads[t].enabled \in {0, 1}
        /\ ai' = threads[t].enabled /\ UNCHANGED <<service, enabled>> /\ Answered(t)
    BY <1>0, <1>5 DEF AssignState, At, Held, Requests, stored
  <2>2. ASSUME killed' PROVE enabled' = 0 /\ ai' = 0
    <3>1. CASE threads[t].enabled = 0 /\ ai' = 0 /\ enabled' = 0
      BY <3>1
    <3>2. CASE killed /\ ~Undoes(t)
      <4>1. Covered(threads[t]) /\ enabled = 0
        BY <3>2 DEF KillInv, SwitchStaysOff
      <4> QED BY <2>1, <3>2, <4>1 DEF Covered, Undoes
    <3> QED BY <2>1, <2>2, <3>1, <3>2 DEF Answered
  <2> QED BY <2>1, <2>2, AnsweredKills
<1>6. ASSUME NEW t \in Threads, PutSettings(t) PROVE KillInv'
  BY <1>6, RequestAsks, ReceiveKills DEF PutSettings
<1>7. ASSUME NEW t \in Threads, ReadDialogueRoute(t) PROVE KillInv'
  <2> DEFINE h == [threads[t] EXCEPT !.pc = "chat check", !.provider = route]
  <2>1. Set(t, h) /\ UNCHANGED <<service, ai, enabled, killed, woken>>
    BY <1>7 DEF ReadDialogueRoute, stored, ghosts
  <2>2. h.pc = "chat check"
    BY <1>0 DEF Requests
  <2> HIDE DEF h
  <2> QED BY <2>1, <2>2, PassKills DEF Asked, Covered
<1>8. ASSUME NEW t \in Threads, SaveDialogueRoute(t) PROVE KillInv'
  <2>1. PICK e \in {Keep, 0, 1} : Set(t, AtSwitch(e))
    BY <1>8 DEF SaveDialogueRoute
  <2>2. UNCHANGED <<service, ai, enabled, killed, woken>>
    BY <1>8 DEF SaveDialogueRoute, ghosts
  <2> QED BY <2>1, <2>2, RequestAsks, PassKills
<1>9. ASSUME NEW t \in Threads, AssignSwitch(t) PROVE KillInv'
  <2> DEFINE h == [threads[t] EXCEPT !.pc = "validate"]
  <2>1. Set(t, h) /\ UNCHANGED <<service, enabled, killed>>
    BY <1>9 DEF AssignSwitch, Goto, stored
  <2>2. h.pc = "validate" /\ h.enabled = threads[t].enabled /\ h.on = threads[t].on
    BY <1>0 DEF Requests
  <2> HIDE DEF h
  <2>3. Asked(h) /\ Covered(h)
    BY <1>0, <1>9, <2>2 DEF AssignSwitch, At, Asked, Covered
  <2>4. killed => (service = "up" /\ ai' = 1 => woken')
    BY <1>9 DEF AssignSwitch, KillInv, SwitchStaysOff
  <2> QED BY <2>1, <2>3, <2>4, SetKills DEF KillInv, SwitchStaysOff
<1>10. ASSUME NEW t \in Threads, RejectSettings(t) PROVE KillInv'
  <2>1. Set(t, Idle) /\ UNCHANGED <<service, ai, enabled, killed, woken>>
    BY <1>10 DEF RejectSettings, Done, stored
  <2> QED BY <2>1, IdleAsks, PassKills
<1>11. ASSUME NEW t \in Threads, StoreSettings(t) PROVE KillInv'
  <2>1. /\ threads[t].pc = "validate" /\ threads[t].enabled \in {Keep, 0, 1}
        /\ enabled' = IF threads[t].enabled = Keep THEN enabled ELSE threads[t].enabled
        /\ UNCHANGED <<service, ai>> /\ Answered(t)
    BY <1>0, <1>11 DEF StoreSettings, At, Requests
  <2>2. ASSUME killed' PROVE enabled' = 0 /\ (service' = "up" /\ ai' = 1 => woken')
    <3>1. CASE threads[t].enabled = 0 /\ ai' = 0 /\ enabled' = 0
      BY <3>1
    <3>2. CASE killed /\ ~Undoes(t) /\ ~(threads[t].enabled = 0 /\ ai' = 0 /\ enabled' = 0)
      <4>1. threads[t].enabled # 1
        BY <1>0, <2>1, <3>2 DEF Asked, Undoes
      <4>2. woken' = woken
        BY <2>1, <2>2, <3>2 DEF Answered, KillInv, SwitchStaysOff, TypeInv, TypeOK
      <4> QED BY <2>1, <3>2, <4>1, <4>2 DEF KillInv, SwitchStaysOff
    <3> QED BY <2>1, <2>2, <3>1, <3>2 DEF Answered
  <2> QED BY <2>1, <2>2, AnsweredKills
<1>12. ASSUME NEW t \in Threads, PutRouting(t) PROVE KillInv'
  BY <1>12, RequestAsks, ReceiveKills DEF PutRouting
<1>13. ASSUME NEW t \in Threads, CheckProvider(t) PROVE KillInv'
  <2> DEFINE h == IF profile[threads[t].provider] = "absent" THEN Idle
                   ELSE [threads[t] EXCEPT !.pc =
                           IF threads[t].pc = "check" THEN "save" ELSE "chat save"]
  <2>1. Set(t, h) /\ UNCHANGED <<service, ai, enabled, killed, woken>>
    BY <1>13 DEF CheckProvider, Done, Goto, stored, ghosts
  <2>2. h.pc \in {"idle", "save", "chat save"}
    BY <1>0, IdleTypes DEF Requests
  <2> HIDE DEF h
  <2> QED BY <2>1, <2>2, PassKills DEF Asked, Covered
<1>14. ASSUME NEW t \in Threads, SaveRoute(t) PROVE KillInv'
  <2>1. Set(t, Idle) /\ UNCHANGED <<service, ai, enabled, killed, woken>>
    BY <1>14 DEF SaveRoute, Done, ghosts
  <2> QED BY <2>1, IdleAsks, PassKills
<1>15. ASSUME NEW t \in Threads, SaveRouteFails(t) PROVE KillInv'
  <2>1. Set(t, Idle) /\ UNCHANGED <<service, ai, enabled, killed, woken>>
    BY <1>15 DEF SaveRouteFails, Done, stored, ghosts
  <2> QED BY <2>1, IdleAsks, PassKills
<1>16. ASSUME SaveProvider PROVE KillInv'
  BY <1>16 DEF SaveProvider, KillInv, SwitchStaysOff, ghosts
<1>17. ASSUME DeleteProvider PROVE KillInv'
  BY <1>17 DEF DeleteProvider, KillInv, SwitchStaysOff, ghosts
<1>18. ASSUME StartGeneration PROVE KillInv'
  BY <1>18 DEF StartGeneration, KillInv, SwitchStaysOff, stored, ghosts
<1>19. ASSUME ReadProfile PROVE KillInv'
  BY <1>19 DEF ReadProfile, KillInv, SwitchStaysOff, stored, ghosts
<1>20. ASSUME ReadCap PROVE KillInv'
  BY <1>20 DEF ReadCap, KillInv, SwitchStaysOff, stored, ghosts
<1>21. ASSUME ReadUsage PROVE KillInv'
  BY <1>21 DEF ReadUsage, KillInv, SwitchStaysOff, stored, ghosts
<1>22. ASSUME FinishCall PROVE KillInv'
  BY <1>22 DEF FinishCall, KillInv, SwitchStaysOff, ghosts
<1>23. ASSUME FailCall PROVE KillInv'
  BY <1>23 DEF FailCall, KillInv, SwitchStaysOff, stored, ghosts
<1>24. ASSUME NewMonth PROVE KillInv'
  BY <1>24 DEF NewMonth, KillInv, SwitchStaysOff
<1>25. ASSUME Crash PROVE KillInv'
  <2>1. \A t \in Threads : threads'[t] = Idle
    BY <1>25 DEF Crash
  <2> QED BY <1>25, <2>1, IdleAsks DEF Crash, KillInv, SwitchStaysOff, stored
<1>26. ASSUME Start PROVE KillInv'
  BY <1>26 DEF Start, KillInv, SwitchStaysOff, stored
<1>27. ASSUME ImportProvider PROVE KillInv'
  BY <1>27 DEF ImportProvider, KillInv, SwitchStaysOff, ghosts
<1>28. ASSUME ImportRoute PROVE KillInv'
  BY <1>28 DEF ImportRoute, KillInv, SwitchStaysOff
<1>29. CASE UNCHANGED vars
  BY <1>29 DEF vars, stored, ghosts, KillInv, SwitchStaysOff
<1>30. ASSUME NEW t \in Threads, StateFails(t) PROVE KillInv'
  <2>1. Set(t, Idle) /\ UNCHANGED <<service, ai, enabled, killed, woken>>
    BY <1>30 DEF StateFails, Done, stored
  <2> QED BY <2>1, IdleAsks, PassKills
<1> QED BY <1>1, <1>2, <1>3, <1>4, <1>5, <1>6, <1>7, <1>8, <1>9, <1>10, <1>11, <1>12,
           <1>13, <1>14, <1>15, <1>16, <1>17, <1>18, <1>19, <1>20, <1>21, <1>22, <1>23,
           <1>24, <1>25, <1>26, <1>27, <1>28, <1>29, <1>30 DEF Next, State, Settings,
           Routing, Worker, Host

----------------------------------------------------------------------------
(* The switch in memory and the switch in the table.                       *)

\* What is in step while a request runs by itself.
InStep(r, a, e) ==
    /\ r.pc \notin {"reread", "assign", "validate"} => a = e
    /\ r.pc = "assign" => r.enabled = e
    /\ r.pc = "validate" => a = IF r.enabled = Keep THEN e ELSE r.enabled
AgreeInv ==
    service = "up" /\ ~torn =>
        /\ (\A t \in Threads : threads[t].pc = "idle") => ai = enabled
        /\ \A t \in Threads : threads[t].pc # "idle" =>
              Alone(t) /\ InStep(threads[t], ai, enabled)

\* A thread that goes on keeps it, while the others stay where they are.
LEMMA StepAgrees ==
    ASSUME AgreeInv, NEW t \in Threads, NEW h, threads'[t] = h, threads[t].pc # "idle",
           \A u \in Threads \ {t} : threads'[u].pc = threads[u].pc,
           service' = service, ~torn' => ~torn /\ InStep(h, ai', enabled')
    PROVE  AgreeInv'
<1> SUFFICES ASSUME service' = "up", ~torn'
             PROVE  /\ (\A u \in Threads : threads'[u].pc = "idle") => ai' = enabled'
                    /\ \A u \in Threads : threads'[u].pc # "idle" =>
                          Alone(u)' /\ InStep(threads'[u], ai', enabled')
  BY DEF AgreeInv
<1>1. InStep(h, ai', enabled') /\ \A u \in Threads \ {t} : threads'[u].pc = "idle"
  BY DEF AgreeInv, Alone
<1>2. (\A u \in Threads : threads'[u].pc = "idle") => ai' = enabled'
  BY <1>1 DEF InStep
<1>3. ASSUME NEW u \in Threads, threads'[u].pc # "idle"
      PROVE  Alone(u)' /\ InStep(threads'[u], ai', enabled')
  <2>1. u = t
    BY <1>1, <1>3
  <2> QED BY <1>1, <2>1 DEF Alone
<1> QED BY <1>2, <1>3

\* So does one that changes nothing but its own place.
LEMMA SetAgrees ==
    ASSUME TypeInv, AgreeInv, NEW t \in Threads, NEW h, Set(t, h), threads[t].pc # "idle",
           service' = service, ~torn' => ~torn /\ InStep(h, ai', enabled')
    PROVE  AgreeInv'
BY SetFrame, StepAgrees

\* So does an answer.
LEMMA AnsweredAgrees ==
    ASSUME TypeInv, AgreeInv, NEW t \in Threads, Answered(t), threads[t].pc # "idle",
           service' = service, ~torn => ai' = enabled'
    PROVE  AgreeInv'
<1>0. \A u \in Threads : threads[u] \in Requests
  BY DEF TypeInv, TypeOK
<1>1. threads'[t] = Idle /\ \A u \in Threads \ {t} : threads'[u].pc = threads[u].pc
  <2>1. threads'[t] = Idle
    BY AnsweredFrame
  <2>2. ASSUME NEW u \in Threads \ {t} PROVE threads'[u].pc = threads[u].pc
    <3>1. PICK o \in BOOLEAN : threads'[u] = [threads[u] EXCEPT !.old = o]
      BY <2>2, AnsweredFrame
    <3> QED BY <1>0, <3>1 DEF Requests
  <2> QED BY <2>1, <2>2
<1>2. ~torn' => ~torn /\ InStep(Idle, ai', enabled')
  BY IdleTypes DEF Answered, InStep
<1> QED BY <1>1, <1>2, StepAgrees

\* So does a request that arrives.
LEMMA ReceiveAgrees ==
    ASSUME TypeInv, AgreeInv, NEW t \in Threads, NEW r, Receive(t, r),
           r.pc \in {"merge", "chat", "switch", "check"}
    PROVE  AgreeInv'
<1>1. \A u \in Threads : threads'[u] = IF u = t THEN r ELSE threads[u]
  BY SetFrame DEF Receive
<1>2. /\ threads[t].pc = "idle" /\ UNCHANGED <<service, ai, enabled>>
      /\ ~torn' => ~torn /\ Alone(t)
  BY DEF Receive, stored, At
<1>3. ASSUME service' = "up", ~torn' PROVE ai' = enabled'
  BY <1>2, <1>3 DEF AgreeInv, Alone
<1> QED BY <1>1, <1>2, <1>3 DEF AgreeInv, Alone, InStep

\* Every step keeps it.
LEMMA AgreeStep == TypeInv /\ AgreeInv /\ [Next]_vars => AgreeInv'
<1> SUFFICES ASSUME TypeInv, AgreeInv, [Next]_vars PROVE AgreeInv'
  OBVIOUS
<1>0. /\ TypeOK /\ \A t \in Threads : threads[t] \in Requests /\ Held(threads[t])
      /\ profile \in [Providers -> {"absent", "enabled", "disabled"}]
      /\ service # "up" => \A t \in Threads : threads[t] = Idle
  BY DEF TypeInv, TypeOK
<1>1. ASSUME NEW t \in Threads, PutState(t) PROVE AgreeInv'
  <2>1. [Idle EXCEPT !.pc = "merge"].pc = "merge"
    BY DEF Idle
  <2> QED BY <1>1, <2>1, ReceiveAgrees DEF PutState
<1>2. ASSUME NEW t \in Threads, MergeState(t) PROVE AgreeInv'
  <2>1. PICK p \in Payloads : Set(t, Merged(p, enabled, cap))
    BY <1>2 DEF MergeState
  <2>2. /\ threads[t].pc = "merge" /\ service = "up"
        /\ UNCHANGED <<service, ai, enabled, torn>>
    BY <1>2 DEF MergeState, At, stored, ghosts
  <2>3. Merged(p, enabled, cap).pc = "write"
    BY DEF Merged, Idle
  <2> QED BY <2>1, <2>2, <2>3, SetAgrees DEF AgreeInv, InStep
<1>3. ASSUME NEW t \in Threads, WriteState(t) PROVE AgreeInv'
  <2> DEFINE h == [Idle EXCEPT !.pc = "reread"]
  <2>1. Set(t, h) /\ threads[t].pc # "idle" /\ service' = service /\ service = "up"
    BY <1>3 DEF WriteState, At
  <2>2. ~torn' => ~torn
    BY <1>3 DEF WriteState
  <2>3. ASSUME ~torn' PROVE InStep(h, ai', enabled')
    <3>1. InStep(threads[t], ai, enabled)
      BY <2>1, <2>2, <2>3 DEF AgreeInv
    <3> QED BY <1>0, <1>3, <2>3, <3>1, IdleTypes, Markers
            DEF WriteState, At, InStep, Idle, Requests
  <2> HIDE DEF h
  <2> QED BY <2>1, <2>2, <2>3, SetAgrees
<1>4. ASSUME NEW t \in Threads, RereadState(t) PROVE AgreeInv'
  <2> DEFINE h == [threads[t] EXCEPT !.pc = "assign", !.enabled = enabled]
  <2>1. Set(t, h) /\ threads[t].pc # "idle" /\ service' = service /\ service = "up"
    BY <1>4 DEF RereadState, At
  <2>2. ~torn' => ~torn
    BY <1>4 DEF RereadState, ghosts
  <2>3. ASSUME ~torn' PROVE InStep(h, ai', enabled')
    <3>1. InStep(threads[t], ai, enabled)
      BY <2>1, <2>2, <2>3 DEF AgreeInv
    <3> QED BY <1>0, <1>4, <2>3, <3>1, IdleTypes, Markers
            DEF RereadState, At, InStep, Requests, stored, ghosts
  <2> HIDE DEF h
  <2> QED BY <2>1, <2>2, <2>3, SetAgrees
<1>5. ASSUME NEW t \in Threads, AssignState(t) PROVE AgreeInv'
  <2>1. /\ threads[t].pc = "assign" /\ service = "up" /\ ai' = threads[t].enabled
        /\ UNCHANGED <<service, enabled>> /\ Answered(t)
    BY <1>5 DEF AssignState, At, stored
  <2> QED BY <2>1, AnsweredAgrees DEF AgreeInv, InStep
<1>6. ASSUME NEW t \in Threads, PutSettings(t) PROVE AgreeInv'
  <2>1. /\ [Idle EXCEPT !.pc = "chat"].pc = "chat"
        /\ \A e \in {0, 1} : AtSwitch(e).pc = "switch"
    BY DEF AtSwitch, Idle
  <2> QED BY <1>6, <2>1, ReceiveAgrees DEF PutSettings
<1>7. ASSUME NEW t \in Threads, ReadDialogueRoute(t) PROVE AgreeInv'
  <2> DEFINE h == [threads[t] EXCEPT !.pc = "chat check", !.provider = route]
  <2>1. Set(t, h) /\ threads[t].pc # "idle" /\ service' = service /\ service = "up"
    BY <1>7 DEF ReadDialogueRoute, At
  <2>2. ~torn' => ~torn
    BY <1>7 DEF ReadDialogueRoute, ghosts
  <2>3. ASSUME ~torn' PROVE InStep(h, ai', enabled')
    <3>1. InStep(threads[t], ai, enabled)
      BY <2>1, <2>2, <2>3 DEF AgreeInv
    <3> QED BY <1>0, <1>7, <2>3, <3>1, IdleTypes, Markers
            DEF ReadDialogueRoute, At, InStep, Requests, stored, ghosts
  <2> HIDE DEF h
  <2> QED BY <2>1, <2>2, <2>3, SetAgrees
<1>8. ASSUME NEW t \in Threads, SaveDialogueRoute(t) PROVE AgreeInv'
  <2>1. PICK e \in {Keep, 0, 1} : Set(t, AtSwitch(e))
    BY <1>8 DEF SaveDialogueRoute
  <2>2. /\ threads[t].pc = "chat save" /\ service = "up"
        /\ UNCHANGED <<service, ai, enabled, torn>>
    BY <1>8 DEF SaveDialogueRoute, At, ghosts
  <2>3. AtSwitch(e).pc = "switch"
    BY DEF AtSwitch, Idle
  <2> QED BY <2>1, <2>2, <2>3, SetAgrees DEF AgreeInv, InStep
<1>9. ASSUME NEW t \in Threads, AssignSwitch(t) PROVE AgreeInv'
  <2> DEFINE h == [threads[t] EXCEPT !.pc = "validate"]
  <2>1. Set(t, h) /\ threads[t].pc # "idle" /\ service' = service /\ service = "up"
    BY <1>9 DEF AssignSwitch, Goto, At
  <2>2. ~torn' => ~torn
    BY <1>9 DEF AssignSwitch
  <2>3. ASSUME ~torn' PROVE InStep(h, ai', enabled')
    <3>1. InStep(threads[t], ai, enabled)
      BY <2>1, <2>2, <2>3 DEF AgreeInv
    <3> QED BY <1>0, <1>9, <2>3, <3>1, IdleTypes, Markers
            DEF AssignSwitch, At, InStep, Requests, stored
  <2> HIDE DEF h
  <2> QED BY <2>1, <2>2, <2>3, SetAgrees
<1>10. ASSUME NEW t \in Threads, RejectSettings(t) PROVE AgreeInv'
  <2> DEFINE h == Idle
  <2>1. Set(t, h) /\ threads[t].pc # "idle" /\ service' = service /\ service = "up"
    BY <1>10 DEF RejectSettings, Done, At
  <2>2. ~torn' => ~torn
    BY <1>10 DEF RejectSettings
  <2>3. ASSUME ~torn' PROVE InStep(h, ai', enabled')
    <3>1. InStep(threads[t], ai, enabled)
      BY <2>1, <2>2, <2>3 DEF AgreeInv
    <3> QED BY <1>0, <1>10, <2>3, <3>1, IdleTypes, Markers
            DEF RejectSettings, At, InStep, Requests, stored
  <2> HIDE DEF h
  <2> QED BY <2>1, <2>2, <2>3, SetAgrees
<1>11. ASSUME NEW t \in Threads, StoreSettings(t) PROVE AgreeInv'
  <2>1. /\ threads[t].pc = "validate" /\ service = "up"
        /\ enabled' = IF threads[t].enabled = Keep THEN enabled ELSE threads[t].enabled
        /\ UNCHANGED <<service, ai>> /\ Answered(t)
    BY <1>11 DEF StoreSettings, At
  <2> QED BY <2>1, AnsweredAgrees DEF AgreeInv, InStep
<1>12. ASSUME NEW t \in Threads, PutRouting(t) PROVE AgreeInv'
  <2>1. \A p : [Idle EXCEPT !.pc = "check", !.provider = p].pc = "check"
    BY DEF Idle
  <2> QED BY <1>12, <2>1, ReceiveAgrees DEF PutRouting
<1>13. ASSUME NEW t \in Threads, CheckProvider(t) PROVE AgreeInv'
  <2> DEFINE h == IF profile[threads[t].provider] = "absent" THEN Idle
                   ELSE [threads[t] EXCEPT !.pc =
                           IF threads[t].pc = "check" THEN "save" ELSE "chat save"]
  <2>1. Set(t, h) /\ threads[t].pc # "idle" /\ service' = service /\ service = "up"
    BY <1>13 DEF CheckProvider, Done, Goto, At
  <2>2. ~torn' => ~torn
    BY <1>13 DEF CheckProvider, ghosts
  <2>3. ASSUME ~torn' PROVE InStep(h, ai', enabled')
    <3>1. InStep(threads[t], ai, enabled)
      BY <2>1, <2>2, <2>3 DEF AgreeInv
    <3> QED BY <1>0, <1>13, <2>3, <3>1, IdleTypes, Markers
            DEF CheckProvider, At, InStep, Requests, stored, ghosts
  <2> HIDE DEF h
  <2> QED BY <2>1, <2>2, <2>3, SetAgrees
<1>14. ASSUME NEW t \in Threads, SaveRoute(t) PROVE AgreeInv'
  <2> DEFINE h == Idle
  <2>1. Set(t, h) /\ threads[t].pc # "idle" /\ service' = service /\ service = "up"
    BY <1>14 DEF SaveRoute, Done, At
  <2>2. ~torn' => ~torn
    BY <1>14 DEF SaveRoute, ghosts
  <2>3. ASSUME ~torn' PROVE InStep(h, ai', enabled')
    <3>1. InStep(threads[t], ai, enabled)
      BY <2>1, <2>2, <2>3 DEF AgreeInv
    <3> QED BY <1>0, <1>14, <2>3, <3>1, IdleTypes, Markers
            DEF SaveRoute, At, InStep, Requests, ghosts
  <2> HIDE DEF h
  <2> QED BY <2>1, <2>2, <2>3, SetAgrees
<1>15. ASSUME NEW t \in Threads, SaveRouteFails(t) PROVE AgreeInv'
  <2> DEFINE h == Idle
  <2>1. Set(t, h) /\ threads[t].pc # "idle" /\ service' = service /\ service = "up"
    BY <1>15 DEF SaveRouteFails, Done, At
  <2>2. ~torn' => ~torn
    BY <1>15 DEF SaveRouteFails, ghosts
  <2>3. ASSUME ~torn' PROVE InStep(h, ai', enabled')
    <3>1. InStep(threads[t], ai, enabled)
      BY <2>1, <2>2, <2>3 DEF AgreeInv
    <3> QED BY <1>0, <1>15, <2>3, <3>1, IdleTypes, Markers
            DEF SaveRouteFails, At, InStep, Requests, stored, ghosts
  <2> HIDE DEF h
  <2> QED BY <2>1, <2>2, <2>3, SetAgrees
<1>16. ASSUME SaveProvider PROVE AgreeInv'
  BY <1>16 DEF SaveProvider, AgreeInv, Alone, ghosts
<1>17. ASSUME DeleteProvider PROVE AgreeInv'
  BY <1>17 DEF DeleteProvider, AgreeInv, Alone, ghosts
<1>18. ASSUME StartGeneration PROVE AgreeInv'
  BY <1>18 DEF StartGeneration, AgreeInv, Alone, stored, ghosts
<1>19. ASSUME ReadProfile PROVE AgreeInv'
  BY <1>19 DEF ReadProfile, AgreeInv, Alone, stored, ghosts
<1>20. ASSUME ReadCap PROVE AgreeInv'
  BY <1>20 DEF ReadCap, AgreeInv, Alone, stored, ghosts
<1>21. ASSUME ReadUsage PROVE AgreeInv'
  BY <1>21 DEF ReadUsage, AgreeInv, Alone, stored, ghosts
<1>22. ASSUME FinishCall PROVE AgreeInv'
  BY <1>22 DEF FinishCall, AgreeInv, Alone, ghosts
<1>23. ASSUME FailCall PROVE AgreeInv'
  BY <1>23 DEF FailCall, AgreeInv, Alone, stored, ghosts
<1>24. ASSUME NewMonth PROVE AgreeInv'
  BY <1>24 DEF NewMonth, AgreeInv, Alone
<1>25. ASSUME Crash PROVE AgreeInv'
  BY <1>25 DEF Crash, AgreeInv
<1>26. ASSUME Start PROVE AgreeInv'
  <2>1. \A t \in Threads : threads'[t].pc = "idle"
    BY <1>0, <1>26, IdleTypes DEF Start
  <2> QED BY <1>26, <2>1 DEF Start, AgreeInv, stored
<1>27. ASSUME ImportProvider PROVE AgreeInv'
  BY <1>27 DEF ImportProvider, AgreeInv
<1>28. ASSUME ImportRoute PROVE AgreeInv'
  <2>1. \A t \in Threads : threads'[t].pc = "idle"
    BY <1>0, <1>28, IdleTypes DEF ImportRoute
  <2> QED BY <1>28, <2>1 DEF ImportRoute, AgreeInv
<1>29. CASE UNCHANGED vars
  BY <1>29 DEF vars, stored, ghosts, AgreeInv, Alone
<1>30. ASSUME NEW t \in Threads, StateFails(t) PROVE AgreeInv'
  <2>1. /\ Set(t, Idle) /\ threads[t].pc \in {"merge", "write", "reread"} /\ service = "up"
        /\ UNCHANGED <<service, ai, enabled>>
        /\ torn' = (torn \/ threads[t].pc = "reread")
    BY <1>30 DEF StateFails, Done, At, stored
  <2>2. ~torn' => ~torn /\ InStep(Idle, ai', enabled')
    BY <2>1, IdleTypes DEF AgreeInv, InStep
  <2> QED BY <2>1, <2>2, SetAgrees
<1> QED BY <1>1, <1>2, <1>3, <1>4, <1>5, <1>6, <1>7, <1>8, <1>9, <1>10, <1>11, <1>12,
           <1>13, <1>14, <1>15, <1>16, <1>17, <1>18, <1>19, <1>20, <1>21, <1>22, <1>23,
           <1>24, <1>25, <1>26, <1>27, <1>28, <1>29, <1>30 DEF Next, State, Settings, Routing,
           Worker, Host

----------------------------------------------------------------------------
(* The theorems.                                                           *)

\* Initially the service is down, and nothing has been asked or spent.
LEMMA Begins == Init => TypeInv /\ RouteInv /\ BudgetInv /\ KillInv /\ AgreeInv
<1> SUFFICES ASSUME Init PROVE TypeInv /\ RouteInv /\ BudgetInv /\ KillInv /\ AgreeInv
  OBVIOUS
<1>1. TypeInv
  <2>1. /\ threads \in [Threads -> Requests] /\ \A t \in Threads : threads[t] = Idle
        /\ worker \in Generations
    BY IdleTypes, GenerationTypes DEF Init
  <2>2. /\ spent \in 0 .. MaxSpent /\ cap \in Caps \cup {NoCap} /\ high \in Caps \cup {NoCap}
    BY AIControlAssumption DEF Init
  <2>3. /\ profile \in [Providers -> {"absent", "enabled", "disabled"}] /\ route \in Providers
    BY DEF Init, Providers
  <2> QED BY <2>1, <2>2, <2>3, IdleTypes DEF Init, TypeInv, TypeOK
<1>2. RouteInv
  BY Markers DEF Init, RouteInv, RouteExists
<1>3. BudgetInv
  BY DEF Init, BudgetInv
<1>4. KillInv
  BY IdleAsks DEF Init, KillInv, SwitchStaysOff
<1>5. AgreeInv
  BY DEF Init, AgreeInv
<1> QED BY <1>1, <1>2, <1>3, <1>4, <1>5

\* In every state the threads are well-formed and hold what they should.
LEMMA ThreadsSound == Spec => []TypeInv
<1>1. TypeInv /\ [Next]_vars => TypeInv'
  BY TypeStep
<1> QED BY Begins, <1>1, PTL DEF Spec

\* The variables keep their types, whatever the number of requests.
THEOREM TypesHold == Spec => []TypeOK
<1>1. TypeInv => TypeOK
  BY DEF TypeInv
<1> QED BY ThreadsSound, <1>1, PTL

\* A route always leads to a profile that exists.
THEOREM RoutesExist == Spec => []RouteExists
<1>1. TypeInv /\ RouteInv /\ [Next]_vars => RouteInv'
  BY RouteStep
<1>2. RouteInv => RouteExists
  BY DEF RouteInv
<1> QED BY Begins, ThreadsSound, <1>1, <1>2, PTL DEF Spec

\* A month's bookings never pass the highest cap of the month by a whole call.
THEOREM TheBudgetHolds == Spec => []BudgetHolds
<1>1. TypeInv /\ BudgetInv /\ [Next]_vars => BudgetInv'
  BY BudgetStep
<1>2. BudgetInv => BudgetHolds
  BY DEF BudgetInv, BudgetHolds
<1> QED BY Begins, ThreadsSound, <1>1, <1>2, PTL DEF Spec

\* AI that was switched off stays off in the table until a request that asks
\* for it, or that had read it as on, is stored; in memory it is on only where
\* such a request, stored or rejected, has woken it, until the next start.
THEOREM TheSwitchStaysOff == Spec => []SwitchStaysOff
<1>1. TypeInv /\ KillInv /\ [Next]_vars => KillInv'
  BY KillStep
<1>2. KillInv => SwitchStaysOff
  BY DEF KillInv
<1> QED BY Begins, ThreadsSound, <1>1, <1>2, PTL DEF Spec

\* Memory and table agree on the switch when no request is under way.
THEOREM TheSwitchAgrees == Spec => []SwitchAgrees
<1>1. TypeInv /\ AgreeInv /\ [Next]_vars => AgreeInv'
  BY AgreeStep
<1>2. AgreeInv => SwitchAgrees
  BY IdleTypes DEF AgreeInv, SwitchAgrees
<1> QED BY Begins, ThreadsSound, <1>1, <1>2, PTL DEF Spec

=============================================================================
