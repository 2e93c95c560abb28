------------------------ MODULE ControlAgent_proofs ------------------------
(***************************************************************************)
(* Proofs about ControlAgent, for every number of requests handled at a    *)
(* time.                                                                   *)
(***************************************************************************)
EXTENDS ControlAgent, TLAPS

----------------------------------------------------------------------------
(* Type correctness.                                                       *)

\* The keys the agent writes.
Jobs == {Write(World, "PlayerLimit", Value), Write(World, "GameType", Value)}
        \cup {Write(House, "GUID", g) : g \in Values}
        \cup {Write(House, "EnableSeller", s) : s \in Values}

\* A thread has keys to write exactly while it writes, and an idle one has
\* changed nothing.
Held(r) == /\ r.todo # <<>> <=> r.pc \in {"read", "open", "write", "replace"}
           /\ r.pc = "idle" => ~r.changed

\* The invariant of the types.
TypeInv == TypeOK /\ \A t \in Threads : Held(threads[t])

\* The next key of a list is one of Jobs and a line of its file; a further
\* key is of the same file.
LEMMA TodoFacts ==
    ASSUME NEW d \in Todos, d # <<>>
    PROVE  /\ Head(d) \in Jobs /\ Tail(d) \in Todos
           /\ After(Head(d)) \in {"house", "type", "check", "read"}
           /\ After(Head(d)) = "read" <=> Tail(d) # <<>>
           /\ Tail(d) # <<>> => /\ Head(d).key = "GUID" /\ Head(d).file = House
                                /\ Head(Tail(d)).key = "EnableSeller"
                                /\ Head(Tail(d)).file = House
                                /\ Tail(Tail(d)) = <<>>
<1>1. CASE d = <<Write(World, "PlayerLimit", Value)>>
  BY <1>1 DEF Todos, Jobs, Write, After
<1>2. CASE d = <<Write(World, "GameType", Value)>>
  BY <1>2 DEF Todos, Jobs, Write, After
<1>3. ASSUME NEW g \in Values, NEW s \in Values,
             d = <<Write(House, "GUID", g), Write(House, "EnableSeller", s)>>
      PROVE  /\ Head(d) = Write(House, "GUID", g)
             /\ Tail(d) = <<Write(House, "EnableSeller", s)>>
             /\ Head(Tail(d)) = Write(House, "EnableSeller", s) /\ Tail(Tail(d)) = <<>>
  BY <1>3
<1>4. ASSUME NEW s \in Values, d = <<Write(House, "EnableSeller", s)>>
      PROVE  Head(d) = Write(House, "EnableSeller", s) /\ Tail(d) = <<>>
  BY <1>4
<1>5. CASE \E g \in Values, s \in Values :
               d = <<Write(House, "GUID", g), Write(House, "EnableSeller", s)>>
  <2>1. PICK g \in Values, s \in Values :
               d = <<Write(House, "GUID", g), Write(House, "EnableSeller", s)>>
    BY <1>5
  <2>2. /\ Head(d) = Write(House, "GUID", g)
        /\ Tail(d) = <<Write(House, "EnableSeller", s)>>
        /\ Head(Tail(d)) = Write(House, "EnableSeller", s) /\ Tail(Tail(d)) = <<>>
    BY <1>3, <2>1
  <2>3. Head(d) \in Jobs /\ Tail(d) \in Todos /\ Tail(d) # <<>>
    BY <2>2 DEF Jobs, Todos
  <2> QED BY <2>2, <2>3 DEF Write, After
<1>6. CASE \E s \in Values : d = <<Write(House, "EnableSeller", s)>>
  <2>1. PICK s \in Values : d = <<Write(House, "EnableSeller", s)>>
    BY <1>6
  <2>2. Head(d) = Write(House, "EnableSeller", s) /\ Tail(d) = <<>>
    BY <1>4, <2>1
  <2>3. Head(d) \in Jobs /\ Tail(d) \in Todos
    BY <2>2 DEF Jobs, Todos
  <2> QED BY <2>2, <2>3 DEF Write, After
<1> QED BY <1>1, <1>2, <1>5, <1>6 DEF Todos

\* The last key of the auction house is that of the seller.
LEMMA HouseAlone ==
    ASSUME NEW d \in Todos, d # <<>>, Tail(d) = <<>>, Head(d).file = House
    PROVE  Head(d).key = "EnableSeller"
<1>1. World # House
  BY DEF World, House
<1>2. ASSUME NEW g \in Values, NEW s \in Values
      PROVE  Tail(<<Write(House, "GUID", g), Write(House, "EnableSeller", s)>>) # <<>>
  OBVIOUS
<1> QED BY <1>1, <1>2 DEF Todos, Write

\* A key is a line of its file, and its value a value.
LEMMA JobFacts ==
    ASSUME NEW w \in Jobs
    PROVE  /\ w.file \in Files /\ w.key \in Lines(w.file) /\ w.key \in AllLines
           /\ w.value \in Values
           /\ w.file = House => w.key \in {"GUID", "EnableSeller"}
BY DEF Jobs, Write, Files, World, House, Lines, AllLines, Values, Value

\* A text with a key changed is a text.
LEMMA ChangedTyped ==
    ASSUME NEW now \in Contents, NEW w \in Jobs
    PROVE  Changed(now, w) \in Contents
<1>1. PICK L \in SUBSET AllLines : now \in [L -> Values]
  BY DEF Contents
<1>2. L \cup {w.key} \in SUBSET AllLines
  BY <1>1, JobFacts
<1>3. DOMAIN now = L /\ \A l \in L : now[l] \in Values
  BY <1>1
<1>4. Changed(now, w) \in [L \cup {w.key} -> Values]
  BY <1>3, JobFacts DEF Changed
<1> QED BY <1>2, <1>4 DEF Contents

\* Nothing is a text.
LEMMA EmptyTyped == Empty \in Contents
<1>1. Empty \in [{} -> Values]
  BY DEF Empty
<1> QED BY <1>1 DEF Contents

\* A value that is read is a value.
LEMMA ReadTyped ==
    ASSUME TypeInv, NEW f \in Files, NEW k PROVE ReadKey(f, k) \in Values
<1>1. conf[f] \in Contents
  BY DEF TypeInv, TypeOK
<1>2. PICK L \in SUBSET AllLines : conf[f] \in [L -> Values]
  BY <1>1 DEF Contents
<1> QED BY <1>2 DEF ReadKey, Values

\* The idle thread.
LEMMA IdleTyped == Idle \in Handlers /\ Held(Idle) /\ Idle.todo = <<>> /\ Idle.pc = "idle"
BY EmptyTyped DEF Idle, Handlers, Held, Todos

\* A thread that goes on leaves the others alone.
LEMMA SetFrame ==
    ASSUME TypeInv, NEW t \in Threads, NEW h, Set(t, h)
    PROVE  \A u \in Threads : threads'[u] = IF u = t THEN h ELSE threads[u]
BY DEF TypeInv, TypeOK, Set

\* It keeps the types if it is well-formed.
LEMMA SetTypes ==
    ASSUME TypeInv, NEW t \in Threads, NEW h \in Handlers, Held(h), Set(t, h)
    PROVE  threads' \in [Threads -> Handlers] /\ \A u \in Threads : Held(threads'[u])
<1>1. threads' \in [Threads -> Handlers]
  BY DEF TypeInv, TypeOK, Set
<1> QED BY <1>1, SetFrame DEF TypeInv

----------------------------------------------------------------------------
(* The steps by their shapes.                                              *)

\* A step that has to do with no file, and leaves whoever has changed one
\* before its restart.
Quiet(t) ==
    \E h \in Handlers :
        /\ Set(t, h) /\ Held(h) /\ h.todo = <<>> /\ threads[t].todo = <<>>
        /\ UNCHANGED <<files, harm>>
        /\ realm' \in {"down", "up", "stale", "given up"}
        /\ realm' = "stale" =>
              /\ realm = "stale"
              /\ threads[t].changed /\ threads[t].pc # "start" => h.changed /\ h.pc # "start"

\* A request ends before its time.
Ends(t) == Set(t, Idle) /\ EndsEarly({t}) /\ UNCHANGED files

\* A request that has to do with no file begins to write one; the character
\* of the auction house is there if somebody is to sell.
Begins(t) ==
    \E todo \in Todos :
        /\ todo # <<>> /\ threads[t].todo = <<>> /\ Begin(t, todo)
        /\ threads[t].pc # "start"
        /\ Head(todo).key # "EnableSeller"
        /\ Tail(todo) # <<>> /\ Head(Tail(todo)).value = 1 => Head(todo).value = 1

\* A list has a first key.
LEMMA Singles ==
    /\ \A w \in Jobs : <<w>> # <<>> /\ Head(<<w>>) = w /\ Tail(<<w>>) = <<>>
    /\ \A v \in Jobs, w \in Jobs :
          <<v, w>> # <<>> /\ Head(<<v, w>>) = v /\ Tail(<<v, w>>) = <<w>>
OBVIOUS

\* Every step has one of the shapes.
LEMMA QuietSteps ==
    ASSUME TypeInv, NEW t \in Threads,
           Receive(t) \/ Skip(t) \/ Check(t) \/ RestartDown(t) \/ StartWorld(t) \/ Action(t)
    PROVE  Quiet(t)
<1>0. /\ threads[t] \in Handlers /\ Held(threads[t])
      /\ realm \in {"down", "up", "stale", "given up"}
      /\ threads \in [Threads -> Handlers]
  BY DEF TypeInv, TypeOK
<1>1. ASSUME NEW pc \in {"limit", "house", "type", "check", "restart", "start"},
             threads[t].todo = <<>>
      PROVE  /\ [threads[t] EXCEPT !.pc = pc] \in Handlers
             /\ Held([threads[t] EXCEPT !.pc = pc])
             /\ [threads[t] EXCEPT !.pc = pc].todo = <<>>
             /\ [threads[t] EXCEPT !.pc = pc].pc = pc
             /\ [threads[t] EXCEPT !.pc = pc].changed = threads[t].changed
  BY <1>0, <1>1 DEF Handlers, Held
<1>2. CASE Receive(t)
  <2>1. PICK pc \in {"limit", "house", "type"} : Set(t, [threads[t] EXCEPT !.pc = pc])
    BY <1>2 DEF Receive, Goto
  <2>2. threads[t].todo = <<>>
    BY <1>0, <1>2 DEF Receive, At, Held
  <2> DEFINE h == [threads[t] EXCEPT !.pc = pc]
  <2>3. /\ h \in Handlers /\ Held(h) /\ h.todo = <<>>
        /\ h.pc = pc /\ h.changed = threads[t].changed
    BY <1>1, <2>2
  <2>4. Set(t, h)
    BY <2>1
  <2> HIDE DEF h
  <2> QED BY <1>0, <1>2, <2>2, <2>3, <2>4 DEF Receive, Quiet
<1>3. CASE Skip(t)
  <2>1. PICK pc \in {"type", "check"} : Set(t, [threads[t] EXCEPT !.pc = pc])
    BY <1>3 DEF Skip, Goto
  <2>2. threads[t].todo = <<>>
    BY <1>0, <1>3 DEF Skip, At, Held
  <2> DEFINE h == [threads[t] EXCEPT !.pc = pc]
  <2>3. /\ h \in Handlers /\ Held(h) /\ h.todo = <<>>
        /\ h.pc = pc /\ h.changed = threads[t].changed
    BY <1>1, <2>2
  <2>4. Set(t, h)
    BY <2>1
  <2> HIDE DEF h
  <2> QED BY <1>0, <1>3, <2>2, <2>3, <2>4 DEF Skip, Quiet
<1>4. CASE Check(t)
  <2>1. threads[t].todo = <<>>
    BY <1>0, <1>4 DEF Check, At, Held
  <2> DEFINE h == IF threads[t].changed /\ realm # "down"
                  THEN [threads[t] EXCEPT !.pc = "restart"] ELSE Idle
  <2>2. /\ h \in Handlers /\ Held(h) /\ h.todo = <<>>
        /\ realm = "stale" /\ threads[t].changed => h.changed /\ h.pc # "start"
    BY <1>1, <2>1, IdleTyped
  <2>3. Set(t, h) /\ UNCHANGED <<files, realm, harm>>
    BY <1>4 DEF Check, Goto
  <2> HIDE DEF h
  <2> QED BY <1>0, <2>1, <2>2, <2>3 DEF Quiet
<1>5. CASE RestartDown(t)
  <2>1. threads[t].todo = <<>>
    BY <1>0, <1>5 DEF RestartDown, At, Held
  <2> DEFINE h == [threads[t] EXCEPT !.pc = "start"]
  <2>2. h \in Handlers /\ Held(h) /\ h.todo = <<>>
    BY <1>1, <2>1
  <2>3. Set(t, h)
    BY <1>5 DEF RestartDown, Goto
  <2> HIDE DEF h
  <2> QED BY <1>5, <2>1, <2>2, <2>3 DEF RestartDown, Quiet
<1>6. CASE StartWorld(t)
  <2>1. threads[t].todo = <<>>
    BY <1>0, <1>6 DEF StartWorld, At, Held
  <2> QED BY <1>0, <1>6, <2>1, IdleTyped DEF StartWorld, At, Quiet
<1>7. CASE Action(t)
  <2>1. threads[t].todo = <<>> /\ ~threads[t].changed
    BY <1>0, <1>7 DEF Action, At, Held
  <2>2. CASE threads' = threads /\ realm' = "down"
    <3>1. Set(t, threads[t])
      BY <1>0, <2>2 DEF Set
    <3> QED BY <1>0, <1>7, <2>1, <2>2, <3>1 DEF Action, Quiet
  <2>3. ASSUME NEW pc \in {"start", "restart"}, Goto(t, pc), realm' = realm PROVE Quiet(t)
    <3> DEFINE h == [threads[t] EXCEPT !.pc = pc]
    <3>1. h \in Handlers /\ Held(h) /\ h.todo = <<>>
      BY <1>1, <2>1
    <3>2. Set(t, h)
      BY <2>3 DEF Goto
    <3> HIDE DEF h
    <3> QED BY <1>0, <1>7, <2>1, <2>3, <3>1, <3>2 DEF Action, Quiet
  <2> QED BY <1>7, <2>2, <2>3 DEF Action
<1> QED BY <1>2, <1>3, <1>4, <1>5, <1>6, <1>7

LEMMA BeginSteps ==
    ASSUME TypeInv, NEW t \in Threads, SetLimit(t) \/ SetHouse(t) \/ SetType(t)
    PROVE  Begins(t)
<1>0. threads[t] \in Handlers /\ Held(threads[t])
  BY DEF TypeInv, TypeOK
<1>1. threads[t].todo = <<>> /\ threads[t].pc # "start"
  BY <1>0 DEF SetLimit, SetHouse, SetType, At, Held
<1>2. ASSUME NEW w \in Jobs, w.key # "EnableSeller", <<w>> \in Todos, Begin(t, <<w>>)
      PROVE  Begins(t)
  BY <1>1, <1>2, Singles DEF Begins
<1>3. CASE SetLimit(t)
  BY <1>2, <1>3 DEF SetLimit, Todos, Jobs, Write
<1>4. CASE SetType(t)
  BY <1>2, <1>4 DEF SetType, Todos, Jobs, Write
<1>5. CASE SetHouse(t)
  <2>1. House \in Files /\ 0 \in Values /\ 1 \in Values /\ \A x \in Values : x = 0 \/ x = 1
    BY DEF Files, Values
  <2>2. PICK g \in Values, s \in Values :
          /\ ~(s = 1 /\ g = 0)
          /\ Begin(t, <<Write(House, "GUID", g), Write(House, "EnableSeller", s)>>)
    <3>1. ReadKey(House, "GUID") \in Values /\ ReadKey(House, "EnableSeller") \in Values
      BY <2>1, ReadTyped
    <3> QED BY <1>5, <3>1 DEF SetHouse
  <2> DEFINE v == Write(House, "GUID", g)
             w == Write(House, "EnableSeller", s)
  <2>3. v \in Jobs /\ w \in Jobs /\ <<v, w>> \in Todos
    BY DEF Jobs, Todos
  <2>4. v.key # "EnableSeller" /\ v.value = g /\ w.value = s
    BY DEF Write
  <2>5. Begin(t, <<v, w>>)
    BY <2>2
  <2> HIDE DEF v, w
  <2>6. /\ <<v, w>> # <<>> /\ Head(<<v, w>>) = v /\ Tail(<<v, w>>) = <<w>>
        /\ Head(<<w>>) = w
    BY <2>3, Singles
  <2>7. Head(Tail(<<v, w>>)).value = 1 => Head(<<v, w>>).value = 1
    BY <2>1, <2>2, <2>4, <2>6
  <2> QED BY <1>1, <2>3, <2>4, <2>5, <2>6, <2>7 DEF Begins
<1> QED BY <1>3, <1>4, <1>5

LEMMA Shapes ==
    ASSUME TypeInv, Next
    PROVE  \/ Crash
           \/ \E t \in Threads : \/ Quiet(t) \/ Ends(t) \/ Begins(t) \/ ReadFile(t)
                                 \/ OpenTemp(t) \/ WriteTemp(t) \/ Replace(t)
<1>1. ASSUME NEW t \in Threads,
             Reject(t) \/ ReplaceFails(t) \/ CheckFails(t) \/ DockerFails(t)
      PROVE  Ends(t)
  BY <1>1 DEF Reject, ReplaceFails, CheckFails, DockerFails, Ends
<1> QED BY <1>1, QuietSteps, BeginSteps DEF Next, Settings, FileIO, Realm

\* What the steps that write make of a thread.
LEMMA WriteTypes ==
    ASSUME TypeInv, NEW t \in Threads
    PROVE  /\ threads[t].pc = "idle" => ~threads[t].changed
           /\ \A todo \in Todos : todo # <<>> /\ threads[t].todo = <<>> =>
                 LET h == [threads[t] EXCEPT !.pc = "read", !.todo = todo]
                 IN h \in Handlers /\ Held(h)
           /\ \A text \in Contents : threads[t].pc = "read" =>
                 LET h == [threads[t] EXCEPT !.pc = "open", !.text = text]
                 IN h \in Handlers /\ Held(h)
           /\ threads[t].pc = "open" =>
                 LET h == [threads[t] EXCEPT !.pc = "write", !.handle = "temp"]
                 IN h \in Handlers /\ Held(h)
           /\ \A c \in BOOLEAN : threads[t].pc = "write" =>
                 LET h == [threads[t] EXCEPT !.pc = "replace", !.text = Empty,
                                             !.handle = "none", !.changed = c]
                 IN h \in Handlers /\ Held(h)
           /\ threads[t].pc \in {"read", "open", "write", "replace"} =>
                 threads[t].todo \in Todos /\ threads[t].todo # <<>> /\ File(t) \in Files
<1>0. threads[t] \in Handlers /\ Held(threads[t])
  BY DEF TypeInv, TypeOK
<1>1. ASSUME NEW todo \in Todos, todo # <<>>, threads[t].todo = <<>>
      PROVE  LET h == [threads[t] EXCEPT !.pc = "read", !.todo = todo]
             IN h \in Handlers /\ Held(h)
  BY <1>0, <1>1 DEF Handlers, Held
<1>2. ASSUME NEW text \in Contents, threads[t].pc = "read"
      PROVE  LET h == [threads[t] EXCEPT !.pc = "open", !.text = text]
             IN h \in Handlers /\ Held(h)
  BY <1>0, <1>2 DEF Handlers, Held
<1>3. ASSUME threads[t].pc = "open"
      PROVE  LET h == [threads[t] EXCEPT !.pc = "write", !.handle = "temp"]
             IN h \in Handlers /\ Held(h)
  BY <1>0, <1>3 DEF Handlers, Held
<1>4. ASSUME NEW c \in BOOLEAN, threads[t].pc = "write"
      PROVE  LET h == [threads[t] EXCEPT !.pc = "replace", !.text = Empty,
                                         !.handle = "none", !.changed = c]
             IN h \in Handlers /\ Held(h)
  BY <1>0, <1>4, EmptyTyped DEF Handlers, Held
<1>5. ASSUME threads[t].pc \in {"read", "open", "write", "replace"}
      PROVE  threads[t].todo \in Todos /\ threads[t].todo # <<>> /\ File(t) \in Files
  <2>1. threads[t].todo \in Todos /\ threads[t].todo # <<>>
    BY <1>0, <1>5 DEF Handlers, Held
  <2> QED BY <2>1, TodoFacts, JobFacts DEF File
<1> QED BY <1>0, <1>1, <1>2, <1>3, <1>4, <1>5 DEF Held

\* What Replace makes of the thread that replaces and of the others.
LEMMA ReplaceFrame ==
    ASSUME TypeInv, NEW t \in Threads, Replace(t)
    PROVE  /\ threads' \in [Threads -> Handlers] /\ \A u \in Threads : Held(threads'[u])
           /\ threads'[t].todo = Tail(threads[t].todo) /\ threads'[t].changed
           /\ threads'[t].pc = After(Head(threads[t].todo))
           /\ threads'[t].pc \in {"house", "type", "check", "read"}
           /\ \A u \in Threads \ {t} :
                 /\ threads'[u].todo = threads[u].todo /\ threads'[u].pc = threads[u].pc
                 /\ threads'[u].changed = threads[u].changed
                 /\ threads'[u].text = threads[u].text
                 /\ ~Using(u, File(t)) => threads'[u] = threads[u]
<1> DEFINE d == threads[t].todo
           me == [threads[t] EXCEPT !.pc = After(Head(d)), !.todo = Tail(@), !.changed = TRUE]
           h(u) == IF u = t THEN me
                   ELSE IF Using(u, File(t)) THEN [threads[u] EXCEPT !.handle = Moved(@)]
                   ELSE threads[u]
<1>0. /\ \A u \in Threads : threads[u] \in Handlers /\ Held(threads[u])
      /\ threads[t].pc = "replace"
  BY DEF TypeInv, TypeOK, Replace, At
<1>1. d \in Todos /\ d # <<>>
  BY <1>0, WriteTypes
<1>2. /\ Tail(d) \in Todos /\ After(Head(d)) \in {"house", "type", "check", "read"}
      /\ After(Head(d)) = "read" <=> Tail(d) # <<>>
  BY <1>1, TodoFacts
<1>3. threads' = [u \in Threads |-> h(u)]
  BY DEF Replace
<1>4. /\ me \in Handlers /\ Held(me) /\ me.todo = Tail(d) /\ me.changed
      /\ me.pc = After(Head(d))
  BY <1>0, <1>2 DEF Handlers, Held
<1> HIDE DEF me, d
<1>5. ASSUME NEW u \in Threads, u # t
      PROVE  /\ h(u) \in Handlers /\ Held(h(u)) /\ h(u).todo = threads[u].todo
             /\ h(u).pc = threads[u].pc /\ h(u).changed = threads[u].changed
             /\ h(u).text = threads[u].text
             /\ ~Using(u, File(t)) => h(u) = threads[u]
  <2>1. [threads[u] EXCEPT !.handle = Moved(@)] \in Handlers
    BY <1>0 DEF Handlers, Moved
  <2> QED BY <1>0, <1>5, <2>1 DEF Handlers, Held
<1>6. h(t) = me
  OBVIOUS
<1> HIDE DEF h
<1>7. \A u \in Threads : h(u) \in Handlers /\ Held(h(u)) /\ threads'[u] = h(u)
  BY <1>3, <1>4, <1>5, <1>6
<1>8. threads' \in [Threads -> Handlers]
  BY <1>3, <1>7
<1> QED BY <1>2, <1>4, <1>5, <1>6, <1>7, <1>8 DEF d

\* Every step keeps the types and what the threads hold.
LEMMA TypeStep == TypeInv /\ [Next]_vars => TypeInv'
<1> SUFFICES ASSUME TypeInv, [Next]_vars PROVE TypeInv'
  OBVIOUS
<1>0. /\ TypeOK /\ \A t \in Threads : threads[t] \in Handlers /\ Held(threads[t])
      /\ realm \in {"down", "up", "stale", "given up"}
      /\ harm \in {"none", "cut", "overlap"}
      /\ conf \in [Files -> Contents] /\ temp \in [Files -> Contents \cup {NoFile}]
  BY DEF TypeInv, TypeOK
<1>1. ASSUME NEW t \in Threads, Quiet(t) PROVE TypeInv'
  <2>1. PICK h \in Handlers : Set(t, h) /\ Held(h)
    BY <1>1 DEF Quiet
  <2>2. threads' \in [Threads -> Handlers] /\ \A u \in Threads : Held(threads'[u])
    BY <2>1, SetTypes
  <2> QED BY <1>0, <1>1, <2>2 DEF Quiet, TypeInv, TypeOK, files
<1>2. ASSUME NEW t \in Threads, Ends(t) PROVE TypeInv'
  <2>1. threads' \in [Threads -> Handlers] /\ \A u \in Threads : Held(threads'[u])
    BY <1>2, SetTypes, IdleTyped DEF Ends
  <2> QED BY <1>0, <1>2, <2>1 DEF Ends, EndsEarly, TypeInv, TypeOK, files
<1>3. ASSUME NEW t \in Threads, Begins(t) PROVE TypeInv'
  <2>1. PICK todo \in Todos : todo # <<>> /\ threads[t].todo = <<>> /\ Begin(t, todo)
    BY <1>3 DEF Begins
  <2> DEFINE h == [threads[t] EXCEPT !.pc = "read", !.todo = todo]
  <2>2. h \in Handlers /\ Held(h)
    BY <2>1, WriteTypes
  <2>3. Set(t, h)
    BY <2>1 DEF Begin
  <2> HIDE DEF h
  <2>4. threads' \in [Threads -> Handlers] /\ \A u \in Threads : Held(threads'[u])
    BY <2>2, <2>3, SetTypes
  <2> QED BY <1>0, <2>1, <2>4 DEF Begin, TypeInv, TypeOK, files
<1>4. ASSUME NEW t \in Threads, ReadFile(t) PROVE TypeInv'
  <2> DEFINE w == Head(threads[t].todo)
             h == [threads[t] EXCEPT !.pc = "open", !.text = Changed(conf[w.file], w)]
  <2>1. w \in Jobs
    BY <1>0, <1>4, WriteTypes, TodoFacts DEF ReadFile, At
  <2>2. conf[w.file] \in Contents
    BY <1>0, <2>1, JobFacts
  <2>3. Changed(conf[w.file], w) \in Contents
    BY <2>1, <2>2, ChangedTyped
  <2>4. h \in Handlers /\ Held(h)
    BY <1>4, <2>3, WriteTypes DEF ReadFile, At
  <2>5. Set(t, h)
    BY <1>4 DEF ReadFile
  <2> HIDE DEF h
  <2>6. threads' \in [Threads -> Handlers] /\ \A u \in Threads : Held(threads'[u])
    BY <2>4, <2>5, SetTypes
  <2> QED BY <1>0, <1>4, <2>6 DEF ReadFile, TypeInv, TypeOK, files
<1>5. ASSUME NEW t \in Threads, OpenTemp(t) PROVE TypeInv'
  <2> DEFINE h == [threads[t] EXCEPT !.pc = "write", !.handle = "temp"]
  <2>1. h \in Handlers /\ Held(h)
    BY <1>5, WriteTypes DEF OpenTemp, At
  <2>2. Set(t, h)
    BY <1>5 DEF OpenTemp
  <2> HIDE DEF h
  <2>3. threads' \in [Threads -> Handlers] /\ \A u \in Threads : Held(threads'[u])
    BY <2>1, <2>2, SetTypes
  <2>4. temp' \in [Files -> Contents \cup {NoFile}]
    BY <1>0, <1>5, EmptyTyped DEF OpenTemp
  <2> QED BY <1>0, <1>5, <2>3, <2>4 DEF OpenTemp, TypeInv, TypeOK
<1>6. ASSUME NEW t \in Threads, WriteTemp(t) PROVE TypeInv'
  <2> DEFINE c == threads[t].changed \/ threads[t].handle = "conf"
             h == [threads[t] EXCEPT !.pc = "replace", !.text = Empty, !.handle = "none",
                                     !.changed = c]
  <2>0. threads[t].changed \in BOOLEAN /\ threads[t].text \in Contents
    BY <1>0 DEF Handlers
  <2>1. c \in BOOLEAN
    BY <2>0
  <2>2. h \in Handlers /\ Held(h)
    <3> HIDE DEF c
    <3> QED BY <1>6, <2>1, WriteTypes DEF WriteTemp, At
  <2>3. Set(t, h)
    BY <1>6 DEF WriteTemp
  <2> HIDE DEF h
  <2>4. threads' \in [Threads -> Handlers] /\ \A u \in Threads : Held(threads'[u])
    BY <2>2, <2>3, SetTypes
  <2>5. temp' \in [Files -> Contents \cup {NoFile}] /\ conf' \in [Files -> Contents]
    BY <1>0, <1>6, <2>0 DEF WriteTemp
  <2>6. realm' \in {"down", "up", "stale", "given up"} /\ harm' = harm
    BY <1>0, <1>6 DEF WriteTemp, Changes
  <2> QED BY <1>0, <2>4, <2>5, <2>6 DEF TypeInv, TypeOK
<1>7. ASSUME NEW t \in Threads, Replace(t) PROVE TypeInv'
  <2>1. File(t) \in Files
    BY <1>7, WriteTypes DEF Replace, At
  <2>2. temp[File(t)] \in Contents
    BY <1>0, <1>7, <2>1 DEF Replace
  <2>3. temp' \in [Files -> Contents \cup {NoFile}] /\ conf' \in [Files -> Contents]
    BY <1>0, <1>7, <2>2 DEF Replace
  <2>4. realm' \in {"down", "up", "stale", "given up"} /\ harm' = harm
    BY <1>0, <1>7 DEF Replace, Changes
  <2> QED BY <1>0, <1>7, <2>3, <2>4, ReplaceFrame DEF TypeInv, TypeOK
<1>8. ASSUME Crash PROVE TypeInv'
  <2>1. threads' \in [Threads -> Handlers] /\ \A u \in Threads : Held(threads'[u])
    BY <1>8, IdleTyped DEF Crash
  <2>2. temp' \in [Files -> Contents \cup {NoFile}]
    BY <1>8, EmptyTyped DEF Crash
  <2> QED BY <1>0, <1>8, <2>1, <2>2 DEF Crash, EndsEarly, TypeInv, TypeOK
<1>9. CASE UNCHANGED vars
  BY <1>0, <1>9 DEF vars, files, TypeInv, TypeOK, Held
<1> QED BY <1>1, <1>2, <1>3, <1>4, <1>5, <1>6, <1>7, <1>8, <1>9, Shapes

----------------------------------------------------------------------------
(* Changes are loaded.                                                     *)

\* Who has changed a file after the start of the worldserver has not yet
\* come to the second half of its own restart.
LoadedInv == realm = "stale" =>
                \E t \in Threads : threads[t].changed /\ threads[t].pc # "start"

\* Every step keeps it.
LEMMA LoadedStep == TypeInv /\ LoadedInv /\ [Next]_vars => LoadedInv'
<1> SUFFICES ASSUME TypeInv, LoadedInv, [Next]_vars PROVE LoadedInv'
  OBVIOUS
<1>0. \A t \in Threads : threads[t] \in Handlers
  BY DEF TypeInv, TypeOK
<1>1. ASSUME NEW t \in Threads, Quiet(t) PROVE LoadedInv'
  <2>1. PICK h \in Handlers :
          /\ Set(t, h)
          /\ realm' = "stale" =>
              /\ realm = "stale"
              /\ threads[t].changed /\ threads[t].pc # "start" => h.changed /\ h.pc # "start"
    BY <1>1 DEF Quiet
  <2> QED BY <2>1, SetFrame DEF LoadedInv
<1>2. ASSUME NEW t \in Threads, Ends(t) PROVE LoadedInv'
  BY <1>2, SetFrame DEF Ends, EndsEarly, LoadedInv
<1>3. ASSUME NEW t \in Threads, Begins(t) PROVE LoadedInv'
  <2>1. PICK todo \in Todos : Begin(t, todo)
    BY <1>3 DEF Begins
  <2> DEFINE h == [threads[t] EXCEPT !.pc = "read", !.todo = todo]
  <2>2. h.changed = threads[t].changed /\ h.pc = "read"
    BY <1>0 DEF Handlers
  <2>3. Set(t, h) /\ realm' = realm
    BY <2>1 DEF Begin
  <2> HIDE DEF h
  <2> QED BY <2>2, <2>3, SetFrame DEF LoadedInv
<1>4. ASSUME NEW t \in Threads, ReadFile(t) PROVE LoadedInv'
  <2> DEFINE w == Head(threads[t].todo)
             h == [threads[t] EXCEPT !.pc = "open", !.text = Changed(conf[w.file], w)]
  <2>1. h.changed = threads[t].changed /\ h.pc = "open"
    BY <1>0 DEF Handlers
  <2>2. Set(t, h) /\ realm' = realm
    BY <1>4 DEF ReadFile
  <2> HIDE DEF h
  <2> QED BY <2>1, <2>2, SetFrame DEF LoadedInv
<1>5. ASSUME NEW t \in Threads, OpenTemp(t) PROVE LoadedInv'
  <2> DEFINE h == [threads[t] EXCEPT !.pc = "write", !.handle = "temp"]
  <2>1. h.changed = threads[t].changed /\ h.pc = "write"
    BY <1>0 DEF Handlers
  <2>2. Set(t, h) /\ realm' = realm
    BY <1>5 DEF OpenTemp
  <2> HIDE DEF h
  <2> QED BY <2>1, <2>2, SetFrame DEF LoadedInv
<1>6. ASSUME NEW t \in Threads, WriteTemp(t) PROVE LoadedInv'
  <2> DEFINE c == threads[t].changed \/ threads[t].handle = "conf"
             h == [threads[t] EXCEPT !.pc = "replace", !.text = Empty, !.handle = "none",
                                     !.changed = c]
  <2>1. h.changed = c /\ h.pc = "replace"
    BY <1>0 DEF Handlers
  <2>2. Set(t, h) /\ realm' = IF threads[t].handle = "conf" THEN Changes ELSE realm
    BY <1>6 DEF WriteTemp
  <2> HIDE DEF h
  <2> QED BY <2>1, <2>2, SetFrame DEF LoadedInv
<1>7. ASSUME NEW t \in Threads, Replace(t) PROVE LoadedInv'
  BY <1>7, ReplaceFrame DEF LoadedInv
<1>8. ASSUME Crash PROVE LoadedInv'
  BY <1>8 DEF Crash, EndsEarly, LoadedInv
<1>9. CASE UNCHANGED vars
  BY <1>9 DEF vars, LoadedInv
<1> QED BY <1>1, <1>2, <1>3, <1>4, <1>5, <1>6, <1>7, <1>8, <1>9, Shapes

----------------------------------------------------------------------------
(* Files are whole.                                                        *)

\* What a thread is about to put in the place of its file.
Sure(r) ==
    LET w == Head(r.todo)
    IN /\ r.pc \in {"open", "write"} => r.text = Changed(conf[w.file], w)
       /\ r.pc = "write" => r.handle = "temp"
       /\ r.pc = "replace" => temp[w.file] = Changed(conf[w.file], w)

\* While no two requests write the same file, a thread's text is the file
\* with one key changed.
SoundInv ==
    harm # "overlap" =>
        /\ \A t, u \in Threads, f \in Files : Using(t, f) /\ Using(u, f) => t = u
        /\ \A f \in Files : DOMAIN conf[f] = Lines(f)
        /\ \A t \in Threads : Sure(threads[t])

\* A thread that goes on leaves the use of the others alone.
LEMMA UseFrame ==
    ASSUME TypeInv, NEW t \in Threads, NEW h, Set(t, h)
    PROVE  \A u \in Threads, f \in Files :
              /\ u # t => Using(u, f)' = Using(u, f)
              /\ Using(t, f)' = (h.todo # <<>> /\ Head(h.todo).file = f)
BY SetFrame DEF Using, Writes, File

\* A step that touches no file keeps the files sound.
LEMMA SetSound ==
    ASSUME TypeInv, SoundInv, NEW t \in Threads, NEW h, Set(t, h), UNCHANGED files,
           harm' # "overlap" => harm # "overlap",
           h.todo = threads[t].todo \/ h.todo = <<>>,
           harm # "overlap" => Sure(h)
    PROVE  SoundInv'
<1> SUFFICES ASSUME harm' # "overlap"
             PROVE  /\ \A u, v \in Threads, f \in Files : (Using(u, f) /\ Using(v, f))' => u = v
                    /\ \A f \in Files : DOMAIN conf'[f] = Lines(f)
                    /\ \A u \in Threads : Sure(threads[u])'
  BY DEF SoundInv
<1>1. conf' = conf /\ temp' = temp
  BY DEF files
<1>2. \A u \in Threads, f \in Files : Using(u, f)' => Using(u, f)
  BY UseFrame DEF Using, Writes, File
<1>3. \A u \in Threads : Sure(threads[u])'
  BY <1>1, SetFrame DEF SoundInv, Sure
<1> QED BY <1>1, <1>2, <1>3 DEF SoundInv

\* Every step keeps them sound.
LEMMA SoundStep == TypeInv /\ SoundInv /\ [Next]_vars => SoundInv'
<1> SUFFICES ASSUME TypeInv, SoundInv, [Next]_vars PROVE SoundInv'
  OBVIOUS
<1>0. /\ TypeOK /\ \A t \in Threads : threads[t] \in Handlers /\ Held(threads[t])
      /\ conf \in [Files -> Contents] /\ temp \in [Files -> Contents \cup {NoFile}]
  BY DEF TypeInv, TypeOK
<1>1. ASSUME NEW t \in Threads, Quiet(t) PROVE SoundInv'
  <2>1. PICK h \in Handlers :
          Set(t, h) /\ Held(h) /\ h.todo = <<>> /\ UNCHANGED <<files, harm>>
    BY <1>1 DEF Quiet
  <2>2. Sure(h)
    BY <2>1 DEF Held, Sure
  <2> QED BY <2>1, <2>2, SetSound
<1>2. ASSUME NEW t \in Threads, Ends(t) PROVE SoundInv'
  <2>1. Sure(Idle)
    BY DEF Idle, Sure
  <2> QED BY <1>2, <2>1, IdleTyped, SetSound DEF Ends, EndsEarly
<1>3. ASSUME NEW t \in Threads, Begins(t) PROVE SoundInv'
  <2>1. PICK todo \in Todos : todo # <<>> /\ threads[t].todo = <<>> /\ Begin(t, todo)
    BY <1>3 DEF Begins
  <2> DEFINE h == [threads[t] EXCEPT !.pc = "read", !.todo = todo]
  <2>2. h.todo = todo /\ h.pc = "read"
    BY <1>0 DEF Handlers
  <2>3. Set(t, h) /\ conf' = conf /\ temp' = temp
    BY <2>1 DEF Begin, files
  <2> HIDE DEF h
  <2> SUFFICES ASSUME harm' # "overlap" PROVE SoundInv'
    BY DEF SoundInv
  <2>4. harm # "overlap" /\ \A u \in Threads \ {t} : ~Using(u, Head(todo).file)
    <3>1. Head(todo) = todo[1]
      BY <2>1 DEF Todos
    <3> QED BY <2>1, <3>1 DEF Begin
  <2>5. \A u, v \in Threads, f \in Files : (Using(u, f) /\ Using(v, f))' => u = v
    <3>1. \A u, v \in Threads, f \in Files : Using(u, f) /\ Using(v, f) => u = v
      BY <2>4 DEF SoundInv
    <3>2. /\ \A u \in Threads \ {t}, f \in Files : Using(u, f)' = Using(u, f)
          /\ \A f \in Files : Using(t, f)' => f = Head(todo).file
      BY <2>2, <2>3, UseFrame
    <3>3. \A u \in Threads \ {t}, f \in Files : ~(Using(u, f) /\ Using(t, f))'
      BY <2>4, <3>2
    <3> QED BY <3>1, <3>2, <3>3
  <2>6. \A u \in Threads : Sure(threads[u])'
    BY <2>2, <2>3, <2>4, SetFrame DEF SoundInv, Sure
  <2>7. \A f \in Files : DOMAIN conf'[f] = Lines(f)
    BY <2>3, <2>4 DEF SoundInv
  <2> QED BY <2>5, <2>6, <2>7 DEF SoundInv
<1>4. ASSUME NEW t \in Threads, ReadFile(t) PROVE SoundInv'
  <2> DEFINE w == Head(threads[t].todo)
             h == [threads[t] EXCEPT !.pc = "open", !.text = Changed(conf[w.file], w)]
  <2>1. h.todo = threads[t].todo /\ h.pc = "open" /\ h.text = Changed(conf[w.file], w)
    BY <1>0 DEF Handlers
  <2>2. Set(t, h) /\ UNCHANGED <<files, harm>>
    BY <1>4 DEF ReadFile
  <2> HIDE DEF h
  <2>3. Sure(h)
    BY <2>1 DEF Sure
  <2> QED BY <2>1, <2>2, <2>3, SetSound
<1>5. ASSUME NEW t \in Threads, OpenTemp(t) PROVE SoundInv'
  <2> DEFINE h == [threads[t] EXCEPT !.pc = "write", !.handle = "temp"]
  <2>0. threads[t].pc = "open" /\ threads[t].todo # <<>> /\ File(t) \in Files
    BY <1>5, WriteTypes DEF OpenTemp, At
  <2>1. h.todo = threads[t].todo /\ h.pc = "write" /\ h.handle = "temp"
        /\ h.text = threads[t].text
    BY <1>0 DEF Handlers
  <2>2. Set(t, h) /\ conf' = conf /\ harm' = harm
    BY <1>5 DEF OpenTemp
  <2> HIDE DEF h
  <2> SUFFICES ASSUME harm # "overlap" PROVE SoundInv'
    BY <2>2 DEF SoundInv
  <2>3. \A u, v \in Threads, f \in Files : (Using(u, f) /\ Using(v, f))' => u = v
    <3>1. \A u, v \in Threads, f \in Files : Using(u, f) /\ Using(v, f) => u = v
      BY DEF SoundInv
    <3>2. \A u \in Threads, f \in Files : Using(u, f)' => Using(u, f)
      BY <2>1, <2>2, UseFrame DEF Using, Writes, File
    <3> QED BY <3>1, <3>2
  <2>4. Sure(threads[t])'
    <3>1. Sure(threads[t])
      BY DEF SoundInv
    <3> QED BY <2>0, <2>1, <2>2, <3>1, SetFrame DEF Sure
  <2>5. ASSUME NEW u \in Threads, u # t PROVE Sure(threads[u])'
    <3>1. Sure(threads[u]) /\ threads'[u] = threads[u]
      BY <2>2, <2>5, SetFrame DEF SoundInv
    <3>2. CASE threads[u].pc # "replace"
      BY <2>2, <3>1, <3>2 DEF Sure
    <3>3. CASE threads[u].pc = "replace"
      <4>1. Using(u, File(u)) /\ File(u) \in Files
        BY <3>3, WriteTypes DEF Using, Writes
      <4>2. ~Using(t, File(u))
        BY <2>5, <4>1 DEF SoundInv
      <4>3. temp'[File(u)] = temp[File(u)]
        BY <1>0, <1>5, <2>0, <4>1, <4>2 DEF OpenTemp, Using, Writes
      <4> QED BY <2>2, <3>1, <3>3, <4>3 DEF Sure, File
    <3> QED BY <3>2, <3>3
  <2> QED BY <2>2, <2>3, <2>4, <2>5 DEF SoundInv
<1>6. ASSUME NEW t \in Threads, WriteTemp(t) PROVE SoundInv'
  <2> DEFINE h == [threads[t] EXCEPT !.pc = "replace", !.text = Empty, !.handle = "none",
                       !.changed = threads[t].changed \/ threads[t].handle = "conf"]
  <2>0. threads[t].pc = "write" /\ threads[t].todo # <<>> /\ File(t) \in Files
    BY <1>6, WriteTypes DEF WriteTemp, At
  <2>1. h.todo = threads[t].todo /\ h.pc = "replace"
    BY <1>0 DEF Handlers
  <2>2. Set(t, h) /\ harm' = harm
    BY <1>6 DEF WriteTemp
  <2> HIDE DEF h
  <2> SUFFICES ASSUME harm # "overlap" PROVE SoundInv'
    BY <2>2 DEF SoundInv
  <2>3. \A u, v \in Threads, f \in Files : (Using(u, f) /\ Using(v, f))' => u = v
    <3>1. \A u, v \in Threads, f \in Files : Using(u, f) /\ Using(v, f) => u = v
      BY DEF SoundInv
    <3>2. \A u \in Threads, f \in Files : Using(u, f)' => Using(u, f)
      BY <2>1, <2>2, UseFrame DEF Using, Writes, File
    <3> QED BY <3>1, <3>2
  <2>4. /\ threads[t].handle = "temp"
        /\ threads[t].text = Changed(conf[File(t)], Head(threads[t].todo))
    BY <2>0 DEF SoundInv, Sure, File
  <2>5. conf' = conf /\ temp' = [temp EXCEPT ![File(t)] = threads[t].text]
    BY <1>6, <2>4 DEF WriteTemp
  <2>6. Sure(threads[t])'
    <3>1. temp'[File(t)] = Changed(conf'[File(t)], Head(threads[t].todo))
      BY <1>0, <2>0, <2>4, <2>5
    <3> QED BY <2>1, <2>2, <3>1, SetFrame DEF Sure, File
  <2>7. ASSUME NEW u \in Threads, u # t PROVE Sure(threads[u])'
    <3>1. Sure(threads[u]) /\ threads'[u] = threads[u]
      BY <2>2, <2>7, SetFrame DEF SoundInv
    <3>2. CASE threads[u].pc # "replace"
      BY <2>5, <3>1, <3>2 DEF Sure
    <3>3. CASE threads[u].pc = "replace"
      <4>1. Using(u, File(u)) /\ File(u) \in Files
        BY <3>3, WriteTypes DEF Using, Writes
      <4>2. ~Using(t, File(u))
        BY <2>7, <4>1 DEF SoundInv
      <4>3. temp'[File(u)] = temp[File(u)]
        BY <1>0, <2>0, <2>5, <4>1, <4>2 DEF Using, Writes
      <4> QED BY <2>5, <3>1, <3>3, <4>3 DEF Sure, File
    <3> QED BY <3>2, <3>3
  <2> QED BY <2>2, <2>3, <2>5, <2>6, <2>7 DEF SoundInv
<1>7. ASSUME NEW t \in Threads, Replace(t) PROVE SoundInv'
  <2> DEFINE w == Head(threads[t].todo)
  <2>0. /\ threads[t].pc = "replace" /\ File(t) \in Files /\ File(t) = w.file
        /\ threads[t].todo \in Todos /\ threads[t].todo # <<>> /\ Using(t, File(t))
    BY <1>7, WriteTypes DEF Replace, At, File, Using, Writes
  <2>1. w \in Jobs /\ (Tail(threads[t].todo) # <<>> =>
                          Head(Tail(threads[t].todo)).file = w.file)
    BY <2>0, TodoFacts
  <2>2. harm' = harm
    BY <1>7 DEF Replace
  <2> SUFFICES ASSUME harm # "overlap" PROVE SoundInv'
    BY <2>2 DEF SoundInv
  <2>3. \A u \in Threads \ {t} : ~Using(u, File(t))
    BY <2>0 DEF SoundInv
  <2>4. \A u \in Threads \ {t} : threads'[u] = threads[u]
    BY <1>7, <2>3, ReplaceFrame
  <2>5. \A u \in Threads, f \in Files : Using(u, f)' => Using(u, f)
    <3>1. \A f \in Files : Using(t, f)' => Using(t, f)
      BY <1>7, <2>0, <2>1, ReplaceFrame DEF Using, Writes, File
    <3> QED BY <2>4, <3>1 DEF Using, Writes, File
  <2>6. temp[w.file] = Changed(conf[w.file], w)
    BY <2>0 DEF SoundInv, Sure
  <2>7. \A f \in Files : conf'[f] = IF f = w.file THEN Changed(conf[f], w) ELSE conf[f]
    BY <1>0, <1>7, <2>0, <2>6 DEF Replace
  <2>8. \A f \in Files : f # w.file => temp'[f] = temp[f]
    BY <1>0, <1>7, <2>0 DEF Replace
  <2>9. \A f \in Files : DOMAIN conf'[f] = Lines(f)
    <3>1. \A f \in Files : DOMAIN conf[f] = Lines(f)
      BY DEF SoundInv
    <3>2. w.key \in Lines(w.file)
      BY <2>1, JobFacts
    <3> QED BY <2>0, <2>7, <3>1, <3>2 DEF Changed
  <2>10. Sure(threads[t])'
    BY <1>7, ReplaceFrame DEF Sure
  <2>11. ASSUME NEW u \in Threads, u # t PROVE Sure(threads[u])'
    <3>1. Sure(threads[u]) /\ threads'[u] = threads[u]
      BY <2>4, <2>11 DEF SoundInv
    <3>2. CASE threads[u].pc \notin {"open", "write", "replace"}
      BY <3>1, <3>2 DEF Sure
    <3>3. CASE threads[u].pc \in {"open", "write", "replace"}
      <4>1. Using(u, File(u)) /\ File(u) \in Files
        BY <3>3, WriteTypes DEF Using, Writes
      <4>2. File(u) # w.file
        BY <2>0, <2>3, <2>11, <4>1
      <4>3. temp'[File(u)] = temp[File(u)] /\ conf'[File(u)] = conf[File(u)]
        BY <2>7, <2>8, <4>1, <4>2
      <4> QED BY <3>1, <4>3 DEF Sure, File
    <3> QED BY <3>2, <3>3
  <2>12. \A u, v \in Threads, f \in Files : (Using(u, f) /\ Using(v, f))' => u = v
    BY <2>5 DEF SoundInv
  <2> QED BY <2>2, <2>9, <2>10, <2>11, <2>12 DEF SoundInv
<1>8. ASSUME Crash PROVE SoundInv'
  <2>1. \A u \in Threads : threads'[u] = Idle
    BY <1>8 DEF Crash
  <2>2. \A u \in Threads, f \in Files : ~Using(u, f)'
    BY <2>1, IdleTyped DEF Using, Writes
  <2>3. \A u \in Threads : Sure(threads[u])'
    BY <2>1, IdleTyped DEF Sure
  <2>4. conf' = conf /\ (harm' # "overlap" => harm # "overlap")
    BY <1>8 DEF Crash, EndsEarly
  <2> QED BY <2>2, <2>3, <2>4 DEF SoundInv
<1>9. CASE UNCHANGED vars
  BY <1>9 DEF vars, files, SoundInv, Sure, Using, Writes, File
<1> QED BY <1>1, <1>2, <1>3, <1>4, <1>5, <1>6, <1>7, <1>8, <1>9, Shapes

----------------------------------------------------------------------------
(* The auction house.                                                      *)

\* The character is known whenever somebody sells; a thread that is between
\* the two keys has the first one behind it.
HouseInv ==
    harm = "none" =>
        /\ (\A t \in Threads : ~Using(t, House)) =>
              (ReadKey(House, "EnableSeller") = 1 => ReadKey(House, "GUID") = 1)
        /\ \A t \in Threads : Using(t, House) =>
              LET d == threads[t].todo
              IN /\ Tail(d) # <<>> /\ Head(Tail(d)).value = 1 => Head(d).value = 1
                 /\ Head(d).key = "EnableSeller" /\ Head(d).value = 1 =>
                       ReadKey(House, "GUID") = 1

\* A step that neither touches a file nor begins to write one keeps it,
\* unless it ends between the keys.
LEMMA SetHouses ==
    ASSUME TypeInv, HouseInv, NEW t \in Threads, NEW h, Set(t, h), conf' = conf,
           harm' = "none" => /\ harm = "none"
                             /\ \/ h.todo = threads[t].todo
                                \/ h.todo = <<>> /\ ~Using(t, House)
    PROVE  HouseInv'
<1> SUFFICES ASSUME harm' = "none" PROVE HouseInv'
  BY DEF HouseInv
<1>1. House \in Files
  BY DEF Files
<1>2. \A u \in Threads : Using(u, House)' = Using(u, House)
  BY <1>1, UseFrame DEF Using, Writes, File
<1>3. \A u \in Threads : Using(u, House) => threads'[u].todo = threads[u].todo
  BY SetFrame
<1>4. \A k : ReadKey(House, k)' = ReadKey(House, k)
  BY DEF ReadKey
<1> QED BY <1>2, <1>3, <1>4 DEF HouseInv

\* Every step keeps it.
LEMMA HouseStep == TypeInv /\ SoundInv /\ HouseInv /\ [Next]_vars => HouseInv'
<1> SUFFICES ASSUME TypeInv, SoundInv, HouseInv, [Next]_vars PROVE HouseInv'
  OBVIOUS
<1>0. /\ TypeOK /\ \A t \in Threads : threads[t] \in Handlers /\ Held(threads[t])
      /\ conf \in [Files -> Contents] /\ House \in Files
  BY DEF TypeInv, TypeOK, Files
<1>1. ASSUME NEW t \in Threads, Quiet(t) PROVE HouseInv'
  <2>1. PICK h \in Handlers :
          /\ Set(t, h) /\ h.todo = <<>> /\ threads[t].todo = <<>> /\ UNCHANGED <<files, harm>>
    BY <1>1 DEF Quiet
  <2> QED BY <2>1, SetHouses DEF files
<1>2. ASSUME NEW t \in Threads, Ends(t) PROVE HouseInv'
  BY <1>2, IdleTyped, SetHouses DEF Ends, EndsEarly, files
<1>3. ASSUME NEW t \in Threads, Begins(t) PROVE HouseInv'
  <2>1. PICK todo \in Todos :
          /\ todo # <<>> /\ threads[t].todo = <<>> /\ Begin(t, todo)
          /\ Head(todo).key # "EnableSeller"
          /\ Tail(todo) # <<>> /\ Head(Tail(todo)).value = 1 => Head(todo).value = 1
    BY <1>3 DEF Begins
  <2> DEFINE h == [threads[t] EXCEPT !.pc = "read", !.todo = todo]
  <2>2. h.todo = todo
    BY <1>0 DEF Handlers
  <2>3. Set(t, h) /\ conf' = conf /\ (harm' = "none" => harm = "none")
    BY <2>1 DEF Begin, files
  <2> HIDE DEF h
  <2> SUFFICES ASSUME harm' = "none" PROVE HouseInv'
    BY DEF HouseInv
  <2>4. /\ \A u \in Threads \ {t} : /\ Using(u, House)' = Using(u, House)
                                    /\ threads'[u].todo = threads[u].todo
        /\ threads'[t].todo = todo
    BY <1>0, <2>2, <2>3, UseFrame, SetFrame
  <2>5. ~Using(t, House)
    BY <2>1 DEF Using, Writes
  <2>6. \A k : ReadKey(House, k)' = ReadKey(House, k)
    BY <2>3 DEF ReadKey
  <2>7. ASSUME \A u \in Threads : ~Using(u, House)'
        PROVE  (ReadKey(House, "EnableSeller") = 1 => ReadKey(House, "GUID") = 1)'
    BY <2>3, <2>4, <2>5, <2>6, <2>7 DEF HouseInv
  <2>8. ASSUME NEW u \in Threads, Using(u, House)'
        PROVE  LET d == threads'[u].todo
               IN /\ Tail(d) # <<>> /\ Head(Tail(d)).value = 1 => Head(d).value = 1
                  /\ Head(d).key = "EnableSeller" /\ Head(d).value = 1 =>
                        ReadKey(House, "GUID")' = 1
    <3>1. CASE u = t
      BY <2>1, <2>4, <3>1
    <3>2. CASE u # t
      BY <2>3, <2>4, <2>6, <2>8, <3>2 DEF HouseInv
    <3> QED BY <3>1, <3>2
  <2> QED BY <2>7, <2>8 DEF HouseInv
<1>4. ASSUME NEW t \in Threads, ReadFile(t) PROVE HouseInv'
  <2> DEFINE w == Head(threads[t].todo)
             h == [threads[t] EXCEPT !.pc = "open", !.text = Changed(conf[w.file], w)]
  <2>1. h.todo = threads[t].todo
    BY <1>0 DEF Handlers
  <2>2. Set(t, h) /\ conf' = conf /\ harm' = harm
    BY <1>4 DEF ReadFile, files
  <2> HIDE DEF h
  <2> QED BY <2>1, <2>2, SetHouses
<1>5. ASSUME NEW t \in Threads, OpenTemp(t) PROVE HouseInv'
  <2> DEFINE h == [threads[t] EXCEPT !.pc = "write", !.handle = "temp"]
  <2>1. h.todo = threads[t].todo
    BY <1>0 DEF Handlers
  <2>2. Set(t, h) /\ conf' = conf /\ harm' = harm
    BY <1>5 DEF OpenTemp
  <2> HIDE DEF h
  <2> QED BY <2>1, <2>2, SetHouses
<1>6. ASSUME NEW t \in Threads, WriteTemp(t) PROVE HouseInv'
  <2> DEFINE h == [threads[t] EXCEPT !.pc = "replace", !.text = Empty, !.handle = "none",
                       !.changed = threads[t].changed \/ threads[t].handle = "conf"]
  <2>1. h.todo = threads[t].todo
    BY <1>0 DEF Handlers
  <2>2. Set(t, h) /\ harm' = harm
    BY <1>6 DEF WriteTemp
  <2> HIDE DEF h
  <2>3. harm # "overlap" => conf' = conf
    BY <1>6 DEF WriteTemp, At, SoundInv, Sure
  <2>4. CASE harm = "none"
    BY <2>1, <2>2, <2>3, <2>4, SetHouses
  <2> QED BY <2>2, <2>4 DEF HouseInv
<1>7. ASSUME NEW t \in Threads, Replace(t) PROVE HouseInv'
  <2> DEFINE d == threads[t].todo
             w == Head(d)
  <2>0. /\ threads[t].pc = "replace" /\ File(t) \in Files /\ File(t) = w.file
        /\ d \in Todos /\ d # <<>> /\ Using(t, File(t))
    BY <1>7, WriteTypes DEF Replace, At, File, Using, Writes
  <2>1. /\ w \in Jobs
        /\ Tail(d) # <<>> => /\ w.key = "GUID" /\ Head(Tail(d)).key = "EnableSeller"
                             /\ Head(Tail(d)).file = House /\ w.file = House
                             /\ Tail(Tail(d)) = <<>>
        /\ Tail(d) = <<>> /\ w.file = House => w.key = "EnableSeller"
    <3>1. Tail(d) = <<>> /\ w.file = House => w.key = "EnableSeller"
      BY <2>0, HouseAlone
    <3> QED BY <2>0, <3>1, TodoFacts
  <2>2. harm' = harm
    BY <1>7 DEF Replace
  <2> SUFFICES ASSUME harm = "none" PROVE HouseInv'
    BY <2>2 DEF HouseInv
  <2>3. \A u \in Threads \ {t} : ~Using(u, File(t))
    BY <2>0 DEF SoundInv
  <2>4. \A u \in Threads \ {t} : threads'[u] = threads[u]
    BY <1>7, <2>3, ReplaceFrame
  <2>5. threads'[t].todo = Tail(d)
    BY <1>7, ReplaceFrame
  <2>6. temp[w.file] = Changed(conf[w.file], w)
    BY <2>0 DEF SoundInv, Sure
  <2>7. \A f \in Files : conf'[f] = IF f = w.file THEN Changed(conf[f], w) ELSE conf[f]
    BY <1>0, <1>7, <2>0, <2>6 DEF Replace
  <2>8. CASE w.file # House
    <3>1. \A k : ReadKey(House, k)' = ReadKey(House, k)
      BY <1>0, <2>7, <2>8 DEF ReadKey
    <3>2. ~Using(t, House) /\ ~Using(t, House)'
      <4>1. ~Using(t, House)
        BY <2>0, <2>8 DEF Using
      <4>2. Tail(d) = <<>>
        BY <2>1, <2>8
      <4> QED BY <2>5, <4>1, <4>2 DEF Using, Writes
    <3>3. \A u \in Threads : Using(u, House)' = Using(u, House)
      BY <2>4, <3>2 DEF Using, Writes, File
    <3>4. \A u \in Threads : Using(u, House) => threads'[u].todo = threads[u].todo
      BY <2>4, <3>2
    <3> QED BY <3>1, <3>3, <3>4 DEF HouseInv
  <2>9. CASE w.file = House
    <3> HIDE DEF d, w
    <3>1. \A k : ReadKey(House, k)' = IF k = w.key THEN w.value ELSE ReadKey(House, k)
      <4>1. conf'[House] = Changed(conf[House], w)
        BY <1>0, <2>7, <2>9
      <4>2. /\ DOMAIN conf'[House] = DOMAIN conf[House] \cup {w.key}
            /\ \A k \in DOMAIN conf[House] \cup {w.key} :
                  conf'[House][k] = IF k = w.key THEN w.value ELSE conf[House][k]
        BY <4>1 DEF Changed
      <4> QED BY <4>2 DEF ReadKey
    <3>2. \A u \in Threads \ {t} : ~Using(u, House)'
      BY <2>0, <2>3, <2>4, <2>9 DEF Using, Writes, File
    <3>3. /\ Tail(d) # <<>> /\ Head(Tail(d)).value = 1 => w.value = 1
          /\ w.key = "EnableSeller" /\ w.value = 1 => ReadKey(House, "GUID") = 1
      BY <2>0, <2>9 DEF HouseInv, d, w
    <3>4. CASE Tail(d) = <<>>
      <4>1. ~Using(t, House)'
        BY <2>5, <3>4 DEF Using, Writes
      <4>2. w.key = "EnableSeller"
        BY <2>1, <2>9, <3>4
      <4>3. (ReadKey(House, "EnableSeller") = 1 => ReadKey(House, "GUID") = 1)'
        BY <3>1, <3>3, <4>2
      <4> QED BY <3>2, <4>1, <4>3 DEF HouseInv
    <3>5. CASE Tail(d) # <<>>
      <4>1. Using(t, House)'
        BY <2>1, <2>5, <3>5 DEF Using, Writes, File
      <4>2. ReadKey(House, "GUID")' = w.value
        BY <2>1, <3>1, <3>5
      <4>3. LET e == threads'[t].todo
            IN /\ Tail(e) # <<>> /\ Head(Tail(e)).value = 1 => Head(e).value = 1
               /\ Head(e).key = "EnableSeller" /\ Head(e).value = 1 =>
                     ReadKey(House, "GUID")' = 1
        BY <2>1, <2>5, <3>3, <3>5, <4>2
      <4> QED BY <3>2, <4>1, <4>3 DEF HouseInv
    <3> QED BY <3>4, <3>5
  <2> QED BY <2>8, <2>9
<1>8. ASSUME Crash PROVE HouseInv'
  <2>1. \A u \in Threads : ~Using(u, House)'
    BY <1>8, IdleTyped DEF Crash, Using, Writes
  <2>2. \A k : ReadKey(House, k)' = ReadKey(House, k)
    BY <1>8 DEF Crash, ReadKey
  <2>3. harm' = "none" => harm = "none" /\ \A u \in Threads : ~Using(u, House)
    BY <1>8 DEF Crash, EndsEarly
  <2> QED BY <2>1, <2>2, <2>3 DEF HouseInv
<1>9. CASE UNCHANGED vars
  BY <1>9 DEF vars, files, HouseInv, ReadKey, Using, Writes, File
<1> QED BY <1>1, <1>2, <1>3, <1>4, <1>5, <1>6, <1>7, <1>8, <1>9, Shapes

----------------------------------------------------------------------------
(* The theorems.                                                           *)

\* The first state satisfies every invariant.
LEMMA Start == Init => TypeInv /\ LoadedInv /\ SoundInv /\ HouseInv
<1> SUFFICES ASSUME Init PROVE TypeInv /\ LoadedInv /\ SoundInv /\ HouseInv
  OBVIOUS
<1>1. \A f \in Files : [l \in Lines(f) |-> 0] \in Contents
  <2>1. \A f \in Files : Lines(f) \in SUBSET AllLines
    BY DEF Files, Lines, AllLines, World, House
  <2>2. \A f \in Files : [l \in Lines(f) |-> 0] \in [Lines(f) -> Values]
    BY DEF Values
  <2> QED BY <2>1, <2>2 DEF Contents
<1>2. TypeInv
  BY <1>1, IdleTyped DEF Init, TypeInv, TypeOK
<1>3. LoadedInv
  BY DEF Init, LoadedInv
<1>4. \A t \in Threads, f \in Files : ~Using(t, f)
  BY IdleTyped DEF Init, Using, Writes
<1>5. SoundInv
  <2>1. \A t \in Threads : Sure(threads[t])
    BY IdleTyped DEF Init, Sure
  <2> QED BY <1>4, <2>1 DEF Init, SoundInv
<1>6. HouseInv
  BY <1>4 DEF Init, HouseInv, ReadKey, Files
<1> QED BY <1>2, <1>3, <1>5, <1>6

\* The configuration, the temporary files and the requests keep their types,
\* whatever the requests do to one another's files.
THEOREM TypesHold == Spec => []TypeOK
<1>1. TypeInv => TypeOK
  BY DEF TypeInv
<1> QED BY <1>1, Start, TypeStep, PTL DEF Spec

\* A worldserver that runs on changed files will be restarted by a request
\* under way, unless such a request ended early.
THEOREM ChangesLoad == Spec => []ChangesAreLoaded
<1>1. LoadedInv => ChangesAreLoaded
  BY DEF LoadedInv, ChangesAreLoaded
<1> QED BY <1>1, Start, TypeStep, LoadedStep, PTL DEF Spec

\* No file loses a line while no two requests write it at a time.
THEOREM FilesStayWhole == Spec => []FilesWhole
<1>1. SoundInv => FilesWhole
  BY DEF SoundInv, FilesWhole
<1> QED BY <1>1, Start, TypeStep, SoundStep, PTL DEF Spec

\* Nobody sells without a character.
THEOREM HousesHaveCharacters == Spec => []HouseHasCharacter
<1>1. HouseInv => HouseHasCharacter
  BY DEF HouseInv, HouseHasCharacter
<1> QED BY <1>1, Start, TypeStep, SoundStep, HouseStep, PTL DEF Spec

=============================================================================
