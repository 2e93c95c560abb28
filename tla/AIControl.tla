------------------------------ MODULE AIControl ------------------------------
(***************************************************************************)
(* The owner's hold on the AI of the Soul Service: the kill switch, the     *)
(* monthly cap, the provider profiles and the route of a generation         *)
(* (soul-service/src/soulforge/server.py, world.py and providers.py).       *)
(*                                                                         *)
(* Request threads change the settings table, the profiles and the routes   *)
(* in several statements and transactions each, and keep the switch in      *)
(* memory beside the table.  The one worker reads all of it, statement by   *)
(* statement, on its way to a provider, and books what the call cost.       *)
(*                                                                         *)
(* Of the profiles there are ollama-local and one that costs money,         *)
(* openai-primary, which a start of the service with a key in its           *)
(* environment imports.  One route stands for the four.  souls_enabled is   *)
(* always written with ai_enabled and read by nobody, so it is left out.    *)
(***************************************************************************)
EXTENDS Integers, TLC

CONSTANTS Threads,    \* request threads of the service
          Caps,       \* monthly_cap_micros an owner may set; 0 lifts the cap
          MaxCost,    \* the most one call costs
          MaxSpent,   \* bound on what is booked in a month
          Bootstrap   \* is SOULFORGE_OPENAI_API_KEY set

ASSUME AIControlAssumption ==
    /\ Caps \subseteq Nat /\ MaxCost \in Nat /\ MaxSpent \in Nat
    /\ Bootstrap \in BOOLEAN

Local == "ollama-local"
Paid  == "openai-primary"
Providers == {Local, Paid}

Keep    == -1     \* a field the request does not mention
NoCap   == 0
Nobody  == "none"
Higher(a, b) == IF a > b THEN a ELSE b

\* What a request thread holds: where it is, and the values it has read or
\* is to write; ghosts: does the request itself ask for AI, and had it read AI
\* as on when AI was switched off.
Idle == [pc |-> "idle", enabled |-> Keep, cap |-> Keep, provider |-> Nobody,
         on |-> FALSE, old |-> FALSE]
Pcs == {"idle", "merge", "write", "reread", "assign", "chat", "chat check", "chat save",
        "switch", "validate", "check", "save"}
Requests == [pc : Pcs, enabled : {Keep, 0, 1}, cap : Caps \cup {Keep, NoCap},
             provider : Providers \cup {Nobody}, on : BOOLEAN, old : BOOLEAN]
AtRest == [pc |-> "idle", provider |-> Nobody, cap |-> NoCap]
Generations == [pc : {"idle", "profile", "cap", "usage", "call"},
                provider : Providers \cup {Nobody}, cap : Caps \cup {NoCap}]

VARIABLES
    service,    \* "down", "importing" a provider at its start, or "up"
    ai,         \* self.ai_enabled, as 0 or 1
    enabled,    \* settings: ai_enabled
    cap,        \* settings: monthly_cap_micros
    profile,    \* provider_profiles: absent, enabled or disabled
    route,      \* ai_routes: provider_id
    threads,    \* the request threads
    worker,     \* _route_generation
    spent,      \* what usage_summary adds up for this month
    high,       \* the highest cap of this month, NoCap if it was ever lifted
    killed,     \* was AI off when a request to switch it off was answered, and has
                \* nothing been stored since that asked for AI or had read it as on
    woken,      \* is AI on in memory since, by a request that asks for it
    torn        \* since the start, did a request overlap another or fail halfway

stored == <<enabled, cap, profile, route, spent>>
ghosts == <<high, killed, woken, torn>>
vars   == <<service, ai, stored, threads, worker, ghosts>>

Init ==
    /\ service = "down" /\ ai = 1
    /\ enabled = 1 /\ cap = NoCap
    /\ profile = [p \in Providers |-> IF p = Local THEN "enabled" ELSE "absent"]
    /\ route = Local
    /\ threads = [t \in Threads |-> Idle] /\ worker = AtRest
    /\ spent = 0 /\ high = NoCap /\ killed = FALSE /\ woken = FALSE /\ torn = FALSE

----------------------------------------------------------------------------
(* Request threads.                                                        *)

At(t, pc) == service = "up" /\ threads[t].pc = pc
Set(t, r) == threads' = [threads EXCEPT ![t] = r]
Goto(t, pc) == Set(t, [threads[t] EXCEPT !.pc = pc])
Done(t) == Set(t, Idle)
Alone(t) == \A u \in Threads \ {t} : threads[u].pc = "idle"

\* A request arrives.
Receive(t, request) ==
    /\ At(t, "idle")
    /\ Set(t, request)
    /\ torn' = (torn \/ ~Alone(t))
    /\ UNCHANGED <<service, ai, stored, worker, high, killed, woken>>

\* What t is about to set switches AI on, because its request asks for that,
\* or because it read so before AI was switched off.
Undoes(t) == threads[t].enabled = 1 /\ (threads[t].on \/ threads[t].old)

\* The request of t is answered.  If it switched AI off, and memory and table
\* are both off now, AI counts as killed from here on, and what other requests
\* have read of the switch as old.
Answered(t) ==
    LET off == threads[t].enabled = 0 /\ ai' = 0 /\ enabled' = 0
        Reader(r) == r.enabled = 1 /\ ~r.on
    IN
    /\ threads' = [u \in Threads |->
          IF u = t THEN Idle
          ELSE [threads[u] EXCEPT !.old = @ \/ (off /\ ~killed /\ Reader(threads[u]))]]
    /\ killed' = ((killed /\ ~Undoes(t)) \/ off)
    /\ woken' = (woken /\ killed' /\ ~off)
    /\ UNCHANGED <<high, torn>>

\* PUT /admin/v1/ai/state ...
PutState(t) == Receive(t, [Idle EXCEPT !.pc = "merge"])

\* What the request sets: the switch, the cap or both.
Payloads == {p \in [enabled : {Keep, 0, 1}, cap : Caps \cup {Keep}] :
                p.enabled # Keep \/ p.cap # Keep}

Merged(p, e, c) ==
    [Idle EXCEPT !.pc = "write", !.on = p.enabled = 1,
                 !.enabled = IF p.enabled = Keep THEN e ELSE p.enabled,
                 !.cap = IF p.cap = Keep THEN c ELSE p.cap]

\* A slip: what the request does not mention is not completed.
MergeStateNothing(t) ==
    /\ At(t, "merge")
    /\ \E p \in Payloads : Set(t, Merged(p, Keep, Keep))
    /\ UNCHANGED <<service, ai, stored, worker, ghosts>>

\* A slip: a switch that the request does not mention is set to on.
MergeStateDefault(t) ==
    /\ At(t, "merge")
    /\ \E p \in Payloads : Set(t, Merged(p, 1, cap))
    /\ UNCHANGED <<service, ai, stored, worker, ghosts>>

\* ... save_ai_state reads the whole state and completes with it what the
\* request sets ...
MergeState(t) ==
    /\ At(t, "merge")
    /\ \E p \in Payloads : Set(t, Merged(p, enabled, cap))
    /\ UNCHANGED <<service, ai, stored, worker, ghosts>>

\* ... writes the whole state in one transaction ...
WriteState(t) ==
    /\ At(t, "write")
    /\ enabled' = threads[t].enabled
    /\ cap' = threads[t].cap
    /\ high' = IF NoCap \in {high, cap'} THEN NoCap ELSE Higher(high, cap')
    /\ killed' = (killed /\ ~Undoes(t))
    /\ woken' = (woken /\ killed')
    /\ Set(t, [Idle EXCEPT !.pc = "reread"])
    /\ UNCHANGED <<service, ai, profile, route, spent, worker, torn>>

\* ... reads it once more for the answer ...
RereadState(t) ==
    /\ At(t, "reread")
    /\ Set(t, [threads[t] EXCEPT !.pc = "assign", !.enabled = enabled])
    /\ UNCHANGED <<service, ai, stored, worker, ghosts>>

\* ... and the handler takes what was read into memory.
AssignState(t) ==
    /\ At(t, "assign")
    /\ ai' = threads[t].enabled
    /\ UNCHANGED <<service, stored, worker>>
    /\ Answered(t)

\* The database refuses one of the three statements, the request ends there.
StateFails(t) ==
    /\ At(t, "merge") \/ At(t, "write") \/ At(t, "reread")
    /\ torn' = (torn \/ threads[t].pc = "reread")
    /\ Done(t)
    /\ UNCHANGED <<service, ai, stored, worker, high, killed, woken>>

\* The request as it comes to souls_enabled, which it may not mention.
AtSwitch(e) == [Idle EXCEPT !.pc = "switch", !.enabled = e, !.on = e = 1]

\* PUT /admin/v1/server/settings, with a model for dialogue or without.
PutSettings(t) ==
    \/ Receive(t, [Idle EXCEPT !.pc = "chat"])
    \/ \E e \in {0, 1} : Receive(t, AtSwitch(e))

\* The model goes into the dialogue route, which is read ...
ReadDialogueRoute(t) ==
    /\ At(t, "chat")
    /\ Set(t, [threads[t] EXCEPT !.pc = "chat check", !.provider = route])
    /\ UNCHANGED <<service, ai, stored, worker, ghosts>>

\* ... and saved whole, provider and all.
SaveDialogueRoute(t) ==
    /\ At(t, "chat save")
    /\ profile[threads[t].provider] # "absent"
    /\ route' = threads[t].provider
    /\ \E e \in {Keep, 0, 1} : Set(t, AtSwitch(e))
    /\ UNCHANGED <<service, ai, enabled, cap, profile, spent, worker, ghosts>>

\* souls_enabled takes effect in memory first ...
AssignSwitch(t) ==
    /\ At(t, "switch")
    /\ ai' = IF threads[t].enabled = Keep THEN ai ELSE threads[t].enabled
    /\ woken' = IF threads[t].enabled = Keep THEN woken ELSE killed /\ ai' = 1
    /\ Goto(t, "validate")
    /\ UNCHANGED <<service, stored, worker, high, killed, torn>>

\* ... a later field, or the database, may end the request there ...
RejectSettings(t) ==
    /\ At(t, "validate")
    /\ torn' = (torn \/ threads[t].enabled # Keep)
    /\ Done(t)
    /\ UNCHANGED <<service, ai, stored, worker, high, killed, woken>>

\* A slip: ai_enabled is not stored with souls_enabled.
StoreSettingsSoulsOnly(t) ==
    /\ At(t, "validate")
    /\ UNCHANGED <<service, ai, stored, worker>>
    /\ Answered(t)

\* ... and the table follows, before the control agent is asked.
StoreSettings(t) ==
    /\ At(t, "validate")
    /\ enabled' = IF threads[t].enabled = Keep THEN enabled ELSE threads[t].enabled
    /\ UNCHANGED <<service, ai, cap, profile, route, spent, worker>>
    /\ Answered(t)

\* PUT /admin/v1/ai/routing.
PutRouting(t) ==
    \E p \in Providers : Receive(t, [Idle EXCEPT !.pc = "check", !.provider = p])

\* save_routes looks for the profile over a connection of its own ...
CheckProvider(t) ==
    /\ At(t, "check") \/ At(t, "chat check")
    /\ IF profile[threads[t].provider] = "absent" THEN Done(t)
       ELSE Goto(t, IF threads[t].pc = "check" THEN "save" ELSE "chat save")
    /\ UNCHANGED <<service, ai, stored, worker, ghosts>>

\* A slip: the foreign key is not enforced.
SaveRouteUnchecked(t) ==
    /\ At(t, "save")
    /\ route' = threads[t].provider
    /\ Done(t)
    /\ UNCHANGED <<service, ai, enabled, cap, profile, spent, worker, ghosts>>

\* ... and changes the route; the foreign key looks again.
SaveRoute(t) ==
    /\ At(t, "save")
    /\ profile[threads[t].provider] # "absent"
    /\ route' = threads[t].provider
    /\ Done(t)
    /\ UNCHANGED <<service, ai, enabled, cap, profile, spent, worker, ghosts>>

\* The profile went in between: the foreign key ends the request.
SaveRouteFails(t) ==
    /\ At(t, "save") \/ At(t, "chat save")
    /\ profile[threads[t].provider] = "absent"
    /\ Done(t)
    /\ UNCHANGED <<service, ai, stored, worker, ghosts>>

\* POST /admin/v1/ai/providers inserts or replaces a profile.
SaveProvider ==
    /\ service = "up"
    /\ \E p \in Providers, state \in {"enabled", "disabled"} :
          profile' = [profile EXCEPT ![p] = state]
    /\ UNCHANGED <<service, ai, enabled, cap, route, spent, threads, worker, ghosts>>

\* DELETE /admin/v1/ai/providers/{id}: not ollama-local, and by the foreign
\* key not the provider of a route.
DeleteProvider ==
    /\ service = "up" /\ route # Paid
    /\ profile' = [profile EXCEPT ![Paid] = "absent"]
    /\ UNCHANGED <<service, ai, enabled, cap, route, spent, threads, worker, ghosts>>

----------------------------------------------------------------------------
(* The worker.                                                             *)

WorkerAt(pc) == service = "up" /\ worker.pc = pc
Call(p) == worker' = [AtRest EXCEPT !.pc = "call", !.provider = p]
NoCall == worker' = AtRest

StartGeneration ==
    /\ WorkerAt("idle") /\ ai = 1
    /\ worker' = [worker EXCEPT !.pc = "profile", !.provider = route]
    /\ UNCHANGED <<service, ai, stored, threads, ghosts>>

ReadProfile ==
    /\ WorkerAt("profile")
    /\ IF profile[worker.provider] # "enabled" THEN NoCall
       ELSE worker' = [worker EXCEPT !.pc = "cap"]
    /\ UNCHANGED <<service, ai, stored, threads, ghosts>>

\* paid_budget_available: local calls and a lifted cap need no budget ...
ReadCap ==
    /\ WorkerAt("cap")
    /\ IF cap = NoCap \/ worker.provider = Local THEN Call(worker.provider)
       ELSE worker' = [worker EXCEPT !.pc = "usage", !.cap = cap]
    /\ UNCHANGED <<service, ai, stored, threads, ghosts>>

\* A slip: the cap itself may still be spent.
ReadUsageLate ==
    /\ WorkerAt("usage")
    /\ \/ spent <= worker.cap /\ Call(Paid)
       \/ spent > worker.cap /\ profile[Local] = "enabled" /\ Call(Local)
       \/ spent > worker.cap /\ profile[Local] # "enabled" /\ NoCall
    /\ UNCHANGED <<service, ai, stored, threads, ghosts>>

\* ... and beyond the cap the local provider steps in, if it is enabled.
ReadUsage ==
    /\ WorkerAt("usage")
    /\ \/ spent < worker.cap /\ Call(Paid)
       \/ spent >= worker.cap /\ profile[Local] = "enabled" /\ Call(Local)
       \/ spent >= worker.cap /\ profile[Local] # "enabled" /\ NoCall
    /\ UNCHANGED <<service, ai, stored, threads, ghosts>>

\* The provider answers; the cost is booked unless AI went off meanwhile.
FinishCall ==
    /\ WorkerAt("call") /\ ai = 1
    /\ \E c \in IF worker.provider = Paid THEN 0 .. MaxCost ELSE {0} :
          spent' = IF spent + c > MaxSpent THEN MaxSpent ELSE spent + c
    /\ NoCall
    /\ UNCHANGED <<service, ai, enabled, cap, profile, route, threads, ghosts>>

\* No answer, an unusable one, or AI went off: booked at no cost.
FailCall ==
    /\ WorkerAt("call")
    /\ NoCall
    /\ UNCHANGED <<service, ai, stored, threads, ghosts>>

----------------------------------------------------------------------------
(* The calendar and the host.                                              *)

NewMonth ==
    /\ spent' = 0 /\ high' = cap
    /\ UNCHANGED <<service, ai, enabled, cap, profile, route, threads, worker,
                   killed, woken, torn>>

Crash ==
    /\ service' = "down"
    /\ threads' = [t \in Threads |-> Idle] /\ worker' = AtRest
    /\ woken' = FALSE
    /\ UNCHANGED <<ai, stored, high, killed, torn>>

Imports == Bootstrap /\ profile[Paid] = "absent"

\* A start takes the switch from the table ...
Start ==
    /\ service = "down" /\ ~Imports
    /\ service' = "up" /\ ai' = enabled
    /\ torn' = FALSE
    /\ UNCHANGED <<stored, threads, worker, high, killed, woken>>

\* ... after importing the profile of the environment's key, if there is
\* none, in one transaction and routing to it in another.
ImportProvider ==
    /\ service = "down" /\ Imports
    /\ profile' = [profile EXCEPT ![Paid] = "enabled"]
    /\ service' = "importing"
    /\ UNCHANGED <<ai, enabled, cap, route, spent, threads, worker, ghosts>>

ImportRoute ==
    /\ service = "importing"
    /\ route' = Paid
    /\ service' = "up" /\ ai' = enabled
    /\ torn' = FALSE
    /\ UNCHANGED <<enabled, cap, profile, spent, threads, worker, high, killed, woken>>

----------------------------------------------------------------------------
State(t)    == PutState(t) \/ MergeState(t) \/ WriteState(t) \/ RereadState(t)
               \/ AssignState(t) \/ StateFails(t)
Settings(t) == PutSettings(t) \/ ReadDialogueRoute(t) \/ SaveDialogueRoute(t)
               \/ AssignSwitch(t) \/ RejectSettings(t) \/ StoreSettings(t)
Routing(t)  == PutRouting(t) \/ CheckProvider(t) \/ SaveRoute(t) \/ SaveRouteFails(t)
Worker      == \/ StartGeneration \/ ReadProfile \/ ReadCap
               \/ ReadUsage \/ FinishCall \/ FailCall
Host        == NewMonth \/ Crash \/ Start \/ ImportProvider \/ ImportRoute

Next == \/ \E t \in Threads : State(t) \/ Settings(t) \/ Routing(t)
        \/ SaveProvider \/ DeleteProvider \/ Worker \/ Host

Spec == Init /\ [][Next]_vars

----------------------------------------------------------------------------
(* Properties.                                                             *)

\* The types of the variables.
TypeOK ==
    /\ service \in {"down", "importing", "up"}
    /\ ai \in {0, 1} /\ enabled \in {0, 1} /\ cap \in Caps \cup {NoCap}
    /\ profile \in [Providers -> {"absent", "enabled", "disabled"}]
    /\ route \in Providers
    /\ threads \in [Threads -> Requests]
    /\ worker \in Generations
    /\ spent \in 0 .. MaxSpent /\ high \in Caps \cup {NoCap}
    /\ killed \in BOOLEAN /\ woken \in BOOLEAN /\ torn \in BOOLEAN

\* Once a request to switch AI off is answered and memory and table are off,
\* the table stays off through rejected requests, restarts and changes of the
\* cap that read and rewrite the whole state, until a request that asks for AI
\* is stored, or one that had read the switch before writes it back
\* (save_ai_state loses that race).  Memory follows, but a request that asks
\* for AI wakes it before it is checked and stored: even rejected, it leaves
\* AI awake, and that lasts until the next start at most.
SwitchStaysOff ==
    killed => enabled = 0 /\ (service = "up" /\ ai = 1 => woken)

\* The switch in memory and the switch in the table, changed by two handlers
\* in opposite orders, agree whenever no request is under way, unless a
\* request overlapped another or ended between its two changes since the start.
SwitchAgrees ==
    service = "up" /\ ~torn /\ (\A t \in Threads : threads[t] = Idle) => ai = enabled

\* While there is a cap, the month's bookings never pass the highest cap of
\* the month by a whole call, whenever the owner changes it.
BudgetHolds == high # NoCap => spent < high + MaxCost

\* A route leads to a profile that exists, though save_routes looks for the
\* profile and changes the route in two steps with a deletion in between.
RouteExists == profile[route] # "absent"

\* The request threads are alike.
Alike == Permutations(Threads)

=============================================================================
