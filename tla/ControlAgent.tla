---------------------------- MODULE ControlAgent ----------------------------
(***************************************************************************)
(* The control agent (control-agent/server.py): a threaded server that      *)
(* rewrites the worldserver's configuration files key by key and starts,    *)
(* stops and restarts the realm.                                            *)
(*                                                                         *)
(* Every write replaces a whole file by way of a temporary one whose name   *)
(* is the same for all threads, and nothing keeps two threads apart.  A     *)
(* file is a function from its lines to their values; a line that is gone   *)
(* is not in its domain.                                                    *)
(*                                                                         *)
(* Of the settings there are the player limit in worldserver.conf, the      *)
(* auction house with its character and its seller in mod_ahbot.conf, and   *)
(* the type of the realm, in worldserver.conf and in the database.  Only    *)
(* the values of the auction house are told apart.  Each file has another   *)
(* line that the agent never writes.                                        *)
(***************************************************************************)
EXTENDS Integers, Sequences, TLC

CONSTANT Threads    \* requests the agent handles at a time

ASSUME ControlAgentAssumption == Threads # {}

World == "worldserver.conf"
House == "modules/mod_ahbot.conf"
Files == {World, House}
Lines(f) == IF f = World THEN {"other", "PlayerLimit", "GameType"}
            ELSE {"other", "GUID", "EnableSeller"}
Values == {0, 1}
Value  == 0      \* of a line whose values are not told apart
Keep   == -1     \* a field the request does not mention
Empty  == [l \in {} |-> 0]
NoFile == [l \in {"absent"} |-> 0]
Write(f, k, v) == [file |-> f, key |-> k, value |-> v]

\* What a thread holds: where it is, the keys still to write, the text of
\* the file it is writing and the file its handle is on, and whether a
\* setting was changed.
Idle == [pc |-> "idle", todo |-> <<>>, text |-> Empty, handle |-> "none", changed |-> FALSE]

VARIABLES
    conf,       \* the configuration files
    temp,       \* the temporary file beside each of them
    threads,    \* the requests being handled
    realm,      \* the worldserver: "down", "up" with the files as they are,
                \* "stale" when a file has changed since it started, "given up" when
                \* a request that changed something ended early after that
    harm        \* the worst that has befallen the files: two requests wrote one of
                \* them at a time ("overlap"), or one request ended between the two
                \* keys of the auction house ("cut"), or "none"

files  == <<conf, temp>>
vars   == <<files, threads, realm, harm>>

Init ==
    /\ conf = [f \in Files |-> [l \in Lines(f) |-> 0]]
    /\ temp = [f \in Files |-> NoFile]
    /\ threads = [t \in Threads |-> Idle]
    /\ realm = "up"
    /\ harm = "none"

----------------------------------------------------------------------------
At(t, pc)     == threads[t].pc = pc
Set(t, th)    == threads' = [threads EXCEPT ![t] = th]
Goto(t, pc)   == Set(t, [threads[t] EXCEPT !.pc = pc])
Writes(t)     == threads[t].todo # <<>>
File(t)       == Head(threads[t].todo).file
Using(t, f)   == Writes(t) /\ File(t) = f

\* A request ends before its time; whoever reads the files next may find a
\* half of it, and the worldserver is not restarted.
EndsEarly(T) ==
    /\ realm' = IF realm = "stale" /\ \E t \in T : threads[t].changed
                THEN "given up" ELSE realm
    /\ harm' = IF harm = "none" /\ \E t \in T : Using(t, House) THEN "cut" ELSE harm

\* read_config_value.
ReadKey(f, k) == IF k \in DOMAIN conf[f] THEN conf[f][k] ELSE 0

\* A file is not any more what a running worldserver has read.
Changes == IF realm = "up" THEN "stale" ELSE realm

\* The thread is to write some keys of one file.
Begin(t, todo) ==
    /\ Set(t, [threads[t] EXCEPT !.pc = "read", !.todo = todo])
    /\ harm' = IF \E u \in Threads \ {t} : Using(u, todo[1].file) THEN "overlap" ELSE harm
    /\ UNCHANGED <<files, realm>>

----------------------------------------------------------------------------
(* POST /v1/settings: each setting the request mentions in turn.           *)

Receive(t) ==
    /\ At(t, "idle")
    /\ \E pc \in {"limit", "house", "type"} : Goto(t, pc)
    /\ UNCHANGED <<files, realm, harm>>

SetLimit(t) ==
    /\ At(t, "limit")
    /\ Begin(t, <<Write(World, "PlayerLimit", Value)>>)

\* A slip: the look at the settings in force is forgotten.
SetHouseUnmerged(t) ==
    /\ At(t, "house")
    /\ \E g \in Values \cup {Keep}, s \in Values \cup {Keep} :
          /\ ~(s = 1 /\ g = 0)
          /\ Begin(t, <<Write(House, "GUID", g), Write(House, "EnableSeller", s)>>)

\* A slip: only the fields of the request are compared.
SetHouseUncompared(t) ==
    /\ At(t, "house")
    /\ \E g \in Values \cup {Keep}, s \in Values \cup {Keep} :
          LET guid   == IF g = Keep THEN ReadKey(House, "GUID") ELSE g
              seller == IF s = Keep THEN ReadKey(House, "EnableSeller") ELSE s
          IN /\ ~(s = 1 /\ g = 0)
             /\ Begin(t, <<Write(House, "GUID", guid), Write(House, "EnableSeller", seller)>>)

\* update_auction_house_settings completes the request with the settings in
\* force; nobody sells without a character.  Both keys are written, so what
\* others write between this look and the first key changes nothing.
SetHouse(t) ==
    /\ At(t, "house")
    /\ \E g \in Values \cup {Keep}, s \in Values \cup {Keep} :
          LET guid   == IF g = Keep THEN ReadKey(House, "GUID") ELSE g
              seller == IF s = Keep THEN ReadKey(House, "EnableSeller") ELSE s
          IN /\ ~(seller = 1 /\ guid = 0)
             /\ Begin(t, <<Write(House, "GUID", guid), Write(House, "EnableSeller", seller)>>)

SetType(t) ==
    /\ At(t, "type")
    /\ Begin(t, <<Write(World, "GameType", Value)>>)

\* The request does not mention the setting.  (realm_name, which restarts
\* nothing, changes a database the model does not have.)
Skip(t) ==
    /\ \/ At(t, "house") /\ Goto(t, "type")
       \/ At(t, "type")  /\ Goto(t, "check")
    /\ UNCHANGED <<files, realm, harm>>

\* A value is invalid, a file or the database cannot be reached, or the
\* disk is full: the settings before it stay changed.
Reject(t) ==
    /\ \/ At(t, "limit") \/ At(t, "house") \/ At(t, "type")
       \/ At(t, "read") \/ At(t, "open") \/ At(t, "write")
    /\ Set(t, Idle)
    /\ EndsEarly({t})
    /\ UNCHANGED files

----------------------------------------------------------------------------
(* write_config_value.                                                     *)

Changed(now, w) == [l \in DOMAIN now \cup {w.key} |-> IF l = w.key THEN w.value ELSE now[l]]

\* The lines are read and one of them replaced, or added ...
ReadFile(t) ==
    /\ At(t, "read")
    /\ LET w == Head(threads[t].todo)
       IN Set(t, [threads[t] EXCEPT !.pc = "open", !.text = Changed(conf[w.file], w)])
    /\ UNCHANGED <<files, realm, harm>>

\* A slip: the file itself is opened for writing.
OpenConf(t) ==
    /\ At(t, "open")
    /\ conf' = [conf EXCEPT ![File(t)] = Empty]
    /\ temp' = [temp EXCEPT ![File(t)] = Empty]
    /\ Set(t, [threads[t] EXCEPT !.pc = "write", !.handle = "temp"])
    /\ UNCHANGED <<realm, harm>>

\* ... the temporary file is opened, whoever else has it open, and emptied ...
OpenTemp(t) ==
    /\ At(t, "open")
    /\ temp' = [temp EXCEPT ![File(t)] = Empty]
    /\ Set(t, [threads[t] EXCEPT !.pc = "write", !.handle = "temp"])
    /\ UNCHANGED <<conf, realm, harm>>

\* ... written, wherever another thread has moved it meanwhile ...
WriteTemp(t) ==
    /\ At(t, "write")
    /\ temp' = IF threads[t].handle = "temp"
               THEN [temp EXCEPT ![File(t)] = threads[t].text] ELSE temp
    /\ conf' = IF threads[t].handle = "conf"
               THEN [conf EXCEPT ![File(t)] = threads[t].text] ELSE conf
    /\ realm' = IF threads[t].handle = "conf" THEN Changes ELSE realm
    /\ Set(t, [threads[t] EXCEPT !.pc = "replace", !.text = Empty, !.handle = "none",
                                 !.changed = @ \/ threads[t].handle = "conf"])
    /\ UNCHANGED harm

After(w) == CASE w.key = "PlayerLimit"  -> "house"
              [] w.key = "EnableSeller" -> "type"
              [] w.key = "GameType"     -> "check"
              [] OTHER                  -> "read"

\* Where a handle leads when the temporary file is moved.
Moved(h) == CASE h = "temp" -> "conf" [] h = "conf" -> "gone" [] OTHER -> h

\* ... and takes the place of the file.
Replace(t) ==
    /\ At(t, "replace") /\ temp[File(t)] # NoFile
    /\ LET f == File(t)
       IN /\ conf' = [conf EXCEPT ![f] = temp[f]]
          /\ temp' = [temp EXCEPT ![f] = NoFile]
          /\ threads' = [u \in Threads |->
                IF u = t THEN [threads[t] EXCEPT !.pc = After(Head(threads[t].todo)),
                                                 !.todo = Tail(@), !.changed = TRUE]
                ELSE IF Using(u, f) THEN [threads[u] EXCEPT !.handle = Moved(@)]
                ELSE threads[u]]
    /\ realm' = Changes
    /\ UNCHANGED harm

\* Another thread has moved the temporary file away: FileNotFoundError, which
\* the handler does not catch.
ReplaceFails(t) ==
    /\ At(t, "replace") /\ temp[File(t)] = NoFile
    /\ Set(t, Idle)
    /\ EndsEarly({t})
    /\ UNCHANGED files

----------------------------------------------------------------------------
(* The realm.                                                              *)

\* A slip: a request that restarts the realm is enough for the others.
CheckShared(t) ==
    /\ At(t, "check")
    /\ IF threads[t].changed /\ realm # "down"
          /\ \A u \in Threads \ {t} : ~At(u, "restart")
       THEN Goto(t, "restart") ELSE Set(t, Idle)
    /\ UNCHANGED <<files, realm, harm>>

\* After a change a running worldserver is restarted.
Check(t) ==
    /\ At(t, "check")
    /\ IF threads[t].changed /\ realm # "down" THEN Goto(t, "restart") ELSE Set(t, Idle)
    /\ UNCHANGED <<files, realm, harm>>

\* The database does not take the new type, or service_state takes a failed
\* query for a worldserver that is down.
CheckFails(t) ==
    /\ At(t, "check")
    /\ Set(t, Idle)
    /\ EndsEarly({t})
    /\ UNCHANGED files

\* docker restart: down, and up with the files of the moment; the owner's
\* restart and start end in the same way.
RestartDown(t) ==
    /\ At(t, "restart")
    /\ realm' = "down"
    /\ Goto(t, "start")
    /\ UNCHANGED <<files, harm>>

StartWorld(t) ==
    /\ At(t, "start")
    /\ realm' = IF realm = "down" THEN "up" ELSE realm
    /\ Set(t, Idle)
    /\ UNCHANGED <<files, harm>>

\* docker fails or takes too long.
DockerFails(t) ==
    /\ At(t, "restart") \/ At(t, "start")
    /\ Set(t, Idle)
    /\ EndsEarly({t})
    /\ UNCHANGED files

\* POST /v1/actions/...: the authserver first, which is left out here.
Action(t) ==
    /\ At(t, "idle")
    /\ \/ Goto(t, "start") /\ UNCHANGED realm
       \/ Goto(t, "restart") /\ UNCHANGED realm
       \/ realm' = "down" /\ UNCHANGED threads
    /\ UNCHANGED <<files, harm>>

\* The agent ends and starts again; what it left in a temporary file is
\* never read.
Crash ==
    /\ threads' = [t \in Threads |-> Idle]
    /\ temp' = [f \in Files |-> IF temp[f] = NoFile THEN NoFile ELSE Empty]
    /\ EndsEarly(Threads)
    /\ UNCHANGED conf

----------------------------------------------------------------------------
Settings(t) == \/ Receive(t) \/ SetLimit(t) \/ SetHouse(t) \/ SetType(t)
               \/ Skip(t) \/ Reject(t)
FileIO(t)   == \/ ReadFile(t) \/ OpenTemp(t) \/ WriteTemp(t) \/ Replace(t)
               \/ ReplaceFails(t)
Realm(t)    == \/ Check(t) \/ CheckFails(t) \/ RestartDown(t) \/ StartWorld(t)
               \/ DockerFails(t) \/ Action(t)

Next == Crash \/ \E t \in Threads : Settings(t) \/ FileIO(t) \/ Realm(t)

Spec == Init /\ [][Next]_vars

----------------------------------------------------------------------------
(* Properties.                                                             *)

AllLines == Lines(World) \cup Lines(House)
Contents == UNION {[L -> Values] : L \in SUBSET AllLines}
Todos ==
    {<<>>, <<Write(World, "PlayerLimit", Value)>>, <<Write(World, "GameType", Value)>>}
    \cup {<<Write(House, "GUID", g), Write(House, "EnableSeller", s)>> : g \in Values, s \in Values}
    \cup {<<Write(House, "EnableSeller", s)>> : s \in Values}
Handlers ==
    [pc : {"idle", "limit", "house", "type", "read", "open", "write", "replace",
           "check", "restart", "start"},
     todo : Todos, text : Contents, handle : {"none", "temp", "conf", "gone"},
     changed : BOOLEAN]

\* The types of the variables.
TypeOK ==
    /\ conf \in [Files -> Contents] /\ temp \in [Files -> Contents \cup {NoFile}]
    /\ threads \in [Threads -> Handlers]
    /\ realm \in {"down", "up", "stale", "given up"}
    /\ harm \in {"none", "cut", "overlap"}

\* As long as no two requests write a file at the same time, no file is ever
\* seen without one of its lines, though the agent may end between any two
\* steps of a write (test_server.py: "replaced_without_touching_other_lines").
FilesWhole == harm # "overlap" => \A f \in Files : DOMAIN conf[f] = Lines(f)

\* Nobody sells without a character, though a request may change the one or
\* the other only, as long as no request ended between the two keys.
HouseHasCharacter ==
    harm = "none" /\ (\A t \in Threads : ~Using(t, House))
        => (ReadKey(House, "EnableSeller") = 1 => ReadKey(House, "GUID") = 1)

\* A worldserver that runs on files that have changed since its start will be
\* restarted by a request under way, or a request has ended early; whatever
\* two requests do to one another's files.
ChangesAreLoaded ==
    realm = "stale" => \E t \in Threads : threads[t].changed

\* The requests are alike.
Alike == Permutations(Threads)

=============================================================================
