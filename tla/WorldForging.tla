---------------------------- MODULE WorldForging ----------------------------
(***************************************************************************)
(* What the forge promises the owner, without its queue, its worker, its   *)
(* request threads and the companions.  Each forge that is asked for runs  *)
(* once and ends once, complete or failed, if it ends at all.  The first   *)
(* running forge that gets so far makes the world; no other ever makes     *)
(* one.  While it runs, and only then, the forge that made the world makes *)
(* it ready, and it is complete only when the world is.                    *)
(***************************************************************************)
CONSTANTS Forges, NoForge

VARIABLES world,    \* the forge that made the world
          status,   \* "none", "queued", "running", "complete" or "failed"
          ready     \* the world's founders are bound, have souls and profiles

vars == <<world, status, ready>>

Init == /\ world = NoForge
        /\ status = [f \in Forges |-> "none"]
        /\ ready = FALSE

Moves(f, from, to) ==
    /\ status[f] = from
    /\ status' = [status EXCEPT ![f] = to]
    /\ UNCHANGED <<world, ready>>

\* With no founders a world is ready as soon as it is made.
Make(f) ==
    /\ status[f] = "running" /\ world = NoForge
    /\ world' = f
    /\ ready' \in BOOLEAN
    /\ UNCHANGED status

Prepare(f) ==
    /\ status[f] = "running" /\ world = f
    /\ ready' = TRUE
    /\ UNCHANGED <<world, status>>

Next == \E f \in Forges :
    \/ Moves(f, "none", "queued")
    \/ Moves(f, "queued", "running")
    \/ Make(f) \/ Prepare(f)
    \/ world = f /\ ready /\ Moves(f, "running", "complete")
    \/ Moves(f, "running", "failed")

Spec == Init /\ [][Next]_vars
=============================================================================
