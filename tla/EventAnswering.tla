--------------------------- MODULE EventAnswering --------------------------
(***************************************************************************)
(* What the Soul Service promises of an event, without its queue, worker,  *)
(* generations and switch.  An event the service does not know is taken in *)
(* as "queued" and is open.  An open event is answered, dismissed or, when *)
(* a job fails or the service stops, dropped: "queued" for good, never     *)
(* opened again.  Being answered and being marked complete are one step or *)
(* two, and only an answered event is complete.  Completed events are      *)
(* deleted in time, after which the same event may be posted as a new one. *)
(* One answered event draws at most one follow-up, ever.                   *)
(***************************************************************************)
EXTENDS Integers

CONSTANT Events

VARIABLES status,      \* "absent", "queued", "paused", "ignored" or "complete"
          open,        \* events that may still be answered
          replies,     \* rows each event was given as its answer
          followUps    \* rows each event was given for a second companion

vars == <<status, open, replies, followUps>>

Init ==
    /\ status = [e \in Events |-> "absent"]
    /\ open = {}
    /\ replies = [e \in Events |-> 0]
    /\ followUps = [e \in Events |-> 0]

Accept(e) ==
    /\ status[e] = "absent"
    /\ status' = [status EXCEPT ![e] = "queued"]
    /\ open' = open \cup {e}
    /\ UNCHANGED <<replies, followUps>>

\* An event posted anew after its row was deleted may find the answer of its
\* earlier life still there, and gets no second one.
Answered(e) ==
    \/ replies' = [replies EXCEPT ![e] = @ + 1]
    \/ replies[e] > 0 /\ UNCHANGED replies

\* With the answer the event is completed and completed events are deleted,
\* this one perhaps among them, or its status waits for Complete.
Answer(e) ==
    /\ e \in open
    /\ open' = open \ {e}
    /\ Answered(e)
    /\ \/ UNCHANGED status
       \/ \E gone \in SUBSET {f \in Events : status[f] = "complete" \/ f = e} :
             status' = [f \in Events |-> IF f \in gone THEN "absent"
                                         ELSE IF f = e THEN "complete"
                                         ELSE status[f]]
    /\ UNCHANGED followUps

Complete(e) ==
    /\ status[e] = "queued" /\ e \notin open /\ replies[e] > 0
    /\ status' = [status EXCEPT ![e] = "complete"]
    /\ UNCHANGED <<open, replies, followUps>>

Dismiss(e) ==
    /\ e \in open
    /\ open' = open \ {e}
    /\ \E s \in {"paused", "ignored"} : status' = [status EXCEPT ![e] = s]
    /\ UNCHANGED <<replies, followUps>>

Drop ==
    /\ open' \in SUBSET open
    /\ UNCHANGED <<status, replies, followUps>>

Follow(e) ==
    /\ replies[e] > 0 /\ followUps[e] = 0
    /\ followUps' = [followUps EXCEPT ![e] = 1]
    /\ UNCHANGED <<status, open, replies>>

Next ==
    \/ \E e \in Events : Accept(e) \/ Answer(e) \/ Complete(e) \/ Dismiss(e) \/ Follow(e)
    \/ Drop

Spec == Init /\ [][Next]_vars
=============================================================================
