--------------------------- MODULE ReplyDelivery ---------------------------
(***************************************************************************)
(* What the delivery path promises, without its queues, threads and HTTP   *)
(* requests: "Delivery is at-least-once until acknowledgement; consumers   *)
(* deduplicate by reply ID" (docs/PROJECT.md) and "Reply IDs are held      *)
(* pending to prevent duplicate delivery and acknowledged only" after      *)
(* delivery (mod-soulbridge/README.md).  Within the life of one            *)
(* worldserver a reply is spoken at most once; across a restart it may be  *)
(* spoken again; it is settled only after someone has heard it.            *)
(***************************************************************************)
EXTENDS Integers

CONSTANT NumReplies

Replies == 1 .. NumReplies

VARIABLES created,   \* rows the Soul Service has created so far
          said,      \* how often each reply was said in this session
          heard,     \* replies said in any session
          settled    \* replies acknowledged to the Soul Service

vars == <<created, said, heard, settled>>

Init ==
    /\ created = 0
    /\ said = [r \in Replies |-> 0]
    /\ heard = {}
    /\ settled = {}

Create ==
    /\ created' = created + 1
    /\ UNCHANGED <<said, heard, settled>>

Say(r) ==
    /\ r <= created
    /\ said[r] = 0
    /\ said' = [said EXCEPT ![r] = 1]
    /\ heard' = heard \cup {r}
    /\ UNCHANGED <<created, settled>>

Settle(r) ==
    /\ r \in heard
    /\ settled' = settled \cup {r}
    /\ UNCHANGED <<created, said, heard>>

NewSession ==
    /\ said' = [r \in Replies |-> 0]
    /\ UNCHANGED <<created, heard, settled>>

Next ==
    \/ Create
    \/ \E r \in Replies : Say(r) \/ Settle(r)
    \/ NewSession

Spec == Init /\ [][Next]_vars
=============================================================================
