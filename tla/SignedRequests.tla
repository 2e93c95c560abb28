--------------------------- MODULE SignedRequests ---------------------------
(***************************************************************************)
(* The Soul Service accepts each signed request once                       *)
(* (soul-service/src/soulforge/server.py, _authorized, remember_nonce).     *)
(*                                                                         *)
(* A request carries a nonce and the time it was signed at, its signature  *)
(* covers both, and signers never use a nonce again: a request is named by *)
(* its nonce, and may arrive any number of times.  A handler reads the     *)
(* clock, compares it with the signed time and later, in one transaction,  *)
(* forgets the nonces that are older than Retention by that reading and    *)
(* inserts its own.  Requests of other forms are refused before any of     *)
(* this and are left out, and the clock of the service does not go back.   *)
(***************************************************************************)
EXTENDS Integers

CONSTANTS Nonces,     \* of requests that were signed
          SignedAt,   \* the time each was signed at, by the signer's clock
          Handlers,   \* threads that serve requests
          Skew,       \* 30 seconds
          Retention,  \* 300 seconds
          Delay       \* bound on the wait for the database, timeout=10

\* A nonce is kept as long as its request may still be accepted.
Window ==
    /\ SignedAt \in [Nonces -> Int]
    /\ Skew \in Nat /\ Retention \in Nat /\ Delay \in Nat
    /\ Retention >= 2 * Skew + Delay

VARIABLES clock,    \* of the service
          seen,     \* rows of the table nonces, as pairs of a nonce and seen_at
          busy,     \* handlers between the reading of the clock and the table
          nonce,    \* of the request each handler is about
          now,      \* what it read off the clock
          times     \* ghost: how often each request was accepted

vars == <<clock, seen, busy, nonce, now, times>>

Init ==
    /\ clock \in Int
    /\ seen = {} /\ busy = {}
    /\ nonce \in [Handlers -> Nonces] /\ now \in [Handlers -> Int]
    /\ times = [n \in Nonces |-> 0]

\* Time passes, but no handler waits longer than the database's timeout.
Tick ==
    /\ clock' = clock + 1
    /\ \A h \in busy : clock' <= now[h] + Delay
    /\ UNCHANGED <<seen, busy, nonce, now, times>>

\* A request whose time is right goes on to the table; others are refused.
Receive(h, n) ==
    /\ h \notin busy
    /\ clock - SignedAt[n] <= Skew /\ SignedAt[n] - clock <= Skew
    /\ busy' = busy \cup {h}
    /\ nonce' = [nonce EXCEPT ![h] = n]
    /\ now' = [now EXCEPT ![h] = clock]
    /\ UNCHANGED <<clock, seen, times>>

\* The rows that are not too old for handler h.
Kept(h) == {row \in seen : row[2] >= now[h] - Retention}

\* remember_nonce: the old rows go and the new one is inserted ...
Remember(h) ==
    /\ h \in busy /\ \A row \in Kept(h) : row[1] # nonce[h]
    /\ seen' = Kept(h) \cup {<<nonce[h], now[h]>>}
    /\ times' = [times EXCEPT ![nonce[h]] = @ + 1]
    /\ busy' = busy \ {h}
    /\ UNCHANGED <<clock, nonce, now>>

\* ... or nothing happens: the nonce is there (IntegrityError, and the
\* deletion is not committed), or the database stays locked.
Refuse(h) ==
    /\ h \in busy
    /\ busy' = busy \ {h}
    /\ UNCHANGED <<clock, seen, nonce, now, times>>

\* The service ends and starts again with the table it had.
Restart ==
    /\ busy' = {}
    /\ UNCHANGED <<clock, seen, nonce, now, times>>

Next ==
    \/ Tick \/ Restart
    \/ \E h \in Handlers : Remember(h) \/ Refuse(h) \/ \E n \in Nonces : Receive(h, n)

Spec == Init /\ [][Next]_vars

----------------------------------------------------------------------------
\* A request is accepted once at most, however often and by however many
\* handlers at a time it arrives, also after its nonce was deleted
\* (soul-service/README.md:6, "nonce replay protection").
AcceptedOnce == \A n \in Nonces : times[n] <= 1

TypeOK ==
    /\ clock \in Int
    /\ seen \subseteq Nonces \X Int /\ busy \subseteq Handlers
    /\ nonce \in [Handlers -> Nonces] /\ now \in [Handlers -> Int]
    /\ times \in [Nonces -> Nat]

\* A handler's reading is not far behind the clock and was in the window; a
\* row was inserted by such a handler; and a request that was accepted has its
\* row, or the clock is past all handlers that could accept it again.
InTime ==
    /\ \A h \in busy :
          /\ now[h] <= clock /\ clock <= now[h] + Delay
          /\ now[h] - SignedAt[nonce[h]] <= Skew /\ SignedAt[nonce[h]] - now[h] <= Skew
    /\ \A row \in seen : row[2] >= SignedAt[row[1]] - Skew
    /\ \A n \in Nonces : times[n] > 0 =>
          (\E row \in seen : row[1] = n) \/ clock > SignedAt[n] - Skew + Retention

IInv == TypeOK /\ InTime /\ AcceptedOnce

=============================================================================
