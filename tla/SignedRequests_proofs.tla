------------------------ MODULE SignedRequests_proofs -----------------------
(***************************************************************************)
(* The proof that a signed request is accepted once, for any number of     *)
(* requests and handlers and every retention that is long enough.          *)
(***************************************************************************)
EXTENDS SignedRequests, TLAPS

\* A nonce whose request was accepted is found by whoever has it in hand: the
\* row is there, since the clock is not past the handler's time, and it is too
\* young to be deleted by that handler itself.
LEMMA FoundAgain ==
    ASSUME Window, IInv, NEW h \in busy, times[nonce[h]] > 0
    PROVE  \E row \in Kept(h) : row[1] = nonce[h]
<1> DEFINE n == nonce[h]
<1>1. /\ n \in Nonces /\ SignedAt[n] \in Int /\ now[h] \in Int /\ clock \in Int
      /\ Skew \in Nat /\ Retention \in Nat /\ Delay \in Nat
      /\ Retention >= 2 * Skew + Delay
      /\ clock <= now[h] + Delay /\ now[h] - SignedAt[n] <= Skew
  BY DEF Window, IInv, TypeOK, InTime
<1>2. ~(clock > SignedAt[n] - Skew + Retention)
  BY <1>1
<1>3. PICK row \in seen : row[1] = n
  BY <1>1, <1>2 DEF IInv, InTime
<1>4. row[2] \in Int /\ row[2] >= SignedAt[n] - Skew
  BY <1>3 DEF IInv, TypeOK, InTime
<1>5. row[2] >= now[h] - Retention
  BY <1>1, <1>4
<1> QED BY <1>3, <1>5 DEF Kept

\* Every step keeps the invariant.
LEMMA StepKeeps == Window /\ IInv /\ [Next]_vars => IInv'
<1> SUFFICES ASSUME Window, IInv, [Next]_vars PROVE IInv'
  OBVIOUS
<1>0. TypeOK /\ InTime /\ AcceptedOnce
  BY DEF IInv
<1>1. CASE Tick
  <2>1. TypeOK' /\ AcceptedOnce'
    BY <1>0, <1>1 DEF Tick, TypeOK, AcceptedOnce
  <2>2. ASSUME NEW h \in busy'
        PROVE  /\ now'[h] <= clock' /\ clock' <= now'[h] + Delay
               /\ now'[h] - SignedAt[nonce'[h]] <= Skew /\ SignedAt[nonce'[h]] - now'[h] <= Skew
    <3>1. h \in busy /\ now[h] \in Int /\ clock \in Int /\ now' = now /\ nonce' = nonce
      BY <1>0, <1>1, <2>2 DEF Tick, TypeOK
    <3>2. now[h] <= clock
      BY <1>0, <3>1 DEF InTime
    <3> QED BY <1>0, <1>1, <3>1, <3>2 DEF Tick, InTime
  <2>3. ASSUME NEW n \in Nonces, times'[n] > 0
        PROVE  (\E row \in seen' : row[1] = n) \/ clock' > SignedAt[n] - Skew + Retention
    <3>1. /\ seen' = seen /\ clock' = clock + 1 /\ clock \in Int
          /\ (\E row \in seen : row[1] = n) \/ clock > SignedAt[n] - Skew + Retention
      BY <1>0, <1>1, <2>3 DEF Tick, InTime, TypeOK
    <3>2. SignedAt[n] - Skew + Retention \in Int
      BY DEF Window
    <3> QED BY <3>1, <3>2
  <2> QED BY <1>0, <1>1, <2>1, <2>2, <2>3 DEF Tick, InTime, IInv
<1>2. ASSUME NEW h \in Handlers, NEW n \in Nonces, Receive(h, n) PROVE IInv'
  <2>1. TypeOK' /\ AcceptedOnce'
    BY <1>0, <1>2 DEF Receive, TypeOK, AcceptedOnce
  <2>2. ASSUME NEW g \in busy'
        PROVE  /\ now'[g] <= clock' /\ clock' <= now'[g] + Delay
               /\ now'[g] - SignedAt[nonce'[g]] <= Skew /\ SignedAt[nonce'[g]] - now'[g] <= Skew
    <3>1. CASE g = h
      <4>1. now'[h] = clock /\ nonce'[h] = n /\ clock' = clock /\ clock \in Int
        BY <1>0, <1>2 DEF Receive, TypeOK
      <4>2. Delay \in Nat
        BY DEF Window
      <4> QED BY <1>2, <3>1, <4>1, <4>2 DEF Receive
    <3>2. CASE g # h
      <4>1. g \in busy /\ now'[g] = now[g] /\ nonce'[g] = nonce[g] /\ clock' = clock
        BY <1>0, <1>2, <2>2, <3>2 DEF Receive, TypeOK
      <4> QED BY <1>0, <4>1 DEF InTime
    <3> QED BY <3>1, <3>2
  <2> QED BY <1>0, <1>2, <2>1, <2>2 DEF Receive, InTime, IInv
<1>3. ASSUME NEW h \in Handlers, Remember(h) PROVE IInv'
  <2> DEFINE n == nonce[h]
  <2>1. h \in busy /\ n \in Nonces /\ now[h] \in Int /\ times[n] \in Nat
    BY <1>0, <1>3 DEF Remember, TypeOK
  <2>2. times[n] = 0
    <3>1. ~(times[n] > 0)
      BY <1>3, <2>1, FoundAgain DEF Remember
    <3> QED BY <2>1, <3>1
  <2>3. /\ seen' = Kept(h) \cup {<<n, now[h]>>} /\ Kept(h) \subseteq seen
        /\ clock' = clock /\ busy' \subseteq busy /\ nonce' = nonce /\ now' = now
        /\ times'[n] = 1 /\ \A m \in Nonces : m # n => times'[m] = times[m]
    BY <1>0, <1>3, <2>1, <2>2 DEF Remember, Kept, TypeOK
  <2>4. TypeOK'
    BY <1>0, <1>3, <2>1, <2>3 DEF Remember, TypeOK
  <2>5. AcceptedOnce'
    BY <1>0, <2>3 DEF AcceptedOnce
  <2>6. ASSUME NEW row \in seen' PROVE row[2] >= SignedAt[row[1]] - Skew
    <3>1. CASE row \in seen
      BY <1>0, <3>1 DEF InTime
    <3>2. CASE row = <<n, now[h]>>
      <4>1. SignedAt[n] - now[h] <= Skew /\ SignedAt[n] \in Int /\ Skew \in Nat
        BY <1>0, <2>1 DEF InTime, Window
      <4> QED BY <2>1, <3>2, <4>1
    <3> QED BY <2>3, <3>1, <3>2
  <2>7. ASSUME NEW m \in Nonces, times'[m] > 0
        PROVE  (\E row \in seen' : row[1] = m) \/ clock' > SignedAt[m] - Skew + Retention
    <3>1. CASE m = n
      <4>1. <<n, now[h]>> \in seen' /\ <<n, now[h]>>[1] = n
        BY <2>3
      <4> QED BY <3>1, <4>1
    <3>2. CASE m # n
      <4>1. CASE clock > SignedAt[m] - Skew + Retention
        BY <2>3, <4>1
      <4>2. CASE \E row \in seen : row[1] = m
        <5>1. PICK row \in seen : row[1] = m
          BY <4>2
        <5>2. CASE row \in Kept(h)
          BY <2>3, <5>1, <5>2
        <5>3. CASE row \notin Kept(h)
          <6>1. row[2] \in Int /\ ~(row[2] >= now[h] - Retention)
            BY <1>0, <5>1, <5>3 DEF Kept, TypeOK
          <6>2. row[2] >= SignedAt[m] - Skew /\ now[h] <= clock
            BY <1>0, <2>1, <5>1 DEF InTime
          <6>3. /\ SignedAt[m] \in Int /\ Skew \in Nat /\ Retention \in Nat
                /\ clock \in Int /\ clock' = clock
            BY <1>0, <2>3 DEF Window, TypeOK
          <6> QED BY <2>1, <6>1, <6>2, <6>3
        <5> QED BY <5>2, <5>3
      <4> QED BY <1>0, <2>3, <2>7, <3>2, <4>1, <4>2 DEF InTime
    <3> QED BY <3>1, <3>2
  <2>8. \A g \in busy' :
          /\ now'[g] <= clock' /\ clock' <= now'[g] + Delay
          /\ now'[g] - SignedAt[nonce'[g]] <= Skew /\ SignedAt[nonce'[g]] - now'[g] <= Skew
    BY <1>0, <2>3 DEF InTime
  <2> QED BY <2>4, <2>5, <2>6, <2>7, <2>8 DEF InTime, IInv
<1>4. ASSUME UNCHANGED <<clock, seen, nonce, now, times>>, busy' \subseteq busy PROVE IInv'
  BY <1>0, <1>4 DEF TypeOK, InTime, AcceptedOnce, IInv
<1>5. CASE Restart
  BY <1>4, <1>5 DEF Restart
<1>6. ASSUME NEW h \in Handlers, Refuse(h) PROVE IInv'
  BY <1>4, <1>6 DEF Refuse
<1>7. CASE UNCHANGED vars
  BY <1>4, <1>7 DEF vars
<1> QED BY <1>1, <1>2, <1>3, <1>5, <1>6, <1>7 DEF Next

\* If nonces are kept as long as Window says, no request is accepted twice, for
\* any number of requests and handlers and across restarts.
THEOREM NoReplay == Window => (Spec => []AcceptedOnce)
<1>1. Window /\ Init => IInv
  BY DEF Init, IInv, TypeOK, InTime, AcceptedOnce
<1>2. IInv => AcceptedOnce
  BY DEF IInv
<1>3. Window => Window'
  BY DEF Window
<1> QED BY <1>1, <1>2, <1>3, StepKeeps, PTL DEF Spec

\* The numbers of the code: with 30 seconds of skew and 300 of retention a
\* handler may wait for 240, where the database gives up after 10.
THEOREM CodeHasMargin ==
    ASSUME SignedAt \in [Nonces -> Int], Skew = 30, Retention = 300, Delay \in 0 .. 240
    PROVE  Window
BY DEF Window

=============================================================================
