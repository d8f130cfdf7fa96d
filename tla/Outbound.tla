------------------------------ MODULE Outbound ------------------------------
(***************************************************************************)
(* Outgoing webhooks, connectors/outbound.py: the rows of                  *)
(* webhook_deliveries and the processes that call deliver_due.  A claim is *)
(* a lease of five minutes; nothing but that time keeps a second process   *)
(* from claiming a delivery whose first process is slow or dead.           *)
(***************************************************************************)
EXTENDS Naturals, FiniteSets, FiniteSetTheorems, TLAPS

CONSTANTS
  Deliveries, Senders,  \* rows, and processes that run deliver_due
  max_attempts,         \* RetryPolicy.max_attempts
  MaxAbandoned          \* bound: attempts that end without _finish

VARIABLES
  status, attempts,     \* columns
  due,                  \* next_attempt_at <= now
  sending,              \* the delivery a process has claimed, or NoDelivery
  attempt,              \* row["attempts"] as it read it
  posted,               \* the request of its attempt has left
  posts, lapsed, abandoned  \* history: requests, leases that ran out during an attempt

vars == <<status, attempts, due, sending, attempt, posted, posts, lapsed, abandoned>>

NoDelivery == "none"
FINAL == {"DELIVERED", "DEAD"}

TypeOK ==
  /\ status \in [Deliveries -> {"new", "PENDING"} \cup FINAL]
  /\ attempts \in [Deliveries -> Nat] /\ due \in [Deliveries -> BOOLEAN]
  /\ sending \in [Senders -> Deliveries \cup {NoDelivery}]
  /\ attempt \in [Senders -> Nat] /\ posted \in [Senders -> BOOLEAN]
  /\ posts \in [Deliveries -> Nat] /\ lapsed \in [Deliveries -> BOOLEAN] /\ abandoned \in Nat

Init ==
  /\ status = [d \in Deliveries |-> "new"] /\ attempts = [d \in Deliveries |-> 0]
  /\ due = [d \in Deliveries |-> FALSE]
  /\ sending = [w \in Senders |-> NoDelivery] /\ attempt = [w \in Senders |-> 0]
  /\ posted = [w \in Senders |-> FALSE]
  /\ posts = [d \in Deliveries |-> 0] /\ lapsed = [d \in Deliveries |-> FALSE] /\ abandoned = 0
-----------------------------------------------------------------------------
enqueue(d) ==
  /\ status[d] = "new"
  /\ status' = [status EXCEPT ![d] = "PENDING"] /\ due' = [due EXCEPT ![d] = TRUE]
  /\ UNCHANGED <<attempts, sending, attempt, posted, posts, lapsed, abandoned>>

\* mutant of Claim: the attempt is left to be counted with its result
ClaimUncounted(w, d) ==
  /\ sending[w] = NoDelivery /\ status[d] = "PENDING" /\ due[d]
  /\ due' = [due EXCEPT ![d] = FALSE]
  /\ sending' = [sending EXCEPT ![w] = d] /\ attempt' = [attempt EXCEPT ![w] = attempts[d] + 1]
  /\ posted' = [posted EXCEPT ![w] = FALSE]
  /\ UNCHANGED <<attempts, status, posts, lapsed, abandoned>>

\* deliver_due chose d; _attempt claims it: guarded, counted and leased in one statement
Claim(w, d) ==
  /\ sending[w] = NoDelivery /\ status[d] = "PENDING" /\ due[d]
  /\ attempts' = [attempts EXCEPT ![d] = @ + 1] /\ due' = [due EXCEPT ![d] = FALSE]
  /\ sending' = [sending EXCEPT ![w] = d] /\ attempt' = [attempt EXCEPT ![w] = attempts[d] + 1]
  /\ posted' = [posted EXCEPT ![w] = FALSE]
  /\ UNCHANGED <<status, posts, lapsed, abandoned>>

\* _send: the secret and the URL passed once more, the POST leaves
_send(w) ==
  /\ sending[w] # NoDelivery /\ ~posted[w]
  /\ posted' = [posted EXCEPT ![w] = TRUE] /\ posts' = [posts EXCEPT ![sending[w]] = @ + 1]
  /\ UNCHANGED <<status, attempts, due, sending, attempt, lapsed, abandoned>>

\* _finish updates by id, whatever the row says by now; a retry is due later
_finish(w, s) ==
  /\ status' = [status EXCEPT ![sending[w]] = s]
  /\ sending' = [sending EXCEPT ![w] = NoDelivery]
  /\ UNCHANGED <<attempts, due, attempt, posted, posts, lapsed, abandoned>>

\* mutant of Delivered: no return after a success, so that what follows may still fail
DeliveredGoesOn(w) ==
  /\ sending[w] # NoDelivery /\ posted[w] /\ status' = [status EXCEPT ![sending[w]] = "DELIVERED"]
  /\ UNCHANGED <<attempts, due, sending, attempt, posted, posts, lapsed, abandoned>>

Delivered(w) == sending[w] # NoDelivery /\ posted[w] /\ _finish(w, "DELIVERED")

\* mutant of Failed: one attempt more than the cap
FailedOffByOne(w) ==
  /\ sending[w] # NoDelivery
  /\ \E retryable \in BOOLEAN :
       _finish(w, IF retryable /\ attempt[w] <= max_attempts THEN "PENDING" ELSE "DEAD")

\* decide(): a refused or lost request is tried again up to the cap, if its kind allows
Failed(w) ==
  /\ sending[w] # NoDelivery
  /\ \E retryable \in BOOLEAN :
       _finish(w, IF retryable /\ attempt[w] < max_attempts THEN "PENDING" ELSE "DEAD")

\* the process dies, or another kind of exception leaves deliver_due: no _finish
Abandon(w) ==
  /\ sending[w] # NoDelivery /\ abandoned < MaxAbandoned
  /\ abandoned' = abandoned + 1
  /\ sending' = [sending EXCEPT ![w] = NoDelivery]
  /\ UNCHANGED <<status, attempts, due, attempt, posted, posts, lapsed>>

\* mutant of BecomesDue: a lease never runs out
DueIfUnclaimed(d) ==
  /\ status[d] = "PENDING" /\ ~due[d] /\ posts[d] = attempts[d]
  /\ due' = [due EXCEPT ![d] = TRUE]
  /\ lapsed' = [lapsed EXCEPT ![d] = @ \/ \E w \in Senders : sending[w] = d]
  /\ UNCHANGED <<status, attempts, sending, attempt, posted, posts, abandoned>>

\* next_attempt_at passes: the delay of a retry, or the lease of a claim
BecomesDue(d) ==
  /\ status[d] = "PENDING" /\ ~due[d]
  /\ due' = [due EXCEPT ![d] = TRUE]
  /\ lapsed' = [lapsed EXCEPT ![d] = @ \/ \E w \in Senders : sending[w] = d]
  /\ UNCHANGED <<status, attempts, sending, attempt, posted, posts, abandoned>>

Works(w) == (\E d \in Deliveries : Claim(w, d)) \/ _send(w) \/ Delivered(w) \/ Failed(w)

Next ==
  \/ \E d \in Deliveries : enqueue(d) \/ BecomesDue(d)
  \/ \E w \in Senders : Works(w) \/ Abandon(w)

Spec == Init /\ [][Next]_vars
-----------------------------------------------------------------------------
\* Every request is counted before it leaves (`attempts` grows in the claim), so that no
\* crash hides one: at most as many as were counted, and one of an attempt under way is.
CountedBeforeSent ==
  /\ \A d \in Deliveries : posts[d] <= attempts[d]
  /\ \A w \in Senders : sending[w] # NoDelivery /\ ~posted[w] => posts[sending[w]] < attempts[sending[w]]

\* Attempts pass the cap only by attempts that never reached _finish, or that lost their lease.
CappedUnlessCut ==
  \A d \in Deliveries : ~lapsed[d] => attempts[d] <= max_attempts + abandoned

\* While no lease has run out, one process sends a delivery at a time, and what _finish
\* wrote stays: DELIVERED and DEAD are final although _finish looks at neither.
FinalUnlessLapsed == \A d \in Deliveries :
  (status[d] \in FINAL /\ ~lapsed[d]) => status'[d] = status[d]

\* As long as deliver_due is called again and again, no delivery stays PENDING: it is delivered or
\* dead-lettered, whatever processes die.  (Only tests call it: the program leaves that to whoever
\* deploys it.)
Pending(d) == status[d] = "PENDING"
Final(d) == status[d] \in FINAL

\* "a crash mid-send can cost an attempt but can never loop forever": the cap bounds the
\* attempts.  It does not: only a failure that is caught is compared with the cap.
NeverPastTheCap == \A d \in Deliveries : ~lapsed[d] => attempts[d] <= max_attempts

-----------------------------------------------------------------------------
(***************************************************************************)
(* For any deliveries, any finite number of processes and any cap: every   *)
(* request was counted before it left, what _finish wrote is final while   *)
(* no lease has run out, and the cap is passed by abandoned attempts only. *)
(***************************************************************************)

Constants == "none" \notin Deliveries /\ IsFiniteSet(Senders)

\* the attempts at d that are counted and whose request has not left
Unposted(d) == {w \in Senders : sending[w] = d /\ ~posted[w]}

Counted == \A d \in Deliveries : posts[d] + Cardinality(Unposted(d)) <= attempts[d]

\* while no lease of d has run out, the one process that sends d keeps its lease
Leased ==
  \A d \in Deliveries, w \in Senders :
    (~lapsed[d] /\ sending[w] = d)
      => /\ status[d] = "PENDING" /\ ~due[d]
         /\ \A u \in Senders : sending[u] = d => u = w

IInv == TypeOK /\ Counted /\ Leased

LEMMA UnpostedFinite ==
  ASSUME Constants, NEW d
  PROVE  IsFiniteSet(Unposted(d)) /\ Cardinality(Unposted(d)) \in Nat
<1>1. Unposted(d) \subseteq Senders
  BY DEF Unposted
<1>. QED  BY <1>1, FS_Subset, FS_CardinalityType DEF Constants

LEMMA TypeStep == ASSUME TypeOK, [Next]_vars, Constants PROVE TypeOK'
<1>1. ASSUME NEW d \in Deliveries, enqueue(d) PROVE TypeOK'
  BY <1>1 DEF TypeOK, enqueue
<1>2. ASSUME NEW d \in Deliveries, BecomesDue(d) PROVE TypeOK'
  <2>1. lapsed' \in [Deliveries -> BOOLEAN] /\ due' \in [Deliveries -> BOOLEAN]
    BY <1>2 DEF TypeOK, BecomesDue
  <2>. QED  BY <1>2, <2>1 DEF TypeOK, BecomesDue
<1>3. ASSUME NEW w \in Senders, NEW d \in Deliveries, Claim(w, d) PROVE TypeOK'
  BY <1>3 DEF TypeOK, Claim
<1>4. ASSUME NEW w \in Senders, _send(w) PROVE TypeOK'
  BY <1>4 DEF TypeOK, _send, NoDelivery
<1>5. ASSUME NEW w \in Senders, NEW s \in {"PENDING"} \cup FINAL, _finish(w, s) PROVE TypeOK'
  BY <1>5, Zenon DEF TypeOK, _finish
<1>6. ASSUME NEW w \in Senders, Delivered(w) \/ Failed(w) PROVE TypeOK'
  BY <1>5, <1>6 DEF Delivered, Failed, FINAL
<1>7. ASSUME NEW w \in Senders, Abandon(w) PROVE TypeOK'
  BY <1>7 DEF TypeOK, Abandon
<1>8. CASE UNCHANGED vars
  BY <1>8 DEF TypeOK, vars
<1>. QED  BY <1>1, <1>2, <1>3, <1>4, <1>6, <1>7, <1>8 DEF Next, Works

\* of the steps of a process, Delivered and Failed are _finish with some status
LEMMA Finishes ==
  ASSUME NEW w, Delivered(w) \/ Failed(w)
  PROVE  sending[w] # NoDelivery /\ \E s \in {"PENDING"} \cup FINAL : _finish(w, s)
BY DEF Delivered, Failed, FINAL

\* a step that sends nothing new and leaves the counts alone keeps Counted
LEMMA CountedKept ==
  ASSUME Constants, IInv, posts' = posts, attempts' = attempts,
         \A d \in Deliveries : Unposted(d)' \subseteq Unposted(d)
  PROVE  Counted'
<1> SUFFICES ASSUME NEW d \in Deliveries
             PROVE  posts'[d] + Cardinality(Unposted(d)') <= attempts'[d]
  BY DEF Counted
<1>1. IsFiniteSet(Unposted(d)) /\ Cardinality(Unposted(d)) \in Nat
  BY UnpostedFinite
<1>2. Cardinality(Unposted(d)') <= Cardinality(Unposted(d)) /\ Cardinality(Unposted(d)') \in Nat
  BY <1>1, FS_Subset, FS_CardinalityType
<1>3. posts[d] \in Nat /\ attempts[d] \in Nat /\ posts[d] + Cardinality(Unposted(d)) <= attempts[d]
  BY DEF IInv, TypeOK, Counted
<1>. QED  BY <1>1, <1>2, <1>3

LEMMA CountedStep == ASSUME Constants, IInv, [Next]_vars PROVE Counted'
<1>0. sending \in [Senders -> Deliveries \cup {NoDelivery}] /\ NoDelivery \notin Deliveries
  BY DEF IInv, TypeOK, Constants, NoDelivery
<1>1. ASSUME UNCHANGED <<sending, posted, posts, attempts>> PROVE Counted'
  BY <1>1, CountedKept DEF Unposted
<1>2. ASSUME NEW w \in Senders, sending' = [sending EXCEPT ![w] = NoDelivery],
             UNCHANGED <<posted, posts, attempts>>
      PROVE  Counted'
  <2>1. \A d \in Deliveries : Unposted(d)' \subseteq Unposted(d)
    BY <1>0, <1>2 DEF Unposted
  <2>. QED  BY <1>2, <2>1, CountedKept
<1>3. ASSUME NEW w \in Senders, NEW c \in Deliveries, Claim(w, c) PROVE Counted'
  <2> SUFFICES ASSUME NEW d \in Deliveries
               PROVE  posts'[d] + Cardinality(Unposted(d)') <= attempts'[d]
    BY DEF Counted
  <2>1. IsFiniteSet(Unposted(d)) /\ Cardinality(Unposted(d)) \in Nat
    BY UnpostedFinite
  <2>2. posts[d] \in Nat /\ attempts[d] \in Nat /\ posts[d] + Cardinality(Unposted(d)) <= attempts[d]
    BY DEF IInv, TypeOK, Counted
  <2>3. posts' = posts /\ sending' = [sending EXCEPT ![w] = c] /\ posted' = [posted EXCEPT ![w] = FALSE]
        /\ attempts' = [attempts EXCEPT ![c] = @ + 1] /\ sending[w] = NoDelivery
    BY <1>3 DEF Claim
  <2>4. CASE d = c
    <3>1. Unposted(d)' \subseteq Unposted(d) \cup {w}
      BY <1>0, <2>3 DEF Unposted
    <3>2. IsFiniteSet(Unposted(d) \cup {w})
          /\ Cardinality(Unposted(d) \cup {w}) <= Cardinality(Unposted(d)) + 1
          /\ Cardinality(Unposted(d) \cup {w}) \in Nat
      BY <2>1, FS_AddElement, FS_CardinalityType
    <3>3. Cardinality(Unposted(d)') <= Cardinality(Unposted(d) \cup {w})
          /\ Cardinality(Unposted(d)') \in Nat
      BY <3>1, <3>2, FS_Subset, FS_CardinalityType
    <3>4. attempts'[d] = attempts[d] + 1 /\ posts'[d] = posts[d]
      BY <2>3, <2>4 DEF IInv, TypeOK
    <3>. QED  BY <2>1, <2>2, <3>2, <3>3, <3>4
  <2>5. CASE d # c
    <3>1. Unposted(d)' = Unposted(d)
      BY <1>0, <2>3, <2>5 DEF Unposted, IInv, TypeOK
    <3>2. attempts'[d] = attempts[d] /\ posts'[d] = posts[d]
      BY <2>3, <2>5 DEF IInv, TypeOK
    <3>. QED  BY <2>2, <3>1, <3>2
  <2>. QED  BY <2>4, <2>5
<1>4. ASSUME NEW w \in Senders, _send(w) PROVE Counted'
  <2> SUFFICES ASSUME NEW d \in Deliveries
               PROVE  posts'[d] + Cardinality(Unposted(d)') <= attempts'[d]
    BY DEF Counted
  <2>1. IsFiniteSet(Unposted(d)) /\ Cardinality(Unposted(d)) \in Nat
    BY UnpostedFinite
  <2>2. posts[d] \in Nat /\ attempts[d] \in Nat /\ posts[d] + Cardinality(Unposted(d)) <= attempts[d]
    BY DEF IInv, TypeOK, Counted
  <2>3. attempts' = attempts /\ sending' = sending /\ posted' = [posted EXCEPT ![w] = TRUE]
        /\ posts' = [posts EXCEPT ![sending[w]] = @ + 1] /\ sending[w] # NoDelivery /\ ~posted[w]
    BY <1>4 DEF _send
  <2>4. CASE d = sending[w]
    <3>1. Unposted(d)' = Unposted(d) \ {w} /\ w \in Unposted(d)
      BY <2>3, <2>4 DEF Unposted, IInv, TypeOK
    <3>2. Cardinality(Unposted(d)') = Cardinality(Unposted(d)) - 1
      BY <2>1, <3>1, FS_RemoveElement, Zenon
    <3>3. posts'[d] = posts[d] + 1
      BY <2>3, <2>4 DEF IInv, TypeOK
    <3>. QED  BY <2>1, <2>2, <2>3, <3>2, <3>3
  <2>5. CASE d # sending[w]
    <3>1. Unposted(d)' = Unposted(d)
      BY <2>3, <2>5 DEF Unposted, IInv, TypeOK
    <3>2. posts'[d] = posts[d]
      BY <2>3, <2>5 DEF IInv, TypeOK
    <3>. QED  BY <2>2, <2>3, <3>1, <3>2
  <2>. QED  BY <2>4, <2>5
<1>5. ASSUME NEW d \in Deliveries, enqueue(d) \/ BecomesDue(d) PROVE Counted'
  BY <1>1, <1>5 DEF enqueue, BecomesDue
<1>6. ASSUME NEW w \in Senders, Delivered(w) \/ Failed(w) \/ Abandon(w) PROVE Counted'
  <2>1. sending' = [sending EXCEPT ![w] = NoDelivery] /\ UNCHANGED <<posted, posts, attempts>>
    BY <1>6, Finishes DEF _finish, Abandon
  <2>. QED  BY <1>2, <2>1, Zenon
<1>7. CASE UNCHANGED vars
  BY <1>1, <1>7 DEF vars
<1>. QED  BY <1>3, <1>4, <1>5, <1>6, <1>7 DEF Next, Works

LEMMA LeasedStep == ASSUME Constants, IInv, [Next]_vars PROVE Leased'
<1>0. sending \in [Senders -> Deliveries \cup {NoDelivery}] /\ NoDelivery \notin Deliveries
  BY DEF IInv, TypeOK, Constants, NoDelivery
<1> SUFFICES ASSUME NEW d \in Deliveries, NEW w \in Senders, ~lapsed'[d], sending'[w] = d
             PROVE  /\ status'[d] = "PENDING" /\ ~due'[d]
                    /\ \A u \in Senders : sending'[u] = d => u = w
  BY DEF Leased
<1>1. ASSUME ~lapsed[d], sending[w] = d
      PROVE  status[d] = "PENDING" /\ ~due[d] /\ \A u \in Senders : sending[u] = d => u = w
  BY <1>1 DEF IInv, Leased
<1>2. ASSUME NEW e \in Deliveries, enqueue(e)
      PROVE  status'[d] = "PENDING" /\ ~due'[d] /\ \A u \in Senders : sending'[u] = d => u = w
  BY <1>1, <1>2 DEF enqueue, IInv, TypeOK
<1>3. ASSUME NEW e \in Deliveries, BecomesDue(e)
      PROVE  status'[d] = "PENDING" /\ ~due'[d] /\ \A u \in Senders : sending'[u] = d => u = w
  <2>1. sending[w] = d /\ sending' = sending /\ status' = status
    BY <1>3 DEF BecomesDue
  <2>2. d # e
    BY <1>3, <2>1, Zenon DEF BecomesDue, IInv, TypeOK
  <2>3. lapsed'[d] = lapsed[d] /\ due'[d] = due[d]
    BY <1>3, <2>2 DEF BecomesDue, IInv, TypeOK
  <2>. QED  BY <1>1, <2>1, <2>3
<1>4. ASSUME NEW v \in Senders, NEW e \in Deliveries, Claim(v, e)
      PROVE  status'[d] = "PENDING" /\ ~due'[d] /\ \A u \in Senders : sending'[u] = d => u = w
  <2>1. /\ sending[v] = NoDelivery /\ status[e] = "PENDING" /\ due[e] /\ status' = status
        /\ lapsed' = lapsed /\ due' = [due EXCEPT ![e] = FALSE] /\ sending' = [sending EXCEPT ![v] = e]
    BY <1>4 DEF Claim
  <2>2. CASE d = e
    <3>1. \A u \in Senders : sending[u] # d
      BY <2>1, <2>2 DEF IInv, Leased
    <3>2. ~due'[d]
      BY <2>1, <2>2 DEF IInv, TypeOK
    <3>. QED  BY <1>0, <2>1, <2>2, <3>1, <3>2
  <2>3. CASE d # e
    <3>1. sending[w] = d /\ \A u \in Senders : sending'[u] = d => sending[u] = d
      BY <1>0, <2>1, <2>3
    <3>2. due'[d] = due[d]
      BY <2>1, <2>3 DEF IInv, TypeOK
    <3>. QED  BY <1>1, <2>1, <3>1, <3>2
  <2>. QED  BY <2>2, <2>3
<1>5. ASSUME NEW v \in Senders, _send(v)
      PROVE  status'[d] = "PENDING" /\ ~due'[d] /\ \A u \in Senders : sending'[u] = d => u = w
  BY <1>1, <1>5 DEF _send
<1>6. ASSUME NEW v \in Senders, Delivered(v) \/ Failed(v)
      PROVE  status'[d] = "PENDING" /\ ~due'[d] /\ \A u \in Senders : sending'[u] = d => u = w
  <2>1. PICK s : sending[v] # NoDelivery /\ _finish(v, s)
    BY <1>6, Finishes
  <2>2. v # w /\ sending[w] = d /\ lapsed' = lapsed /\ due' = due
    BY <1>0, <2>1 DEF _finish
  <2>3. sending[v] # d
    BY <1>1, <2>2
  <2>4. status'[d] = status[d] /\ \A u \in Senders : sending'[u] = d => sending[u] = d
    BY <1>0, <2>1, <2>3 DEF _finish, IInv, TypeOK
  <2>. QED  BY <1>1, <2>2, <2>4
<1>7. ASSUME NEW v \in Senders, Abandon(v)
      PROVE  status'[d] = "PENDING" /\ ~due'[d] /\ \A u \in Senders : sending'[u] = d => u = w
  <2>1. v # w /\ sending[w] = d /\ UNCHANGED <<lapsed, due, status>>
    BY <1>0, <1>7 DEF Abandon
  <2>2. \A u \in Senders : sending'[u] = d => sending[u] = d
    BY <1>0, <1>7 DEF Abandon
  <2>. QED  BY <1>1, <2>1, <2>2
<1>8. CASE UNCHANGED vars
  BY <1>1, <1>8 DEF vars
<1>. QED  BY <1>2, <1>3, <1>4, <1>5, <1>6, <1>7, <1>8 DEF Next, Works

LEMMA Initial == ASSUME Constants, Init PROVE IInv
<1>1. TypeOK
  BY DEF Init, TypeOK
<1>2. Leased
  BY DEF Init, Leased, Constants, NoDelivery
<1>3. Counted
  <2> SUFFICES ASSUME NEW d \in Deliveries PROVE posts[d] + Cardinality(Unposted(d)) <= attempts[d]
    BY DEF Counted
  <2>1. Unposted(d) = {}
    BY DEF Init, Unposted, Constants, NoDelivery
  <2>. QED  BY <2>1, FS_EmptySet DEF Init
<1>. QED  BY <1>1, <1>2, <1>3 DEF IInv

LEMMA Invariant == ASSUME Constants PROVE Spec => []IInv
<1>1. Init => IInv
  BY Initial
<1>2. IInv /\ [Next]_vars => IInv'
  BY TypeStep, CountedStep, LeasedStep DEF IInv
<1>. QED  BY <1>1, <1>2, PTL DEF Spec

\* Every request is counted before it leaves (claim and _send of connectors/outbound.py), for
\* any deliveries and any finite number of processes, however many of them die.
THEOREM RequestsAreCounted == ASSUME Constants PROVE Spec => []CountedBeforeSent
<1>1. IInv => CountedBeforeSent
  <2> SUFFICES ASSUME IInv PROVE CountedBeforeSent
    OBVIOUS
  <2>1. ASSUME NEW d \in Deliveries PROVE posts[d] <= attempts[d]
    BY UnpostedFinite DEF IInv, TypeOK, Counted
  <2>2. ASSUME NEW w \in Senders, sending[w] # NoDelivery, ~posted[w]
        PROVE  posts[sending[w]] < attempts[sending[w]]
    <3> DEFINE d == sending[w]
    <3>1. d \in Deliveries
      BY <2>2 DEF IInv, TypeOK
    <3>2. w \in Unposted(d)
      BY <2>2 DEF Unposted
    <3>3. IsFiniteSet(Unposted(d)) /\ Cardinality(Unposted(d)) \in Nat
      BY UnpostedFinite
    <3>4. Cardinality(Unposted(d)) # 0
      BY <3>2, <3>3, FS_EmptySet
    <3>5. posts[d] \in Nat /\ attempts[d] \in Nat /\ posts[d] + Cardinality(Unposted(d)) <= attempts[d]
      BY <3>1 DEF IInv, TypeOK, Counted
    <3>. QED  BY <3>3, <3>4, <3>5
  <2>. QED  BY <2>1, <2>2 DEF CountedBeforeSent
<1>. QED  BY <1>1, Invariant, PTL

\* What _finish wrote is final although it looks at neither status nor lease: no two processes
\* send a delivery while none of its leases has run out.
THEOREM FinishedStays == ASSUME Constants PROVE Spec => [][FinalUnlessLapsed]_vars
<1>1. ASSUME IInv, [Next]_vars, NEW d \in Deliveries, status[d] \in FINAL, ~lapsed[d]
      PROVE  status'[d] = status[d]
  <2>1. \A w \in Senders : sending[w] # d
    BY <1>1 DEF IInv, Leased, FINAL
  <2>2. status \in [Deliveries -> {"new", "PENDING"} \cup FINAL]
    BY <1>1 DEF IInv, TypeOK
  <2>3. ASSUME NEW w \in Senders, Delivered(w) \/ Failed(w) PROVE status'[d] = status[d]
    BY <2>1, <2>2, <2>3, Finishes DEF _finish
  <2>4. ASSUME NEW e \in Deliveries, enqueue(e) PROVE status'[d] = status[d]
    BY <1>1, <2>2, <2>4 DEF enqueue, FINAL
  <2>5. ASSUME NEW w \in Senders, (\E e \in Deliveries : Claim(w, e)) \/ _send(w) \/ Abandon(w)
        PROVE  status'[d] = status[d]
    BY <2>5 DEF Claim, _send, Abandon
  <2>6. ASSUME NEW e \in Deliveries, BecomesDue(e) PROVE status'[d] = status[d]
    BY <2>6 DEF BecomesDue
  <2>. QED  BY <1>1, <2>3, <2>4, <2>5, <2>6 DEF Next, Works, vars
<1>2. IInv /\ [Next]_vars => [FinalUnlessLapsed]_vars
  BY <1>1 DEF FinalUnlessLapsed
<1>. QED  BY <1>2, Invariant, PTL DEF Spec

\* nobody sends d, and somebody may yet
Unclaimed(d) == status[d] \in {"new", "PENDING"} /\ \A w \in Senders : sending[w] # d

\* d has not passed the cap, has an attempt left if it may yet be claimed, and the process
\* that sends it compares the cap with the count as it is
CappedAt(d) ==
  /\ attempts[d] <= max_attempts + abandoned
  /\ Unclaimed(d) => attempts[d] < max_attempts + abandoned
  /\ \A w \in Senders : sending[w] = d => attempt[w] = attempts[d]

Capped == \A d \in Deliveries : ~lapsed[d] => CappedAt(d)

\* a step that touches neither d's count nor who sends it, and makes nothing claimable
LEMMA CappedKept ==
  ASSUME TypeOK, max_attempts \in Nat, NEW d \in Deliveries, CappedAt(d), attempts'[d] = attempts[d],
         abandoned' \in Nat, abandoned <= abandoned', Unclaimed(d)' => Unclaimed(d),
         \A w \in Senders : sending'[w] = d => sending[w] = d /\ attempt'[w] = attempt[w]
  PROVE  CappedAt(d)'
<1>1. attempts[d] \in Nat /\ abandoned \in Nat
  BY DEF TypeOK
<1>2. attempts'[d] <= max_attempts + abandoned'
  BY <1>1 DEF CappedAt
<1>3. Unclaimed(d)' => attempts'[d] < max_attempts + abandoned'
  BY <1>1 DEF CappedAt
<1>4. \A w \in Senders : sending'[w] = d => attempt'[w] = attempts'[d]
  BY DEF CappedAt
<1>. QED  BY <1>2, <1>3, <1>4 DEF CappedAt

LEMMA CappedStep ==
  ASSUME Constants, max_attempts \in Nat \ {0}, IInv, Capped, [Next]_vars PROVE Capped'
<1> SUFFICES ASSUME NEW d \in Deliveries, ~lapsed'[d] PROVE CappedAt(d)'
  BY Zenon DEF Capped
<1>0. /\ TypeOK /\ sending \in [Senders -> Deliveries \cup {NoDelivery}] /\ NoDelivery \notin Deliveries
      /\ attempts \in [Deliveries -> Nat] /\ attempt \in [Senders -> Nat] /\ abandoned \in Nat
      /\ status \in [Deliveries -> {"new", "PENDING"} \cup FINAL] /\ lapsed \in [Deliveries -> BOOLEAN]
      /\ attempts[d] \in Nat
  BY DEF IInv, TypeOK, Constants, NoDelivery
<1>1. ~lapsed[d] => CappedAt(d)
  BY DEF Capped
<1>2. ASSUME NEW e \in Deliveries, enqueue(e) PROVE CappedAt(d)'
  <2>1. UNCHANGED <<attempts, sending, attempt, lapsed, abandoned>> /\ (Unclaimed(d)' => Unclaimed(d))
    BY <1>0, <1>2 DEF enqueue, Unclaimed
  <2>. QED  BY <1>0, <1>1, <2>1, CappedKept
<1>3. ASSUME NEW e \in Deliveries, BecomesDue(e) PROVE CappedAt(d)'
  <2>1. UNCHANGED <<attempts, sending, attempt, abandoned, status>>
    BY <1>3 DEF BecomesDue
  <2>2. ~lapsed[d]
    BY <1>0, <1>3 DEF BecomesDue
  <2>3. Unclaimed(d)' => Unclaimed(d)
    BY <2>1 DEF Unclaimed
  <2>. QED  BY <1>0, <1>1, <2>1, <2>2, <2>3, CappedKept
<1>4. ASSUME NEW v \in Senders, NEW e \in Deliveries, Claim(v, e) PROVE CappedAt(d)'
  <2>1. /\ sending[v] = NoDelivery /\ status[e] = "PENDING" /\ due[e] /\ ~lapsed[d]
        /\ status' = status /\ abandoned' = abandoned /\ sending' = [sending EXCEPT ![v] = e]
        /\ attempts' = [attempts EXCEPT ![e] = attempts[e] + 1]
        /\ attempt' = [attempt EXCEPT ![v] = attempts[e] + 1]
    BY <1>4 DEF Claim
  <2>2. CASE d = e
    <3>1. \A u \in Senders : sending[u] # d
      BY <2>1, <2>2 DEF IInv, Leased
    <3>2. attempts[d] < max_attempts + abandoned
      BY <1>1, <2>1, <2>2, <3>1 DEF CappedAt, Unclaimed
    <3>3. attempts'[d] = attempts[d] + 1 /\ sending'[v] = d
      BY <1>0, <2>1, <2>2
    <3>4. \A w \in Senders : sending'[w] = d => attempt'[w] = attempts'[d]
      BY <1>0, <2>1, <2>2, <3>1, <3>3
    <3>5. attempts'[d] <= max_attempts + abandoned'
      BY <1>0, <2>1, <3>2, <3>3
    <3>6. ~Unclaimed(d)'
      BY <3>3 DEF Unclaimed
    <3>. QED  BY <3>4, <3>5, <3>6 DEF CappedAt
  <2>3. CASE d # e
    <3>1. \A w \in Senders : sending'[w] = d => sending[w] = d /\ attempt'[w] = attempt[w]
      BY <1>0, <2>1, <2>3
    <3>2. attempts'[d] = attempts[d]
      BY <1>0, <2>1, <2>3
    <3>3. Unclaimed(d)' => Unclaimed(d)
      BY <1>0, <2>1, <2>3 DEF Unclaimed
    <3>. QED  BY <1>0, <1>1, <2>1, <3>1, <3>2, <3>3, CappedKept
  <2>. QED  BY <2>2, <2>3
<1>5. ASSUME NEW v \in Senders, _send(v) PROVE CappedAt(d)'
  <2>1. UNCHANGED <<attempts, sending, attempt, lapsed, abandoned, status>>
    BY <1>5 DEF _send
  <2>2. Unclaimed(d)' => Unclaimed(d)
    BY <2>1 DEF Unclaimed
  <2>. QED  BY <1>0, <1>1, <2>1, <2>2, CappedKept
<1>6. ASSUME NEW v \in Senders, sending[v] # NoDelivery, NEW s \in {"PENDING"} \cup FINAL,
             s = "PENDING" => attempt[v] < max_attempts, _finish(v, s)
      PROVE  CappedAt(d)'
  <2>1. /\ status' = [status EXCEPT ![sending[v]] = s] /\ sending' = [sending EXCEPT ![v] = NoDelivery]
        /\ UNCHANGED <<attempts, attempt, abandoned, lapsed>> /\ ~lapsed[d]
    BY <1>6 DEF _finish
  <2>2. \A w \in Senders : sending'[w] = d => sending[w] = d /\ attempt'[w] = attempt[w]
    BY <1>0, <2>1
  <2>3. CASE sending[v] = d
    <3>1. attempts[d] = attempt[v] /\ attempts[d] <= max_attempts + abandoned
      BY <1>1, <2>1, <2>3 DEF CappedAt
    <3>2. status'[d] = s
      BY <1>0, <2>1, <2>3
    <3>3. s = "PENDING" => attempts[d] < max_attempts + abandoned
      BY <1>0, <1>6, <3>1
    <3>4. Unclaimed(d)' => s = "PENDING"
      BY <3>2, <1>6 DEF Unclaimed, FINAL
    <3>5. \A w \in Senders : sending'[w] = d => attempt'[w] = attempts'[d]
      BY <1>1, <2>1, <2>2 DEF CappedAt
    <3>. QED  BY <2>1, <3>1, <3>3, <3>4, <3>5 DEF CappedAt
  <2>4. CASE sending[v] # d
    <3>1. status'[d] = status[d] /\ \A w \in Senders : sending[w] = d => sending'[w] = d
      BY <1>0, <2>1, <2>4
    <3>2. Unclaimed(d)' => Unclaimed(d)
      BY <3>1, Zenon DEF Unclaimed
    <3>. QED  BY <1>0, <1>1, <2>1, <2>2, <3>2, CappedKept
  <2>. QED  BY <2>3, <2>4
<1>7. ASSUME NEW v \in Senders, Delivered(v) \/ Failed(v) PROVE CappedAt(d)'
  <2>1. sending[v] # NoDelivery /\ \E s \in {"PENDING"} \cup FINAL :
          (s = "PENDING" => attempt[v] < max_attempts) /\ _finish(v, s)
    BY <1>7 DEF Delivered, Failed, FINAL
  <2>. QED  BY <1>6, <2>1, Zenon
<1>8. ASSUME NEW v \in Senders, Abandon(v) PROVE CappedAt(d)'
  <2>1. /\ sending[v] # NoDelivery /\ sending' = [sending EXCEPT ![v] = NoDelivery]
        /\ abandoned' = abandoned + 1 /\ UNCHANGED <<attempts, attempt, status>> /\ ~lapsed[d]
    BY <1>8 DEF Abandon
  <2>2. attempts'[d] < max_attempts + abandoned'
    BY <1>0, <1>1, <2>1 DEF CappedAt
  <2>3. attempts'[d] <= max_attempts + abandoned'
    BY <1>0, <1>1, <2>1 DEF CappedAt
  <2>4. \A w \in Senders : sending'[w] = d => attempt'[w] = attempts'[d]
    BY <1>0, <1>1, <2>1 DEF CappedAt
  <2>. QED  BY <2>2, <2>3, <2>4 DEF CappedAt
<1>9. CASE UNCHANGED vars
  <2>1. UNCHANGED <<attempts, sending, attempt, lapsed, abandoned, status>>
    BY <1>9 DEF vars
  <2>2. Unclaimed(d)' => Unclaimed(d)
    BY <2>1 DEF Unclaimed
  <2>. QED  BY <1>0, <1>1, <2>1, <2>2, CappedKept
<1>. QED  BY <1>2, <1>3, <1>4, <1>5, <1>7, <1>8, <1>9 DEF Next, Works

\* A delivery none of whose leases ran out is attempted at most max_attempts times and once
\* more for each attempt that never reached _finish (_attempt, decide and _finish of
\* connectors/outbound.py), for any deliveries, processes and positive cap.
THEOREM AttemptsAreCapped ==
  ASSUME Constants, max_attempts \in Nat \ {0} PROVE Spec => []CappedUnlessCut
<1>1. Init => Capped
  BY DEF Init, Capped, CappedAt, Constants, NoDelivery
<1>2. IInv /\ Capped /\ [Next]_vars => Capped'
  BY CappedStep
<1>3. Capped => CappedUnlessCut
  BY DEF Capped, CappedAt, CappedUnlessCut
<1>. QED  BY <1>1, <1>2, <1>3, Invariant, PTL DEF Spec

=============================================================================
