------------------------- MODULE RateLimiter_proofs -------------------------
(***************************************************************************)
(* Proofs about RateLimiter, for any number of threads, roles and          *)
(* providers, and any rate and burst.                                      *)
(*                                                                         *)
(* OneBucketPerProvider needs to know when a thread has a client at all    *)
(* (HasClient).  WindowBound is not inductive: it says nothing of what is  *)
(* left in the bucket.  PaidIn does: of every request that the last refill *)
(* has seen, the requests since and the tokens left fit into a full bucket *)
(* and what came in meanwhile; Recent says that at most one request has    *)
(* not been seen, and none while a thread holds the lock.                  *)
(***************************************************************************)
EXTENDS RateLimiter, TLAPS

\* A thread has a client from get_llm's return until it is done with it.
HasClient == \A p \in Threads : pc[p] \in {"idle", "missed"} <=> llm[p] = NoOne

Mutex == \A p, q \in Threads :
            pc[p] \in Critical /\ pc[q] \in Critical /\ Bucket(p) = Bucket(q) => p = q

Registered(v) == <<v, limiters[v]>>

Clock == /\ \A b \in Buckets : last[b] <= now
         /\ \A v \in Providers : \A i \in 1..Len(grants[v]) : grants[v][i] <= now

Seen(v, i) == grants[v][i] <= last[Registered(v)]

PaidIn ==
  \A v \in Providers : limiters[v] # NoOne =>
     \A i \in 1..Len(grants[v]) : Seen(v, i) =>
        (Len(grants[v]) - i) * Unit + tokens[Registered(v)]
          <= Burst * Unit + Refill * (last[Registered(v)] - grants[v][i])

Recent ==
  \A v \in Providers : limiters[v] # NoOne =>
     \A i \in 1..Len(grants[v]) :
        (i < Len(grants[v]) \/ \E p \in Threads : pc[p] \in Critical /\ Provider(p) = v)
          => Seen(v, i)

Unsold == \A v \in Providers : limiters[v] = NoOne => grants[v] = <<>>

IInv == /\ TypeOK
        /\ HasClient
        /\ OneBucketPerProvider
        /\ Mutex
        /\ Clock
        /\ PaidIn
        /\ Recent
        /\ Unsold
        /\ WindowBound
-----------------------------------------------------------------------------
\* The invariant holds before anyone asks for a client.
LEMMA InitIInv == Init => IInv
<1> SUFFICES ASSUME Init PROVE IInv
  OBVIOUS
<1>1. TypeOK
  BY LimiterAssumption DEF Init, TypeOK, Buckets, Critical
<1>2. HasClient /\ OneBucketPerProvider /\ Mutex
  BY LimiterAssumption DEF Init, HasClient, OneBucketPerProvider, Mutex, Critical
<1>3. Clock /\ PaidIn /\ Recent /\ Unsold /\ WindowBound
  BY DEF Init, Clock, PaidIn, Recent, Unsold, WindowBound
<1> QED
  BY <1>1, <1>2, <1>3 DEF IInv

\* _refill leaves at least nothing and at most a full bucket.
LEMMA CappedType ==
  ASSUME TypeOK, Clock, NEW b \in Buckets
  PROVE  /\ Capped(b) \in 0..(Burst * Unit)
         /\ Capped(b) <= Burst * Unit
         /\ Capped(b) <= tokens[b] + Refill * (now - last[b])
<1> DEFINE x == tokens[b] + Refill * (now - last[b])
           y == Burst * Unit
<1>1. /\ now - last[b] \in Nat
      /\ tokens[b] \in 0..y
  BY DEF TypeOK, Clock
<1>2. Refill * (now - last[b]) \in Nat
  BY <1>1, LimiterAssumption
<1>3. y \in Nat
  BY LimiterAssumption
<1>4. x \in Nat
  BY <1>1, <1>2, <1>3
<1>5. Capped(b) = IF y <= x THEN y ELSE x
  BY DEF Capped, Lesser
<1> HIDE DEF x, y
<1>6. Capped(b) \in 0..y /\ Capped(b) <= y /\ Capped(b) <= x
  BY <1>3, <1>4, <1>5
<1> QED
  BY <1>6 DEF x, y

\* What comes in over two spans in a row is what comes in over both.
LEMMA Spans ==
  ASSUME NEW r \in Nat, NEW a \in Int, NEW b \in Int, NEW c \in Int
  PROVE  /\ r * (a - b) + r * (b - c) = r * (a - c)
         /\ b <= a => r * (b - c) <= r * (a - c)
<1>1. r * (a - b) + r * (b - c) = r * (a - c)
  BY SMT
<1>2. ASSUME b <= a PROVE r * (a - b) \in Nat
  <2>1. a - b \in Nat
    BY <1>2
  <2> QED
    BY <2>1
<1>3. r * (b - c) \in Int /\ r * (a - c) \in Int
  OBVIOUS
<1> QED
  BY <1>1, <1>2, <1>3

\* A request the last refill saw: k fractions were taken since, t were left, and
\* no more came in from the refill at time l to now than the rate allows.
LEMMA Accounts ==
  ASSUME NEW r \in Nat, NEW full \in Nat, NEW k \in Int, NEW t \in Int, NEW c \in Int,
         NEW n \in Int, NEW l \in Int, NEW g \in Int,
         k + t <= full + r * (l - g),
         c <= t + r * (n - l)
  PROVE  k + c <= full + r * (n - g)
<1>1. r * (n - l) + r * (l - g) = r * (n - g)
  BY Spans
<1>2. r * (n - l) \in Int /\ r * (l - g) \in Int /\ r * (n - g) \in Int
  <2>1. n - l \in Int /\ l - g \in Int /\ n - g \in Int
    OBVIOUS
  <2> QED
    BY <2>1
<1> QED
  BY <1>1, <1>2

-----------------------------------------------------------------------------
\* Steps that touch no bucket and take no lock keep the accounts.
LEMMA Quiet ==
  ASSUME IInv, UNCHANGED <<now, limiters, bucket, grants>>,
         \A q \in Threads : pc'[q] \in Critical => /\ pc[q] \in Critical
                                                   /\ role'[q] = role[q]
                                                   /\ llm'[q] = llm[q]
  PROVE  Mutex' /\ Clock' /\ PaidIn' /\ Recent' /\ Unsold' /\ WindowBound'
<1>1. Mutex'
  BY DEF IInv, Mutex, Bucket, Provider
<1>2. Clock' /\ PaidIn' /\ Unsold' /\ WindowBound'
  BY DEF IInv, bucket, Clock, PaidIn, Unsold, WindowBound, Seen, Registered
<1>3. Recent'
  BY DEF IInv, bucket, Recent, Seen, Registered, Provider
<1> QED
  BY <1>1, <1>2, <1>3

\* A thread with a client draws on its provider's bucket.
LEMMA Draws ==
  ASSUME IInv, NEW p \in Threads, pc[p] \in {"waiting"} \cup Critical
  PROVE  /\ Provider(p) \in Providers
         /\ limiters[Provider(p)] # NoOne
         /\ Bucket(p) = Registered(Provider(p))
         /\ Bucket(p) \in Buckets
<1>1. llm[p] # NoOne
  BY DEF IInv, HasClient, Critical
<1>2. Provider(p) \in Providers
  BY LimiterAssumption DEF IInv, TypeOK, Provider
<1>3. llm[p] = limiters[Provider(p)]
  BY <1>1 DEF IInv, OneBucketPerProvider
<1>4. llm[p] \in Threads
  BY <1>1 DEF IInv, TypeOK
<1> QED
  BY <1>1, <1>2, <1>3, <1>4 DEF Bucket, Registered, Buckets

\* A refill by the thread that has the lock, or takes it free.
LEMMA Refilled ==
  ASSUME IInv, NEW p \in Threads, pc[p] \in {"waiting"} \cup Critical,
         RefillBucket(Bucket(p)), UNCHANGED <<now, limiters, role, llm, grants>>,
         pc' = [pc EXCEPT ![p] = "locked"]
  PROVE  /\ tokens' \in [Buckets -> 0..(Burst * Unit)]
         /\ last' \in [Buckets -> Nat]
         /\ Clock' /\ PaidIn' /\ Recent' /\ Unsold' /\ WindowBound'
<1>0. PICK v \in Providers, b \in Buckets :
         v = Provider(p) /\ b = Bucket(p) /\ limiters[v] # NoOne /\ b = Registered(v)
  BY Draws
<1>1. b = <<v, limiters[v]>> /\ limiters' = limiters
  BY <1>0 DEF Registered
<1>2. /\ tokens' = [tokens EXCEPT ![b] = Capped(b)]
      /\ last' = [last EXCEPT ![b] = now]
  BY <1>0 DEF RefillBucket
<1>3. TypeOK /\ Clock
  BY DEF IInv
<1>4. /\ Capped(b) \in 0..(Burst * Unit)
      /\ Capped(b) <= Burst * Unit
      /\ Capped(b) <= tokens[b] + Refill * (now - last[b])
  BY <1>3, CappedType
<1>5. /\ tokens' \in [Buckets -> 0..(Burst * Unit)]
      /\ last' \in [Buckets -> Nat]
  BY <1>2, <1>3, <1>4 DEF TypeOK
<1>6. Clock'
  BY <1>2, <1>3 DEF Clock, TypeOK
<1>7. tokens'[b] = Capped(b) /\ last'[b] = now /\ Registered(v)' = b
  BY <1>1, <1>2, <1>3 DEF TypeOK, Registered
<1>8. \A w \in Providers : w # v /\ limiters[w] # NoOne =>
         /\ Registered(w)' = Registered(w)
         /\ tokens'[Registered(w)] = tokens[Registered(w)]
         /\ last'[Registered(w)] = last[Registered(w)]
  <2> SUFFICES ASSUME NEW w \in Providers, w # v, limiters[w] # NoOne
               PROVE  /\ Registered(w)' = Registered(w)
                      /\ tokens'[Registered(w)] = tokens[Registered(w)]
                      /\ last'[Registered(w)] = last[Registered(w)]
    OBVIOUS
  <2>1. Registered(w) \in Buckets /\ Registered(w) # b
    BY <1>1, <1>3 DEF TypeOK, Registered, Buckets
  <2> QED
    BY <1>1, <1>2, <1>3, <2>1 DEF TypeOK, Registered
<1>9. PaidIn'
  <2> SUFFICES ASSUME NEW w \in Providers, limiters[w] # NoOne,
                      NEW i \in 1..Len(grants[w]), grants[w][i] <= last'[Registered(w)']
               PROVE  (Len(grants[w]) - i) * Unit + tokens'[Registered(w)']
                        <= Burst * Unit + Refill * (last'[Registered(w)'] - grants[w][i])
    BY <1>1 DEF PaidIn, Seen
  <2>1. CASE w # v
    BY <1>8, <2>1 DEF IInv, PaidIn, Seen
  <2>2. CASE w = v
    <3>1. PICK n \in Nat, g \in Nat : n = Len(grants[v]) /\ g = grants[v][i]
      BY <1>3, <2>2 DEF TypeOK
    <3>2. /\ i \in 1..n
          /\ now \in Nat
          /\ last[b] \in Nat
          /\ tokens[b] \in Int
          /\ Capped(b) \in Int
          /\ Burst * Unit \in Nat
          /\ (n - i) * Unit \in Int
          /\ Refill \in Nat
      <4>1. i \in 1..n /\ now \in Nat /\ last[b] \in Nat /\ tokens[b] \in Int
        BY <1>3, <2>2, <3>1 DEF TypeOK
      <4>2. Unit \in Nat /\ Burst \in Nat /\ Refill \in Nat
        BY LimiterAssumption
      <4> QED
        BY <1>4, <4>1, <4>2
    <3>3. g <= now
      BY <1>3, <2>2, <3>1 DEF Clock
    <3>4. (n - i) * Unit + Capped(b) <= Burst * Unit + Refill * (now - g)
      <4>1. CASE Seen(v, i)
        <5>1. (n - i) * Unit + tokens[b] <= Burst * Unit + Refill * (last[b] - g)
          BY <1>0, <2>2, <3>1, <4>1 DEF IInv, PaidIn
        <5>2. PICK k \in Int, full \in Nat, t \in Int, c \in Int, l \in Int :
                /\ k = (n - i) * Unit /\ full = Burst * Unit
                /\ t = tokens[b] /\ c = Capped(b) /\ l = last[b]
          BY <3>2
        <5>3. k + t <= full + Refill * (l - g)
          BY <5>1, <5>2
        <5>4. c <= t + Refill * (now - l)
          BY <1>4, <5>2
        <5>5. k + c <= full + Refill * (now - g)
          BY <3>2, <5>3, <5>4, Accounts
        <5> QED
          BY <5>2, <5>5
      <4>2. CASE ~ Seen(v, i)
        <5>1. i = n
          <6>1. ~ i < n
            BY <1>0, <2>2, <3>1, <4>2 DEF IInv, Recent
          <6> QED
            BY <3>2, <6>1
        <5>2. (n - i) * Unit = 0
          BY <5>1, LimiterAssumption
        <5>3. Refill * (now - g) \in Nat
          <6>1. now - g \in Nat
            BY <3>2, <3>3
          <6> QED
            BY <3>2, <6>1
        <5> QED
          BY <1>4, <3>2, <5>2, <5>3
      <4> QED
        BY <4>1, <4>2
    <3> QED
      BY <1>7, <2>2, <3>1, <3>4
  <2> QED
    BY <2>1, <2>2
<1>10. Recent'
  <2>1. \A q \in Threads : Provider(q)' = Provider(q)
    BY DEF Provider
  <2> SUFFICES ASSUME NEW w \in Providers, limiters[w] # NoOne,
                      NEW i \in 1..Len(grants[w]),
                      \/ i < Len(grants[w])
                      \/ \E q \in Threads : pc'[q] \in Critical /\ Provider(q) = w
               PROVE  grants[w][i] <= last'[Registered(w)']
    BY <1>1, <2>1 DEF Recent, Seen
  <2>2. CASE w = v
    BY <1>3, <1>7, <2>2 DEF Clock
  <2>3. CASE w # v
    <3>1. \A q \in Threads : pc'[q] \in Critical /\ Provider(q) = w => pc[q] \in Critical
      BY <1>0, <1>3, <2>3 DEF TypeOK
    <3>2. Seen(w, i)
      BY <3>1 DEF IInv, Recent
    <3> QED
      BY <1>8, <2>3, <3>2 DEF Seen
  <2> QED
    BY <2>2, <2>3
<1>11. Unsold' /\ WindowBound'
  BY DEF IInv, Unsold, WindowBound
<1> QED
  BY <1>5, <1>6, <1>9, <1>10, <1>11

\* The first client of a provider brings a full bucket, of which nothing is sold.
LEMMA BuildKeepsAccounts ==
  ASSUME IInv, NEW p \in Threads, BuildClient(p)
  PROVE  TypeOK' /\ HasClient' /\ OneBucketPerProvider' /\ Mutex' /\ Clock' /\ PaidIn'
         /\ Recent' /\ Unsold' /\ WindowBound'
<1>0. PICK v \in Providers : v = Provider(p)
  BY LimiterAssumption DEF IInv, TypeOK, Provider
<1>1. TypeOK /\ HasClient /\ OneBucketPerProvider /\ Unsold
  BY DEF IInv
<1>2. /\ pc[p] = "missed"
      /\ llm[p] = NoOne
      /\ role' = role
      /\ now' = now
      /\ grants' = grants
      /\ llm' = [llm EXCEPT ![p] = limiters'[v]]
      /\ pc' = [pc EXCEPT ![p] = IF once[p] THEN "ready" ELSE "built"]
  BY <1>0, <1>1 DEF BuildClient, HasClient, Goto
<1>3. \A q \in Threads : /\ pc'[q] \in Critical => pc[q] \in Critical /\ q # p
                         /\ Provider(q)' = Provider(q)
                         /\ q # p => llm'[q] = llm[q]
  BY <1>1, <1>2 DEF TypeOK, Critical, Provider
<1>4. CASE ~ New(v)
  <2>1. UNCHANGED <<limiters, bucket, grants, now>>
    BY <1>0, <1>2, <1>4 DEF BuildClient
  <2>2. limiters[v] # NoOne /\ limiters[v] \in Threads
    BY <1>1, <1>4 DEF New, TypeOK
  <2>3. TypeOK'
    <3>1. /\ llm' \in [Threads -> Threads \cup {NoOne}]
          /\ pc' \in [Threads -> {"idle", "missed", "built", "ready", "waiting"}
                                 \cup Critical]
      BY <1>1, <1>2, <2>1, <2>2 DEF TypeOK
    <3>2. cache' = cache /\ once' = once /\ wake' = wake /\ calls' = calls
      BY DEF BuildClient
    <3> QED
      BY <1>1, <1>2, <2>1, <3>1, <3>2 DEF TypeOK, bucket
  <2>4. HasClient'
    BY <1>1, <1>2, <1>3, <2>1, <2>2, LimiterAssumption DEF HasClient, TypeOK
  <2>5. OneBucketPerProvider'
    BY <1>0, <1>1, <1>2, <1>3, <2>1 DEF OneBucketPerProvider, TypeOK, BuildClient
  <2>6. Mutex' /\ Clock' /\ PaidIn' /\ Recent' /\ Unsold' /\ WindowBound'
    BY <1>2, <1>3, <2>1, Quiet
  <2> QED
    BY <2>3, <2>4, <2>5, <2>6
<1>5. CASE New(v)
  <2>1. /\ limiters[v] = NoOne
        /\ limiters' = [limiters EXCEPT ![v] = p]
        /\ tokens' = [tokens EXCEPT ![<<v, p>>] = Burst * Unit]
        /\ last' = [last EXCEPT ![<<v, p>>] = now]
        /\ cache' = cache /\ once' = once /\ wake' = wake /\ calls' = calls
    BY <1>0, <1>5 DEF BuildClient, New
  <2>2. /\ limiters'[v] = p
        /\ \A w \in Providers : w # v => limiters'[w] = limiters[w]
        /\ grants[v] = <<>>
    BY <1>1, <2>1 DEF TypeOK, Unsold
  <2>3. TypeOK'
    <3>1. Burst * Unit \in 0..(Burst * Unit)
      <4>1. Burst * Unit \in Nat
        BY LimiterAssumption
      <4> QED
        BY <4>1
    <3>2. /\ tokens' \in [Buckets -> 0..(Burst * Unit)]
          /\ last' \in [Buckets -> Nat]
      BY <1>1, <2>1, <3>1 DEF TypeOK
    <3>3. /\ limiters' \in [Providers -> Threads \cup {NoOne}]
          /\ llm' \in [Threads -> Threads \cup {NoOne}]
          /\ pc' \in [Threads -> {"idle", "missed", "built", "ready", "waiting"}
                                 \cup Critical]
      BY <1>1, <1>2, <2>1, <2>2 DEF TypeOK
    <3> QED
      BY <1>1, <1>2, <2>1, <3>2, <3>3 DEF TypeOK
  <2>4. HasClient'
    BY <1>1, <1>2, <1>3, <2>2, LimiterAssumption DEF HasClient, TypeOK
  <2>5. OneBucketPerProvider'
    <3>1. \A r \in Roles : cache'[r] # NoOne => cache'[r] = limiters'[ProviderOf[r]]
      BY <1>1, <2>1, <2>2, LimiterAssumption DEF OneBucketPerProvider
    <3>2. ASSUME NEW q \in Threads, llm'[q] # NoOne
          PROVE  llm'[q] = limiters'[Provider(q)']
      <4>1. CASE q = p
        BY <1>0, <1>1, <1>2, <1>3, <4>1 DEF TypeOK
      <4>2. CASE q # p
        <5>1. llm[q] = limiters[Provider(q)] /\ llm[q] # NoOne
          BY <1>1, <1>3, <3>2, <4>2 DEF OneBucketPerProvider
        <5>2. Provider(q) \in Providers
          BY <1>1, LimiterAssumption DEF TypeOK, Provider
        <5> QED
          BY <1>3, <2>1, <2>2, <4>2, <5>1, <5>2
      <4> QED
        BY <4>1, <4>2
    <3> QED
      BY <3>1, <3>2 DEF OneBucketPerProvider
  <2>6. Mutex'
    BY <1>3 DEF IInv, Mutex, Bucket
  <2>7. Clock'
    BY <1>1, <1>2, <2>1 DEF IInv, Clock, TypeOK
  <2>8. \A w \in Providers : w # v /\ limiters[w] # NoOne =>
           /\ Registered(w)' = Registered(w)
           /\ tokens'[Registered(w)] = tokens[Registered(w)]
           /\ last'[Registered(w)] = last[Registered(w)]
    BY <1>1, <2>1, <2>2 DEF TypeOK, Registered, Buckets
  <2>9. PaidIn'
    BY <1>2, <2>2, <2>8 DEF IInv, PaidIn, Seen
  <2>10. Recent'
    BY <1>2, <1>3, <2>2, <2>8 DEF IInv, Recent, Seen
  <2>11. Unsold' /\ WindowBound'
    BY <1>2, <2>1, <2>2 DEF IInv, Unsold, WindowBound
  <2> QED
    BY <2>3, <2>4, <2>5, <2>6, <2>7, <2>9, <2>10, <2>11
<1> QED
  BY <1>4, <1>5

\* A request is let through: the accounts move by one token.
LEMMA DebitKeepsAccounts ==
  ASSUME IInv, NEW p \in Threads, Debit(p)
  PROVE  TypeOK' /\ Mutex' /\ Clock' /\ PaidIn' /\ Recent' /\ Unsold' /\ WindowBound'
<1>1. TypeOK /\ Clock /\ Mutex /\ WindowBound
  BY DEF IInv
<1>2. pc[p] = "locked" /\ pc[p] \in Critical
  BY DEF Debit, Critical
<1>3. PICK v \in Providers, b \in Buckets :
         v = Provider(p) /\ b = Bucket(p) /\ limiters[v] # NoOne /\ b = Registered(v)
  BY <1>2, Draws
<1>4. /\ tokens' = [tokens EXCEPT ![b] = @ - Unit]
      /\ grants' = [grants EXCEPT ![v] = Append(@, now)]
      /\ pc' = [pc EXCEPT ![p] = "ready"]
      /\ tokens[b] >= Unit
      /\ UNCHANGED <<now, limiters, cache, role, llm, once, last, wake, calls>>
  BY <1>3 DEF Debit, Goto, router, client
<1>5. PICK n \in Nat : n = Len(grants[v])
  BY <1>1 DEF TypeOK
<1>6. /\ Len(grants'[v]) = n + 1
      /\ grants'[v][n + 1] = now
      /\ \A i \in 1..n : grants'[v][i] = grants[v][i]
      /\ \A i \in 1..n : grants[v][i] \in Nat
      /\ \A w \in Providers : w # v => grants'[w] = grants[w]
  BY <1>1, <1>4, <1>5 DEF TypeOK
<1>7. tokens[b] - Unit \in 0..(Burst * Unit)
  <2>1. tokens[b] \in 0..(Burst * Unit) /\ Unit \in Nat /\ Burst * Unit \in Nat
    BY <1>1, LimiterAssumption DEF TypeOK
  <2> QED
    BY <1>4, <2>1
<1>8. TypeOK'
  <2>1. tokens' \in [Buckets -> 0..(Burst * Unit)]
    BY <1>1, <1>4, <1>7 DEF TypeOK
  <2>2. grants' \in [Providers -> Seq(Nat)]
    BY <1>1, <1>4 DEF TypeOK
  <2>3. pc' \in [Threads -> {"idle", "missed", "built", "ready", "waiting"} \cup Critical]
    BY <1>1, <1>4 DEF TypeOK
  <2> QED
    BY <1>1, <1>4, <2>1, <2>2, <2>3 DEF TypeOK
<1>9. \A q \in Threads : /\ pc'[q] \in Critical => pc[q] \in Critical /\ q # p
                         /\ Provider(q)' = Provider(q)
                         /\ Bucket(q)' = Bucket(q)
  BY <1>1, <1>4 DEF TypeOK, Critical, Provider, Bucket
<1>10. Mutex'
  BY <1>1, <1>9 DEF Mutex
<1>11. Clock'
  BY <1>1, <1>4, <1>5, <1>6 DEF Clock, TypeOK
<1>12. \A w \in Providers : Registered(w)' = Registered(w)
  BY <1>4 DEF Registered
<1>13. \A i \in 1..n : Seen(v, i)
  BY <1>2, <1>3, <1>5 DEF IInv, Recent
<1>14. tokens'[b] = tokens[b] - Unit /\ last'[b] = last[b] /\ tokens[b] \in Int
  BY <1>1, <1>4 DEF TypeOK
<1>15. \A w \in Providers : w # v /\ limiters[w] # NoOne =>
          tokens'[Registered(w)] = tokens[Registered(w)]
  BY <1>1, <1>3, <1>4 DEF TypeOK, Registered, Buckets
<1>16. \A i \in 1..n : (n - i) * Unit + tokens[b]
                         <= Burst * Unit + Refill * (last[b] - grants[v][i])
  BY <1>3, <1>5, <1>13 DEF IInv, PaidIn
<1>17. \A i \in 1..n : (n + 1 - i) * Unit = (n - i) * Unit + Unit
  BY LimiterAssumption
<1>18. /\ Burst * Unit \in Nat /\ Unit \in Nat /\ Refill \in Nat
       /\ now \in Nat /\ last[b] \in Nat /\ last[b] <= now
       /\ \A i \in 1..n : (n - i) * Unit \in Int
  BY <1>1, LimiterAssumption DEF TypeOK, Clock
<1>19. PaidIn'
  <2> SUFFICES ASSUME NEW w \in Providers, limiters[w] # NoOne,
                      NEW i \in 1..Len(grants'[w]), grants'[w][i] <= last[Registered(w)]
               PROVE  (Len(grants'[w]) - i) * Unit + tokens'[Registered(w)]
                        <= Burst * Unit + Refill * (last[Registered(w)] - grants'[w][i])
    BY <1>4, <1>12 DEF PaidIn, Seen
  <2>1. CASE w # v
    BY <1>6, <1>15, <2>1 DEF IInv, PaidIn, Seen
  <2>2. CASE w = v /\ i \in 1..n
    <3>1. PICK g \in Nat : g = grants[v][i] /\ g = grants'[v][i]
      BY <1>6, <2>2
    <3>2. (n - i) * Unit + tokens[b] <= Burst * Unit + Refill * (last[b] - g)
      BY <1>16, <2>2, <3>1
    <3>3. (n + 1 - i) * Unit + tokens'[b] = (n - i) * Unit + tokens[b]
      BY <1>14, <1>17, <1>18, <2>2
    <3> QED
      BY <1>3, <1>6, <2>2, <3>1, <3>2, <3>3
  <2>3. CASE w = v /\ i = n + 1
    <3>1. (n + 1 - i) * Unit = 0
      BY <2>3, <1>18
    <3>2. last[b] = now
      BY <1>3, <1>6, <1>18, <2>3
    <3>3. Refill * (last[b] - now) = 0
      BY <1>18, <3>2
    <3>4. tokens'[b] <= Burst * Unit
      BY <1>7, <1>14, <1>18
    <3>5. tokens'[b] \in Int
      BY <1>14, <1>18
    <3>6. (n + 1 - i) * Unit + tokens'[b] <= Burst * Unit + Refill * (last[b] - now)
      <4>1. PICK full \in Nat : full = Burst * Unit
        BY <1>18
      <4>2. 0 + tokens'[b] <= full + 0
        BY <3>4, <3>5, <4>1
      <4> QED
        BY <3>1, <3>3, <4>1, <4>2
    <3> QED
      BY <1>3, <1>6, <2>3, <3>6
  <2> QED
    BY <1>5, <1>6, <2>1, <2>2, <2>3
<1>20. Recent'
  <2> SUFFICES ASSUME NEW w \in Providers, limiters[w] # NoOne,
                      NEW i \in 1..Len(grants'[w]),
                      \/ i < Len(grants'[w])
                      \/ \E q \in Threads : pc'[q] \in Critical /\ Provider(q) = w
               PROVE  grants'[w][i] <= last[Registered(w)]
    BY <1>4, <1>9, <1>12 DEF Recent, Seen
  <2>1. CASE w # v
    BY <1>6, <1>9, <2>1 DEF IInv, Recent, Seen
  <2>2. CASE w = v
    <3>1. ~ \E q \in Threads : pc'[q] \in Critical /\ Provider(q) = v
      <4> SUFFICES ASSUME NEW q \in Threads, pc'[q] \in Critical, Provider(q) = v
                   PROVE  FALSE
        OBVIOUS
      <4>1. pc[q] \in Critical /\ q # p
        BY <1>9
      <4>2. Bucket(q) = b
        BY <1>3, <4>1, Draws
      <4> QED
        BY <1>1, <1>2, <1>3, <4>1, <4>2 DEF Mutex
    <3>2. i \in 1..n
      BY <1>5, <1>6, <2>2, <3>1
    <3> QED
      BY <1>3, <1>6, <1>13, <2>2, <3>2 DEF Seen
  <2> QED
    BY <2>1, <2>2
<1>21. Unsold'
  BY <1>3, <1>4, <1>6 DEF IInv, Unsold
<1>22. WindowBound'
  <2> SUFFICES ASSUME NEW w \in Providers,
                      NEW i \in 1..Len(grants'[w]), NEW j \in 1..Len(grants'[w]), i <= j
               PROVE  (j - i) * Unit
                        <= Burst * Unit + Refill * (grants'[w][j] - grants'[w][i])
    BY DEF WindowBound
  <2>1. CASE w # v
    BY <1>1, <1>6, <2>1 DEF WindowBound
  <2>2. CASE w = v /\ j \in 1..n
    <3>1. i \in 1..n
      BY <1>5, <2>2
    <3> QED
      BY <1>1, <1>5, <1>6, <2>2, <3>1 DEF WindowBound
  <2>3. CASE w = v /\ j = n + 1 /\ i \in 1..n
    <3>1. PICK g \in Nat : g = grants[v][i] /\ g = grants'[v][i]
      BY <1>6, <2>3
    <3>2. Refill * (last[b] - g) <= Refill * (now - g)
      BY <1>18, <3>1, Spans
    <3>3. /\ Refill * (last[b] - g) \in Int
          /\ Refill * (now - g) \in Int
      <4>1. last[b] - g \in Int /\ now - g \in Int
        BY <1>18
      <4> QED
        BY <1>18, <4>1
    <3>4. (n - i) * Unit + tokens[b] <= Burst * Unit + Refill * (last[b] - g)
      BY <1>16, <2>3, <3>1
    <3>5. (n - i) * Unit + Unit <= Burst * Unit + Refill * (now - g)
      <4>1. PICK k \in Int, full \in Int, x \in Int, y \in Int :
              /\ k = (n - i) * Unit /\ full = Burst * Unit
              /\ x = Refill * (last[b] - g) /\ y = Refill * (now - g)
        BY <1>18, <2>3, <3>3
      <4>2. k + tokens[b] <= full + x /\ x <= y /\ Unit <= tokens[b]
        BY <1>4, <1>14, <1>18, <3>2, <3>4, <4>1
      <4>3. k + Unit <= full + y
        BY <1>14, <1>18, <4>2
      <4> QED
        BY <4>1, <4>3
    <3>6. (j - i) * Unit = (n - i) * Unit + Unit
      BY <1>17, <2>3
    <3> QED
      BY <1>6, <2>3, <3>1, <3>5, <3>6
  <2>4. CASE w = v /\ j = n + 1 /\ i = n + 1
    <3>1. (j - i) * Unit = 0 /\ Refill * (now - now) = 0
      BY <1>18, <2>4
    <3>2. grants'[w][j] - grants'[w][i] = now - now
      BY <1>6, <1>18, <2>4
    <3>3. Burst * Unit \in Nat
      BY <1>18
    <3>4. (j - i) * Unit <= Burst * Unit + Refill * (now - now)
      BY <3>1, <3>3
    <3> QED
      BY <3>2, <3>4
  <2> QED
    BY <1>5, <1>6, <2>1, <2>2, <2>3, <2>4
<1> QED
  BY <1>8, <1>10, <1>11, <1>19, <1>20, <1>21, <1>22
-----------------------------------------------------------------------------
\* Every step of every thread, and of the clock, preserves the invariant.
LEMMA StepIInv == IInv /\ [Next]_vars => IInv'
<1> SUFFICES ASSUME IInv, [Next]_vars PROVE IInv'
  OBVIOUS
<1>0. TypeOK /\ HasClient /\ OneBucketPerProvider /\ Clock
  BY DEF IInv
<1>1. ASSUME NEW p \in Threads, GetCached(p) PROVE IInv'
  <2>1. PICK r \in Roles : /\ cache[r] # NoOne
                           /\ role' = [role EXCEPT ![p] = r]
                           /\ llm' = [llm EXCEPT ![p] = cache[r]]
    BY <1>1 DEF GetCached
  <2>2. /\ pc' = [pc EXCEPT ![p] = "ready"]
        /\ UNCHANGED <<now, router, once, bucket, wake, calls, grants>>
    BY <1>1 DEF GetCached, Goto
  <2>3. TypeOK'
    BY <1>0, <2>1, <2>2 DEF TypeOK, router, bucket
  <2>4. HasClient'
    BY <1>0, <2>1, <2>2 DEF HasClient, TypeOK
  <2>5. OneBucketPerProvider'
    BY <1>0, <2>1, <2>2 DEF OneBucketPerProvider, TypeOK, router, Provider
  <2>6. Mutex' /\ Clock' /\ PaidIn' /\ Recent' /\ Unsold' /\ WindowBound'
    BY <1>0, <2>1, <2>2, Quiet DEF TypeOK, router, bucket, Critical
  <2> QED
    BY <2>3, <2>4, <2>5, <2>6 DEF IInv
<1>2. ASSUME NEW p \in Threads, GetMissed(p) PROVE IInv'
  <2>1. PICK r \in Roles, o \in BOOLEAN : /\ role' = [role EXCEPT ![p] = r]
                                          /\ once' = [once EXCEPT ![p] = o]
    BY <1>2 DEF GetMissed
  <2>2. /\ pc[p] = "idle"
        /\ pc' = [pc EXCEPT ![p] = "missed"]
        /\ UNCHANGED <<now, router, llm, bucket, wake, calls, grants>>
    BY <1>2 DEF GetMissed, Goto
  <2>3. TypeOK'
    BY <1>0, <2>1, <2>2 DEF TypeOK, router, bucket
  <2>4. HasClient'
    BY <1>0, <2>2 DEF HasClient, TypeOK
  <2>5. OneBucketPerProvider'
    BY <1>0, <2>1, <2>2 DEF OneBucketPerProvider, HasClient, TypeOK, router, Provider
  <2>6. Mutex' /\ Clock' /\ PaidIn' /\ Recent' /\ Unsold' /\ WindowBound'
    BY <1>0, <2>1, <2>2, Quiet DEF TypeOK, router, bucket, Critical
  <2> QED
    BY <2>3, <2>4, <2>5, <2>6 DEF IInv
<1>3. ASSUME NEW p \in Threads, BuildClient(p) PROVE IInv'
  BY <1>3, BuildKeepsAccounts DEF IInv
<1>4. ASSUME NEW p \in Threads, StoreClient(p) PROVE IInv'
  <2>1. /\ pc[p] = "built"
        /\ pc' = [pc EXCEPT ![p] = "ready"]
        /\ cache' = [cache EXCEPT ![role[p]] = llm[p]]
        /\ UNCHANGED <<now, limiters, role, llm, once, bucket, wake, calls, grants>>
    BY <1>4 DEF StoreClient, Goto, client
  <2>2. TypeOK'
    BY <1>0, <2>1 DEF TypeOK, bucket
  <2>3. HasClient'
    BY <1>0, <2>1 DEF HasClient, TypeOK
  <2>4. llm[p] = limiters[ProviderOf[role[p]]]
    BY <1>0, <2>1 DEF HasClient, OneBucketPerProvider, Provider
  <2>5. OneBucketPerProvider'
    BY <1>0, <2>1, <2>4 DEF OneBucketPerProvider, TypeOK, Provider
  <2>6. Mutex' /\ Clock' /\ PaidIn' /\ Recent' /\ Unsold' /\ WindowBound'
    BY <1>0, <2>1, Quiet DEF TypeOK, bucket, Critical
  <2> QED
    BY <2>2, <2>3, <2>5, <2>6 DEF IInv
<1>5. ASSUME NEW p \in Threads, Invoke(p) PROVE IInv'
  <2>1. /\ pc[p] = "ready"
        /\ pc' = [pc EXCEPT ![p] = "waiting"]
        /\ calls < MaxCalls
        /\ calls' = calls + 1
        /\ UNCHANGED <<now, limiters, cache, role, llm, once, bucket, wake, grants>>
    BY <1>5 DEF Invoke, Goto, client, router
  <2>2. TypeOK'
    <3>1. calls' \in 0..MaxCalls
      BY <1>0, <2>1, LimiterAssumption DEF TypeOK
    <3> QED
      BY <1>0, <2>1, <3>1 DEF TypeOK, bucket
  <2>3. HasClient'
    BY <1>0, <2>1 DEF HasClient, TypeOK
  <2>4. OneBucketPerProvider'
    BY <1>0, <2>1 DEF OneBucketPerProvider, Provider
  <2>5. Mutex' /\ Clock' /\ PaidIn' /\ Recent' /\ Unsold' /\ WindowBound'
    BY <1>0, <2>1, Quiet DEF TypeOK, bucket, Critical
  <2> QED
    BY <2>2, <2>3, <2>4, <2>5 DEF IInv
<1>6. ASSUME NEW p \in Threads, Acquire(p) PROVE IInv'
  <2>1. /\ pc[p] = "waiting"
        /\ pc' = [pc EXCEPT ![p] = "locked"]
        /\ RefillBucket(Bucket(p))
        /\ ~ Locked(Bucket(p))
        /\ UNCHANGED <<now, limiters, cache, role, llm, once, wake, calls, grants>>
    BY <1>6 DEF Acquire, Goto, client, router
  <2>2. /\ tokens' \in [Buckets -> 0..(Burst * Unit)]
        /\ last' \in [Buckets -> Nat]
        /\ Clock' /\ PaidIn' /\ Recent' /\ Unsold' /\ WindowBound'
    BY <2>1, Refilled
  <2>3. TypeOK'
    BY <1>0, <2>1, <2>2 DEF TypeOK, Critical
  <2>4. HasClient'
    BY <1>0, <2>1 DEF HasClient, TypeOK
  <2>5. OneBucketPerProvider'
    BY <1>0, <2>1 DEF OneBucketPerProvider, Provider
  <2>6. \A q \in Threads : /\ Bucket(q)' = Bucket(q)
                           /\ q # p => pc'[q] = pc[q]
    BY <1>0, <2>1 DEF TypeOK, Bucket, Provider
  <2>7. Mutex'
    BY <2>1, <2>6 DEF IInv, Mutex, Locked
  <2> QED
    BY <2>2, <2>3, <2>4, <2>5, <2>7 DEF IInv
<1>7. ASSUME NEW p \in Threads, Sleep(p) PROVE IInv'
  <2>1. /\ pc[p] = "locked"
        /\ pc' = [pc EXCEPT ![p] = "sleeping"]
        /\ wake' = [wake EXCEPT ![p] = Due(Bucket(p))]
        /\ UNCHANGED <<now, limiters, cache, role, llm, once, bucket, calls, grants>>
    BY <1>7 DEF Sleep, Goto, client, router
  <2>2. Due(Bucket(p)) \in Int
    <3>1. Bucket(p) \in Buckets
      BY <2>1, Draws DEF Critical
    <3>2. tokens[Bucket(p)] \in Int /\ now \in Int
      BY <1>0, <3>1 DEF TypeOK
    <3>3. (Unit - tokens[Bucket(p)] + Refill - 1) \div Refill \in Int
      BY <3>2, LimiterAssumption
    <3> QED
      BY <3>2, <3>3 DEF Due
  <2>3. TypeOK'
    BY <1>0, <2>1, <2>2 DEF TypeOK, bucket, Critical
  <2>4. HasClient'
    BY <1>0, <2>1 DEF HasClient, TypeOK
  <2>5. OneBucketPerProvider'
    BY <1>0, <2>1 DEF OneBucketPerProvider, Provider
  <2>6. Mutex' /\ Clock' /\ PaidIn' /\ Recent' /\ Unsold' /\ WindowBound'
    BY <1>0, <2>1, Quiet DEF TypeOK, bucket, Critical
  <2> QED
    BY <2>3, <2>4, <2>5, <2>6 DEF IInv
<1>8. ASSUME NEW p \in Threads, Wake(p) PROVE IInv'
  <2>1. /\ pc[p] = "sleeping"
        /\ pc' = [pc EXCEPT ![p] = "locked"]
        /\ RefillBucket(Bucket(p))
        /\ UNCHANGED <<now, limiters, cache, role, llm, once, wake, calls, grants>>
    BY <1>8 DEF Wake, Goto, client, router
  <2>2. /\ tokens' \in [Buckets -> 0..(Burst * Unit)]
        /\ last' \in [Buckets -> Nat]
        /\ Clock' /\ PaidIn' /\ Recent' /\ Unsold' /\ WindowBound'
    BY <2>1, Refilled DEF Critical
  <2>3. TypeOK'
    BY <1>0, <2>1, <2>2 DEF TypeOK, Critical
  <2>4. HasClient'
    BY <1>0, <2>1 DEF HasClient, TypeOK
  <2>5. OneBucketPerProvider'
    BY <1>0, <2>1 DEF OneBucketPerProvider, Provider
  <2>6. \A q \in Threads : /\ Bucket(q)' = Bucket(q)
                           /\ pc'[q] \in Critical => pc[q] \in Critical
    BY <1>0, <2>1 DEF TypeOK, Bucket, Provider, Critical
  <2>7. Mutex'
    BY <2>6 DEF IInv, Mutex
  <2> QED
    BY <2>2, <2>3, <2>4, <2>5, <2>7 DEF IInv
<1>9. ASSUME NEW p \in Threads, Debit(p) PROVE IInv'
  <2>1. /\ pc[p] = "locked"
        /\ pc' = [pc EXCEPT ![p] = "ready"]
        /\ UNCHANGED <<limiters, cache, role, llm>>
    BY <1>9 DEF Debit, Goto, client, router
  <2>2. HasClient'
    BY <1>0, <2>1 DEF HasClient, TypeOK
  <2>3. OneBucketPerProvider'
    BY <1>0, <2>1 DEF OneBucketPerProvider, Provider
  <2> QED
    BY <1>9, <2>2, <2>3, DebitKeepsAccounts DEF IInv
<1>10. ASSUME NEW p \in Threads, Release(p) PROVE IInv'
  <2>1. /\ pc[p] = "ready"
        /\ pc' = [pc EXCEPT ![p] = "idle"]
        /\ llm' = [llm EXCEPT ![p] = NoOne]
        /\ UNCHANGED <<now, limiters, cache, role, once, bucket, wake, calls, grants>>
    BY <1>10 DEF Release, Goto, router
  <2>2. TypeOK'
    BY <1>0, <2>1 DEF TypeOK, bucket
  <2>3. HasClient'
    BY <1>0, <2>1 DEF HasClient, TypeOK
  <2>4. OneBucketPerProvider'
    BY <1>0, <2>1 DEF OneBucketPerProvider, TypeOK, Provider
  <2>5. Mutex' /\ Clock' /\ PaidIn' /\ Recent' /\ Unsold' /\ WindowBound'
    BY <1>0, <2>1, Quiet DEF TypeOK, bucket, Critical
  <2> QED
    BY <2>2, <2>3, <2>4, <2>5 DEF IInv
<1>11. CASE Tick
  <2>1. /\ now' = now + 1
        /\ UNCHANGED <<router, pc, client, bucket, wake, calls, grants>>
    BY <1>11 DEF Tick
  <2>2. TypeOK'
    BY <1>0, <2>1 DEF TypeOK, router, client, bucket
  <2>3. HasClient' /\ OneBucketPerProvider'
    BY <1>0, <2>1 DEF HasClient, OneBucketPerProvider, router, client, Provider
  <2>4. Mutex' /\ PaidIn' /\ Recent' /\ Unsold' /\ WindowBound'
    BY <2>1 DEF IInv, Mutex, PaidIn, Recent, Unsold, WindowBound, Seen, Registered,
                router, client, bucket, Bucket, Provider
  <2>5. Clock'
    BY <1>0, <2>1 DEF Clock, TypeOK, bucket
  <2> QED
    BY <2>2, <2>3, <2>4, <2>5 DEF IInv
<1>12. CASE UNCHANGED vars
  BY <1>12 DEF IInv, vars, router, client, bucket, TypeOK, HasClient,
               OneBucketPerProvider, Mutex, Clock, PaidIn, Recent, Unsold, WindowBound,
               Seen, Registered, Bucket, Provider
<1> QED
  BY <1>1, <1>2, <1>3, <1>4, <1>5, <1>6, <1>7, <1>8, <1>9, <1>10, <1>11, <1>12
     DEF Next, Get, Take

\* The invariant holds in every reachable state.
LEMMA Inductive == Spec => []IInv
BY InitIInv, StepIInv, PTL DEF Spec

\* The variables keep their types, for any rate, burst and number of threads;
\* in particular no bucket is ever overdrawn or overfull.
THEOREM TypeCorrect == Spec => []TypeOK
<1>1. IInv => TypeOK
  BY DEF IInv
<1> QED
  BY <1>1, Inductive, PTL

\* get_llm never hands out a client that is not bound to the one bucket of its
\* provider, however its unlocked steps interleave.
THEOREM BucketsAreShared == Spec => []OneBucketPerProvider
<1>1. IInv => OneBucketPerProvider
  BY DEF IInv
<1> QED
  BY <1>1, Inductive, PTL

\* The bound on the requests of any span of time, for any rate and burst.
THEOREM RateIsBounded == Spec => []WindowBound
<1>1. IInv => WindowBound
  BY DEF IInv
<1> QED
  BY <1>1, Inductive, PTL
=============================================================================
