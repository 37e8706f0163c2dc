----------------------------- MODULE RateLimiter -----------------------------
(***************************************************************************)
(* Access to the models (llm/rate_limit.py): RateLimitedRouter.get_llm     *)
(* hands out clients from a cache, each bound to the token bucket of its   *)
(* provider, and a callback takes one token of the bucket before every     *)
(* request.  The agents run on one thread today; the locks are there for   *)
(* a fan-out, so several threads share a router here.                      *)
(*                                                                         *)
(* Data: a client is the bucket it is bound to, and a bucket is named by   *)
(* its provider and the thread that built it.  Tokens are counted in       *)
(* fractions of 1/Unit, of which a tick of the monotonic clock brings      *)
(* Refill: exact where the code has floats.  A thread may be preempted     *)
(* between any two steps, also while it holds a lock.                      *)
(***************************************************************************)
EXTENDS Integers, Sequences

CONSTANTS Threads,     \* callers of get_llm and invoke
          Roles,       \* agent roles with a binding
          Providers,   \* model providers
          ProviderOf,  \* binding(role).provider
          NoOne,       \* "not built yet"
          Burst,       \* capacity of a bucket, in tokens
          Unit,        \* fractions in a token
          Refill,      \* fractions that a tick brings: rpm / 60
          MaxTime,     \* bound: the clock stops here unless a thread sleeps
          MaxCalls     \* bound: requests in all

ASSUME LimiterAssumption == /\ ProviderOf \in [Roles -> Providers]
                            /\ NoOne \notin Threads
                            /\ Burst \in Nat \ {0}
                            /\ Unit \in Nat \ {0}
                            /\ Refill \in Nat \ {0}
                            /\ MaxTime \in Nat
                            /\ MaxCalls \in Nat

VARIABLES now,       \* time.monotonic()
          limiters,  \* who built the bucket each provider is registered with
          cache,     \* _cache: the bucket of each role's cached client
          pc,        \* where each thread stands
          role,      \* the role it last asked a client for
          llm,       \* the bucket its client is bound to
          once,      \* the client was built with overrides
          tokens,    \* _tokens of each bucket
          last,      \* _last of each bucket
          wake,      \* when time.sleep returns
          calls,     \* requests begun
          grants     \* history: when each provider's requests were let through

router == <<limiters, cache>>
client == <<role, llm, once>>
bucket == <<tokens, last>>
vars   == <<now, router, pc, client, bucket, wake, calls, grants>>

Buckets == Providers \X Threads
Provider(p) == ProviderOf[role[p]]
Bucket(p) == <<Provider(p), llm[p]>>
Goto(p, l) == pc' = [pc EXCEPT ![p] = l]
-----------------------------------------------------------------------------
Init == /\ now = 0
        /\ limiters = [v \in Providers |-> NoOne]
        /\ cache = [r \in Roles |-> NoOne]
        /\ pc = [p \in Threads |-> "idle"]
        /\ role \in [Threads -> Roles]
        /\ llm = [p \in Threads |-> NoOne]
        /\ once = [p \in Threads |-> FALSE]
        /\ tokens = [b \in Buckets |-> 0]
        /\ last = [b \in Buckets |-> 0]
        /\ wake = [p \in Threads |-> 0]
        /\ calls = 0
        /\ grants = [v \in Providers |-> <<>>]

\* get_llm finds a cached client.
GetCached(p) == /\ pc[p] = "idle"
                /\ \E r \in Roles : /\ cache[r] # NoOne
                                    /\ role' = [role EXCEPT ![p] = r]
                                    /\ llm' = [llm EXCEPT ![p] = cache[r]]
                /\ Goto(p, "ready")
                /\ UNCHANGED <<now, router, once, bucket, wake, calls, grants>>

\* Nothing cached, or overrides that a cached client would not honour.  The
\* lock is released between this check and the two steps that follow.
GetMissed(p) == /\ pc[p] = "idle"
                /\ \E r \in Roles, o \in BOOLEAN :
                     /\ o \/ cache[r] = NoOne
                     /\ role' = [role EXCEPT ![p] = r]
                     /\ once' = [once EXCEPT ![p] = o]
                /\ Goto(p, "missed")
                /\ UNCHANGED <<now, router, llm, bucket, wake, calls, grants>>

\* Mutant: every client that is built brings a bucket of its own.
NewAlways(v) == TRUE

New(v) == limiters[v] = NoOne

\* _limiter_for, in one hold of the lock, then build_chat_model.
BuildClient(p) ==
  LET v == Provider(p) IN
  /\ pc[p] = "missed"
  /\ IF New(v)
     THEN /\ limiters' = [limiters EXCEPT ![v] = p]
          /\ tokens' = [tokens EXCEPT ![<<v, p>>] = Burst * Unit]
          /\ last' = [last EXCEPT ![<<v, p>>] = now]
     ELSE UNCHANGED <<limiters, bucket>>
  /\ llm' = [llm EXCEPT ![p] = limiters'[v]]
  /\ Goto(p, IF once[p] THEN "ready" ELSE "built")
  /\ UNCHANGED <<now, cache, role, once, wake, calls, grants>>

\* The last of the threads that missed the same role wins the cache.
StoreClient(p) == /\ pc[p] = "built"
                  /\ cache' = [cache EXCEPT ![role[p]] = llm[p]]
                  /\ Goto(p, "ready")
                  /\ UNCHANGED <<now, limiters, client, bucket, wake, calls, grants>>

\* The callback starts a request, and has to take the bucket's lock first.
Invoke(p) == /\ pc[p] = "ready"
             /\ calls < MaxCalls
             /\ calls' = calls + 1
             /\ Goto(p, "waiting")
             /\ UNCHANGED <<now, router, client, bucket, wake, grants>>

Lesser(m, n) == IF m <= n THEN m ELSE n

\* What _refill leaves in the bucket: what the time since the last one brought,
\* up to the capacity.
Capped(b) == Lesser(Burst * Unit, tokens[b] + Refill * (now - last[b]))

\* Mutant: _last is not moved on, so a span is paid in twice.
RefillTwice(b) == /\ tokens' = [tokens EXCEPT ![b] = Capped(b)]
                  /\ UNCHANGED last

\* _refill
RefillBucket(b) == /\ tokens' = [tokens EXCEPT ![b] = Capped(b)]
                   /\ last' = [last EXCEPT ![b] = now]

Critical == {"locked", "sleeping"}

\* Mutant: the lock is not given back with the token.
LockedOn(b) == \E q \in Threads : pc[q] \in Critical \cup {"ready"} /\ Bucket(q) = b

\* Who sleeps for a token keeps the lock.
Locked(b) == \E q \in Threads : pc[q] \in Critical /\ Bucket(q) = b

Acquire(p) == /\ pc[p] = "waiting"
              /\ ~ Locked(Bucket(p))
              /\ RefillBucket(Bucket(p))
              /\ Goto(p, "locked")
              /\ UNCHANGED <<now, router, client, wake, calls, grants>>

\* The instant at which what is missing to a token will have come in.
Due(b) == now + (Unit - tokens[b] + Refill - 1) \div Refill

\* time.sleep, without giving the lock back.
Sleep(p) == /\ pc[p] = "locked"
            /\ tokens[Bucket(p)] < Unit
            /\ wake' = [wake EXCEPT ![p] = Due(Bucket(p))]
            /\ Goto(p, "sleeping")
            /\ UNCHANGED <<now, router, client, bucket, calls, grants>>

Wake(p) == /\ pc[p] = "sleeping"
           /\ now >= wake[p]
           /\ RefillBucket(Bucket(p))
           /\ Goto(p, "locked")
           /\ UNCHANGED <<now, router, client, wake, calls, grants>>

\* The token is taken, the lock released and the request sent.
Debit(p) == /\ pc[p] = "locked"
            /\ tokens[Bucket(p)] >= Unit
            /\ tokens' = [tokens EXCEPT ![Bucket(p)] = @ - Unit]
            /\ grants' = [grants EXCEPT ![Provider(p)] = Append(@, now)]
            /\ Goto(p, "ready")
            /\ UNCHANGED <<now, router, client, last, wake, calls>>

\* The node is done with its client.
Release(p) == /\ pc[p] = "ready"
              /\ Goto(p, "idle")
              /\ llm' = [llm EXCEPT ![p] = NoOne]
              /\ UNCHANGED <<now, router, role, once, bucket, wake, calls, grants>>

Tick == /\ now < MaxTime \/ \E p \in Threads : pc[p] = "sleeping" /\ now < wake[p]
        /\ now' = now + 1
        /\ UNCHANGED <<router, pc, client, bucket, wake, calls, grants>>

Get(p) == GetCached(p) \/ GetMissed(p) \/ BuildClient(p) \/ StoreClient(p)
Take(p) == Acquire(p) \/ Sleep(p) \/ Wake(p) \/ Debit(p)

Next == \/ \E p \in Threads : Get(p) \/ Invoke(p) \/ Take(p) \/ Release(p)
        \/ Tick

Spec == Init /\ [][Next]_vars
FairSpec == Spec /\ WF_vars(Tick) /\ \A p \in Threads : WF_vars(Take(p))
-----------------------------------------------------------------------------
TypeOK == /\ now \in Nat
          /\ limiters \in [Providers -> Threads \cup {NoOne}]
          /\ cache \in [Roles -> Threads \cup {NoOne}]
          /\ pc \in [Threads -> {"idle", "missed", "built", "ready", "waiting"}
                                \cup Critical]
          /\ role \in [Threads -> Roles]
          /\ llm \in [Threads -> Threads \cup {NoOne}]
          /\ once \in [Threads -> BOOLEAN]
          /\ tokens \in [Buckets -> 0..(Burst * Unit)]
          /\ last \in [Buckets -> Nat]
          /\ wake \in [Threads -> Int]
          /\ calls \in 0..MaxCalls
          /\ grants \in [Providers -> Seq(Nat)]

\* However get_llm calls interleave, every client of a provider, cached, in use
\* or built with overrides, draws on the one bucket registered for it.
OneBucketPerProvider ==
  /\ \A r \in Roles : cache[r] # NoOne => cache[r] = limiters[ProviderOf[r]]
  /\ \A p \in Threads : llm[p] # NoOne => llm[p] = limiters[Provider(p)]

\* In any span of time a provider sees no more requests than a full bucket, what
\* the span brings in, and one: the thread that takes the token can be preempted
\* after the refill, so that its request opens the span with the bucket full
\* again.  This is over all threads and all clients of the provider.
WindowBound ==
  \A v \in Providers : \A i, j \in 1..Len(grants[v]) : i <= j =>
     (j - i) * Unit <= Burst * Unit + Refill * (grants[v][j] - grants[v][i])

\* A request that waits for its token is let through, although the thread ahead
\* of it sleeps with the lock in hand.
EveryRequestPasses == \A p \in Threads : pc[p] = "waiting" ~> pc[p] = "ready"
=============================================================================
