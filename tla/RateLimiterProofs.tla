------------------------- MODULE RateLimiterProofs -------------------------
(* Proofs about RateLimiter, for any requests, processes, clocks and rules. *)
EXTENDS RateLimiter, FiniteSetTheorems, SequenceTheorems, TLAPS

-----------------------------------------------------------------------------
(* The inductive invariant.                                                *)

Waiting == {"new", "sent", "between"}

States == Waiting \cup {"handled", "rejected"}

Attempt == [stamp : Int, by : Requests]

Entry ==
  [bucket : Buckets, by : Requests, at : Nat, how : {"passed", "refused", "lost"}]

Duration(b) == Rules[ScopeOf(b)].duration

ClockOf(r) == Clock[Instance[r]]

StateOK ==
  /\ now \in Nat
  /\ st \in [Requests -> States]
  /\ scope \in [Requests -> DOMAIN Rules]
  /\ stamp \in [Requests -> Int]
  /\ sentAt \in [Requests -> Nat]
  /\ bucket \in [Buckets -> SUBSET Attempt]
  /\ expiry \in [Buckets -> Nat]
  /\ log \subseteq Entry /\ IsFiniteSet(log)
  /\ \A b \in Buckets : IsFiniteSet(bucket[b])

\* A connection carries the calls that wait for its process, each once.
PipeInv ==
  /\ pipe \in [Instances -> Seq(Requests)]
  /\ \A i \in Instances : \A n \in 1 .. Len(pipe[i]) :
       /\ st[pipe[i][n]] = "sent" /\ Instance[pipe[i][n]] = i
       /\ \A m \in 1 .. Len(pipe[i]) : pipe[i][n] = pipe[i][m] => n = m

\* A call under way was stamped by its process's clock, not too long ago.
SentInv ==
  \A r \in Requests : st[r] = "sent" =>
    /\ sentAt[r] <= now /\ now <= sentAt[r] + MaxDelay
    /\ stamp[r] = sentAt[r] + ClockOf(r)

\* The budgets a request has been through.
LogInv ==
  \A e \in log :
    /\ e.at <= now
    /\ ScopeOf(e.bucket) \in DOMAIN Rules
    /\ Order[ScopeOf(e.bucket)] <= Order[scope[e.by]]
    /\ st[e.by] \in Waiting => Order[ScopeOf(e.bucket)] < Order[scope[e.by]]
    /\ e.bucket = BucketOf(e.by, ScopeOf(e.bucket))

OnceInv == \A e, f \in log : e.by = f.by /\ e.bucket = f.bucket => e = f

PassedInv ==
  \A r \in Requests :
    /\ \A s \in DOMAIN Rules : Order[s] < Order[scope[r]] => Passed(r, s)
    /\ st[r] = "handled" => Passed(r, scope[r]) /\ After(scope[r]) = {}

\* The stamp of an attempt is the time Redis ran it, up to delay and clock.
Near(a, e) ==
  /\ a.by = e.by
  /\ e.at - MaxDelay + ClockOf(a.by) <= a.stamp
  /\ a.stamp <= e.at + ClockOf(a.by)

\* A sorted set holds attempts that Redis ran, one for each request.
HeldInv ==
  \A b \in Buckets :
    /\ \A a \in bucket[b] : \E e \in log : e.bucket = b /\ Near(a, e)
    /\ \A a, c \in bucket[b] : a.by = c.by => a = c

DropInv == \A v \in evicted : v.bucket \in Buckets /\ v.at \in Nat /\ v.at <= now

\* An attempt stays in its sorted set, and the set in Redis, as long as any
\* process can still count it, unless Redis has dropped the set since.
Recent(e, t) == e.at > t - Duration(e.bucket) + Spread

Gone(e) == \E v \in evicted : v.bucket = e.bucket /\ e.at <= v.at

KeptInv ==
  \A e \in log : Recent(e, now) /\ ~Gone(e) =>
    /\ \E a \in bucket[e.bucket] : a.by = e.by
    /\ expiry[e.bucket] >= e.at + Duration(e.bucket) + Slack

IInv ==
  /\ StateOK /\ PipeInv /\ SentInv
  /\ LogInv /\ OnceInv /\ PassedInv
  /\ HeldInv /\ KeptInv /\ DropInv
  /\ BudgetHolds /\ RefusalsAreEarned

-----------------------------------------------------------------------------
(* Lemmas about scopes and budgets.                                        *)

LEMMA Ranks ==
  /\ Scopes = {"global", "user", "session"}
  /\ Order["global"] = 1 /\ Order["user"] = 2 /\ Order["session"] = 3
  /\ \A s \in Scopes : Order[s] \in {1, 2, 3}
  /\ \A s, t \in Scopes : Order[s] = Order[t] => s = t
BY DEF Scopes, Order

LEMMA FirstFacts ==
  ASSUME NEW S \in SUBSET Scopes, S # {}
  PROVE  FirstOf(S) \in S /\ \A t \in S : Order[FirstOf(S)] <= Order[t]
<1>1. \E s \in S : \A t \in S : Order[s] <= Order[t]
  <2>1. CASE "global" \in S
    BY <2>1, Ranks
  <2>2. CASE "global" \notin S /\ "user" \in S
    BY <2>2, Ranks
  <2>3. CASE "global" \notin S /\ "user" \notin S
    <3>1. \A s \in S : s = "session"
      BY <2>3, Ranks
    <3>2. PICK s \in S : TRUE
      OBVIOUS
    <3> QED BY <3>1, <3>2, Ranks
  <2> QED BY <2>1, <2>2, <2>3
<1> QED BY <1>1 DEF FirstOf

\* A budget of a request is one of the buckets, and tells its scope.
LEMMA BucketFacts ==
  ASSUME NEW r \in Requests, NEW s \in Scopes
  PROVE  BucketOf(r, s) \in Buckets /\ ScopeOf(BucketOf(r, s)) = s
BY SessionAssumption, Ranks DEF BucketOf, Buckets, ScopeOf

LEMMA RuleFacts ==
  ASSUME NEW s \in DOMAIN Rules
  PROVE  /\ s \in Scopes /\ Order[s] \in {1, 2, 3}
         /\ Rules[s].points \in Nat /\ Rules[s].duration \in Nat
BY RulesAssumption, Ranks

LEMMA SpreadFacts == Spread \in Nat /\ Skew \in Nat /\ MaxDelay \in Nat /\ Slack \in Nat
                     /\ Spread = MaxDelay + Skew
BY BoundsAssumption DEF Spread

LEMMA ClockFacts ==
  ASSUME NEW r \in Requests, NEW q \in Requests
  PROVE  ClockOf(r) \in Int /\ ClockOf(q) \in Int /\ ClockOf(r) - ClockOf(q) <= Skew
BY PlacementAssumption DEF ClockOf

\* A set whose members have distinct counterparts in a finite set is finite and
\* no larger.
LEMMA Counterparts ==
  ASSUME NEW S, NEW T, IsFiniteSet(T),
         \A x \in S : \E y \in T : y.by = x.by,
         \A x, z \in S : x.by = z.by => x = z
  PROVE  IsFiniteSet(S) /\ Cardinality(S) <= Cardinality(T)
<1> DEFINE f == [x \in S |-> CHOOSE y \in T : y.by = x.by]
<1>1. \A x \in S : f[x] \in T /\ f[x].by = x.by
  OBVIOUS
<1>2. f \in [S -> T]
  BY <1>1
<1>3. \A x, z \in S : f[x] = f[z] => x = z
  BY <1>1
<1>4. f \in Injection(S, T)
  BY <1>2, <1>3 DEF Injection, IsInjective
<1> HIDE DEF f
<1> QED BY <1>4, FS_Injection

\* The counts of the properties are counts of finite sets.
LEMMA RanFacts ==
  ASSUME StateOK, NEW b, NEW t \in Int, NEW length \in Int
  PROVE  /\ Ran(b, t, length) \subseteq log
         /\ IsFiniteSet(Ran(b, t, length))
         /\ Cardinality(Ran(b, t, length)) \in Nat
<1>1. Ran(b, t, length) \in SUBSET log
  BY DEF Ran
<1>2. IsFiniteSet(Ran(b, t, length))
  BY <1>1, FS_Subset DEF StateOK
<1> QED BY <1>1, <1>2, FS_CardinalityType

-----------------------------------------------------------------------------
(* One MULTI.                                                              *)

Mine(r) == BucketOf(r, scope[r])

\* A call that is under way has not been counted yet by its budget.
LEMMA NotYet ==
  ASSUME IInv, NEW r \in Requests, st[r] = "sent"
  PROVE  /\ scope[r] \in DOMAIN Rules /\ Mine(r) \in Buckets /\ ScopeOf(Mine(r)) = scope[r]
         /\ \A e \in log : ~(e.by = r /\ e.bucket = Mine(r))
         /\ \A a \in bucket[Mine(r)] : a.by # r
<1>1. scope[r] \in DOMAIN Rules /\ Mine(r) \in Buckets /\ ScopeOf(Mine(r)) = scope[r]
  BY BucketFacts, RuleFacts DEF IInv, StateOK, Mine
<1>2. ASSUME NEW e \in log, e.by = r, e.bucket = Mine(r) PROVE FALSE
  <2>1. Order[scope[r]] < Order[scope[r]]
    BY <1>1, <1>2 DEF IInv, LogInv, Waiting
  <2> QED BY <1>1, <2>1, RuleFacts
<1>3. ASSUME NEW a \in bucket[Mine(r)], a.by = r PROVE FALSE
  <2>1. PICK e \in log : e.bucket = Mine(r) /\ e.by = a.by
    BY <1>1 DEF IInv, HeldInv, Near
  <2> QED BY <1>2, <1>3, <2>1
<1> QED BY <1>1, <1>2, <1>3

\* What is counted: one attempt of each request.
LEMMA KeptFacts ==
  ASSUME IInv, NEW r \in Requests, st[r] = "sent"
  PROVE  /\ Kept(r) \in SUBSET Attempt
         /\ IsFiniteSet(Kept(r)) /\ Cardinality(Kept(r)) \in Nat
         /\ \A a, c \in Kept(r) : a.by = c.by => a = c
<1> DEFINE own == [stamp |-> stamp[r], by |-> r]
           old == {a \in bucket[Mine(r)] : InWindow(a, stamp[r], Rules[scope[r]].duration)}
<1>1. Kept(r) = old \cup {own}
  BY DEF Kept, Mine
<1>2. own \in Attempt
  BY DEF IInv, StateOK, Attempt
<1>3. old \in SUBSET bucket[Mine(r)] /\ bucket[Mine(r)] \in SUBSET Attempt
      /\ IsFiniteSet(bucket[Mine(r)])
  BY NotYet DEF IInv, StateOK
<1>4. IsFiniteSet(Kept(r))
  <2>1. IsFiniteSet(old)
    BY <1>3, FS_Subset
  <2> HIDE DEF old, own
  <2> QED BY <1>1, <2>1, FS_AddElement
<1>5. \A a \in old : a.by # r
  BY NotYet
<1>6. \A a, c \in bucket[Mine(r)] : a.by = c.by => a = c
  BY NotYet DEF IInv, HeldInv
<1>7. own.by = r
  OBVIOUS
<1>8. \A a, c \in Kept(r) : a.by = c.by => a = c
  <2> HIDE DEF own, old
  <2> QED BY <1>1, <1>3, <1>5, <1>6, <1>7
<1>9. Kept(r) \in SUBSET Attempt
  BY <1>1, <1>2, <1>3
<1> QED BY <1>4, <1>8, <1>9, FS_CardinalityType

\* No process, however far ahead its clock is, trims an attempt that is recent.
LEMMA StillHeld ==
  ASSUME IInv, NEW r \in Requests, st[r] = "sent",
         NEW e \in log, e.bucket = Mine(r), Recent(e, now), ~Gone(e)
  PROVE  \E a \in Kept(r) : a.by = e.by
<1> DEFINE d == Rules[scope[r]].duration
<1>1. PICK a \in bucket[Mine(r)] : a.by = e.by
  BY DEF IInv, KeptInv
<1>2. PICK f \in log : f.bucket = Mine(r) /\ Near(a, f)
  BY NotYet DEF IInv, HeldInv
<1>3. f = e
  BY <1>1, <1>2 DEF IInv, OnceInv, Near
<1>4. /\ a.stamp \in Int /\ a.by \in Requests /\ e.at \in Nat /\ now \in Nat
      /\ stamp[r] \in Int /\ sentAt[r] \in Nat
  BY NotYet DEF IInv, StateOK, Attempt, Entry
<1>5. d \in Nat /\ e.at > now - d + Spread
  BY NotYet, RuleFacts DEF Recent, Duration
<1>6. e.at - MaxDelay + ClockOf(a.by) <= a.stamp
  BY <1>2, <1>3 DEF Near
<1>7. stamp[r] <= now + ClockOf(r) /\ ClockOf(r) \in Int
  BY <1>4, ClockFacts DEF IInv, SentInv
<1>8. ClockOf(a.by) \in Int /\ ClockOf(r) - ClockOf(a.by) <= Skew
  BY <1>4, ClockFacts
<1>9. a.stamp > stamp[r] - d
  <2> HIDE DEF d
  <2> QED BY <1>4, <1>5, <1>6, <1>7, <1>8, SpreadFacts
<1>10. a \in Kept(r)
  BY <1>9 DEF Kept, Mine, InWindow
<1> QED BY <1>1, <1>10

\* What is counted was run by Redis within the duration, and a little more.
LEMMA CountedRan ==
  ASSUME IInv, NEW r \in Requests, st[r] = "sent", NEW a \in Kept(r), a.by # r
  PROVE  \E e \in Ran(Mine(r), now, Rules[scope[r]].duration + Spread) : e.by = a.by
<1> DEFINE d == Rules[scope[r]].duration
<1>1. a \in bucket[Mine(r)] /\ a.stamp > stamp[r] - d
  BY DEF Kept, Mine, InWindow
<1>2. PICK e \in log : e.bucket = Mine(r) /\ Near(a, e)
  BY <1>1, NotYet DEF IInv, HeldInv
<1>3. /\ a.stamp \in Int /\ a.by \in Requests /\ e.at \in Nat /\ now \in Nat /\ e.at <= now
      /\ stamp[r] \in Int /\ sentAt[r] \in Nat /\ d \in Nat
  BY <1>1, NotYet, RuleFacts DEF IInv, StateOK, LogInv, Attempt, Entry
<1>4. a.by = e.by /\ a.stamp <= e.at + ClockOf(a.by)
  BY <1>2 DEF Near
<1>5. now - MaxDelay + ClockOf(r) <= stamp[r]
  BY <1>3, ClockFacts, SpreadFacts DEF IInv, SentInv
<1>6. ClockOf(r) \in Int /\ ClockOf(a.by) \in Int /\ ClockOf(a.by) - ClockOf(r) <= Skew
  BY <1>3, ClockFacts
<1>7. now - (d + Spread) < e.at
  <2> HIDE DEF d
  <2> QED BY <1>1, <1>3, <1>4, <1>5, <1>6, SpreadFacts
<1>8. e \in Ran(Mine(r), now, d + Spread)
  BY <1>2, <1>3, <1>7 DEF Ran
<1> QED BY <1>4, <1>8

\* What a MULTI leaves: the state, the log and the sorted sets fit together.
LEMMA MultiKeeps ==
  ASSUME IInv, NEW r \in Requests, st[r] = "sent",
         NEW how \in {"passed", "refused", "lost"}, Multi(r, how),
         UNCHANGED <<now, evicted>>
  PROVE  /\ bucket' \in [Buckets -> SUBSET Attempt] /\ expiry' \in [Buckets -> Nat]
         /\ log' \subseteq Entry /\ IsFiniteSet(log')
         /\ \A b \in Buckets : IsFiniteSet(bucket'[b])
         /\ OnceInv' /\ HeldInv' /\ KeptInv' /\ DropInv'
<1> DEFINE b == Mine(r)
           d == Rules[scope[r]].duration
           new == [bucket |-> b, by |-> r, at |-> now, how |-> how]
           own == [stamp |-> stamp[r], by |-> r]
<1>1. /\ bucket' = [bucket EXCEPT ![b] = Kept(r)]
      /\ expiry' = [expiry EXCEPT ![b] = now + d + Slack]
      /\ log' = log \cup {new}
  BY DEF Multi, Mine, Expiry
<1>2. /\ scope[r] \in DOMAIN Rules /\ b \in Buckets /\ ScopeOf(b) = scope[r]
      /\ \A e \in log : ~(e.by = r /\ e.bucket = b)
      /\ \A a \in bucket[b] : a.by # r
  BY NotYet
<1>3. d \in Nat /\ now \in Nat /\ now + d + Slack \in Nat
  BY <1>2, RuleFacts, SpreadFacts DEF IInv, StateOK
<1>4. new \in Entry /\ new.by = r /\ new.bucket = b /\ new.at = now
  BY <1>2, <1>3 DEF Entry
<1>5. bucket' \in [Buckets -> SUBSET Attempt] /\ \A c \in Buckets : IsFiniteSet(bucket'[c])
  BY <1>1, <1>2, KeptFacts DEF IInv, StateOK
<1>6. expiry' \in [Buckets -> Nat]
  BY <1>1, <1>3 DEF IInv, StateOK
<1>7. log' \subseteq Entry /\ IsFiniteSet(log')
  <2> HIDE DEF new
  <2> QED BY <1>1, <1>4, FS_AddElement DEF IInv, StateOK
<1>8. OnceInv'
  <2> HIDE DEF new, b
  <2> QED BY <1>1, <1>2, <1>4 DEF IInv, OnceInv
<1>9. HeldInv'
  <2>1. Near(own, new)
    <3>1. own.by = r /\ own.stamp = stamp[r] /\ new.by = r /\ new.at = now
      OBVIOUS
    <3>2. stamp[r] = sentAt[r] + ClockOf(r) /\ sentAt[r] <= now /\ now <= sentAt[r] + MaxDelay
      BY DEF IInv, SentInv
    <3>3. sentAt[r] \in Nat /\ ClockOf(r) \in Int
      BY ClockFacts DEF IInv, StateOK
    <3> HIDE DEF own, new
    <3> QED BY <1>3, <3>1, <3>2, <3>3, SpreadFacts DEF Near
  <2>2. ASSUME NEW c \in Buckets, NEW a \in bucket'[c]
        PROVE  \E e \in log' : e.bucket = c /\ Near(a, e)
    <3>1. CASE a \in bucket[c]
      BY <1>1, <3>1 DEF IInv, HeldInv
    <3>2. CASE a \notin bucket[c]
      <4>1. c = b /\ a = own
        BY <1>1, <1>2, <2>2, <3>2 DEF Kept, Mine, IInv, StateOK
      <4> QED BY <1>1, <1>4, <2>1, <4>1
    <3> QED BY <3>1, <3>2
  <2>3. ASSUME NEW c \in Buckets, NEW a \in bucket'[c], NEW e \in bucket'[c], a.by = e.by
        PROVE  a = e
    <3>1. CASE c = b
      BY <1>1, <1>2, <2>3, <3>1, KeptFacts DEF IInv, StateOK
    <3>2. CASE c # b
      BY <1>1, <2>3, <3>2 DEF IInv, HeldInv, StateOK
    <3> QED BY <3>1, <3>2
  <2>4. \A a, e : Near(a, e)' = Near(a, e)
    BY DEF Near, ClockOf
  <2> QED BY <2>2, <2>3, <2>4 DEF HeldInv
<1>10. KeptInv'
  <2> SUFFICES ASSUME NEW e \in log', Recent(e, now), ~Gone(e)
               PROVE  /\ \E a \in bucket'[e.bucket] : a.by = e.by
                      /\ expiry'[e.bucket] >= e.at + Duration(e.bucket) + Slack
    BY DEF KeptInv, Recent, Duration, Gone
  <2>1. CASE e = new
    <3>1. Duration(e.bucket) = d
      BY <1>2, <1>4, <2>1 DEF Duration
    <3>2. expiry'[e.bucket] = now + d + Slack /\ e.at = now
      BY <1>1, <1>2, <1>4, <2>1 DEF IInv, StateOK
    <3>3. own \in bucket'[e.bucket] /\ own.by = e.by
      BY <1>1, <1>2, <1>4, <2>1 DEF Kept, IInv, StateOK
    <3> QED BY <1>3, <3>1, <3>2, <3>3
  <2>2. CASE e \in log
    <3>1. e.bucket \in Buckets /\ e.at \in Nat /\ e.at <= now
      BY <2>2 DEF IInv, StateOK, LogInv, Entry
    <3>2. CASE e.bucket = b
      <4>1. \E a \in bucket'[e.bucket] : a.by = e.by
        BY <1>1, <1>2, <2>2, <3>2, StillHeld DEF IInv, StateOK
      <4>2. expiry'[e.bucket] = now + d + Slack /\ Duration(e.bucket) = d
        BY <1>1, <1>2, <3>2 DEF IInv, StateOK, Duration
      <4> HIDE DEF d
      <4> QED BY <1>3, <3>1, <4>1, <4>2, SpreadFacts
    <3>3. CASE e.bucket # b
      BY <1>1, <2>2, <3>1, <3>3 DEF IInv, KeptInv, StateOK
    <3> QED BY <3>2, <3>3
  <2> QED BY <1>1, <2>1, <2>2
<1>11. DropInv'
  BY DEF IInv, DropInv
<1> QED BY <1>5, <1>6, <1>7, <1>8, <1>9, <1>10, <1>11

\* The budget is not exceeded by a MULTI that passes.
LEMMA MultiHolds ==
  ASSUME IInv, NEW r \in Requests, st[r] = "sent",
         NEW how \in {"passed", "refused", "lost"}, Multi(r, how),
         UNCHANGED <<now, evicted>>,
         how = "passed" => Passes(r)
  PROVE  BudgetHolds'
<1> DEFINE new == [bucket |-> Mine(r), by |-> r, at |-> now, how |-> how]
<1>1. log' = log \cup {new} /\ new.by = r /\ new.bucket = Mine(r) /\ new.at = now /\ new.how = how
  BY DEF Multi, Mine
<1> SUFFICES ASSUME NEW b \in Buckets, NEW t \in 0 .. now, ScopeOf(b) \in DOMAIN Rules,
                    NEW length \in 0 .. Rules[ScopeOf(b)].duration - Spread,
                    ~Dropped(b, t, length)
             PROVE  Cardinality({e \in Ran(b, t, length)' : e.how = "passed"})
                      <= Rules[ScopeOf(b)].points
  BY DEF BudgetHolds, Spread, Dropped
<1> DEFINE rule == Rules[ScopeOf(b)]
           F == {e \in Ran(b, t, length) : e.how = "passed"}
           G == {e \in Ran(b, t, length)' : e.how = "passed"}
<1>2. rule.points \in Nat /\ rule.duration \in Nat /\ now \in Nat /\ t \in Int
      /\ length \in Nat /\ length <= rule.duration - Spread
  BY RuleFacts, SpreadFacts DEF IInv, StateOK
<1>3. Ran(b, t, length)' = {e \in log' : e.bucket = b /\ t - length < e.at /\ e.at <= t}
  BY DEF Ran
<1>4. CASE new \notin G
  <2>1. G = F
    <3> HIDE DEF new
    <3> QED BY <1>1, <1>3, <1>4 DEF Ran
  <2>2. Cardinality(F) <= rule.points
    BY DEF IInv, BudgetHolds
  <2> QED BY <2>1, <2>2
<1>5. CASE new \in G
  <2>1. how = "passed" /\ b = Mine(r) /\ t - length < now /\ now <= t
    BY <1>1, <1>3, <1>5
  <2>2. t = now
    BY <1>2, <2>1
  <2>3. ASSUME NEW e \in G PROVE \E a \in Kept(r) : a.by = e.by
    <3>1. CASE e \in log
      <4>1. e.bucket = Mine(r) /\ now - length < e.at /\ e.at \in Nat
        BY <1>3, <2>1, <2>2, <2>3, <3>1 DEF IInv, StateOK, Entry
      <4>2. Recent(e, now)
        BY <1>2, <2>1, <4>1, SpreadFacts DEF Recent, Duration
      <4>3. ASSUME NEW v \in evicted, v.bucket = e.bucket, e.at <= v.at PROVE FALSE
        <5>1. v.at \in Nat /\ v.at <= now
          BY DEF IInv, DropInv
        <5>2. t - length < v.at /\ v.at <= t /\ v.bucket = b
          BY <1>2, <2>1, <2>2, <4>1, <4>3, <5>1
        <5> QED BY <5>2 DEF Dropped
      <4> QED BY <3>1, <4>1, <4>2, <4>3, StillHeld DEF Gone
    <3>2. CASE e = new
      <4>1. [stamp |-> stamp[r], by |-> r] \in Kept(r)
        BY DEF Kept
      <4> QED BY <1>1, <3>2, <4>1
    <3>3. e \in log'
      BY <1>3, <2>3
    <3> HIDE DEF new
    <3> QED BY <1>1, <3>1, <3>2, <3>3
  <2>4. \A e, f \in G : e.by = f.by => e = f
    <3>1. OnceInv'
      BY MultiKeeps
    <3> QED BY <1>3, <3>1 DEF OnceInv
  <2>5. IsFiniteSet(Kept(r)) /\ Cardinality(Kept(r)) \in Nat
    BY KeptFacts
  <2>6. IsFiniteSet(G) /\ Cardinality(G) <= Cardinality(Kept(r))
    <3> HIDE DEF G
    <3> QED BY <2>3, <2>4, <2>5, Counterparts
  <2>7. Cardinality(Kept(r)) <= rule.points
    BY <1>2, <2>1, <2>5, NotYet DEF Passes, Blocked
  <2>8. Cardinality(G) \in Nat
    BY <2>6, FS_CardinalityType
  <2> HIDE DEF G, rule
  <2> QED BY <1>2, <2>5, <2>6, <2>7, <2>8 DEF G, rule
<1> QED BY <1>4, <1>5

\* A MULTI that refuses has counted attempts that Redis ran lately.
LEMMA MultiEarned ==
  ASSUME IInv, NEW r \in Requests, st[r] = "sent",
         NEW how \in {"passed", "refused", "lost"}, Multi(r, how),
         UNCHANGED <<now, evicted>>, how = "refused" => ~Passes(r)
  PROVE  RefusalsAreEarned'
<1> DEFINE new == [bucket |-> Mine(r), by |-> r, at |-> now, how |-> how]
<1>1. log' = log \cup {new} /\ new.by = r /\ new.bucket = Mine(r) /\ new.at = now /\ new.how = how
  BY DEF Multi, Mine
<1>2. \A b, t, length : Ran(b, t, length)' =
                          {e \in log' : e.bucket = b /\ t - length < e.at /\ e.at <= t}
  BY DEF Ran
<1>3. log' \subseteq Entry /\ IsFiniteSet(log') /\ OnceInv'
  BY MultiKeeps
<1> HIDE DEF new
<1> SUFFICES ASSUME NEW e \in log', e.how = "refused"
             PROVE  Cardinality(Ran(e.bucket, e.at, Duration(e.bucket) + Spread)')
                      > Rules[ScopeOf(e.bucket)].points
  BY DEF RefusalsAreEarned, Duration, Spread
<1> DEFINE length == Duration(e.bucket) + Spread
           R == Ran(e.bucket, e.at, length)'
           points == Rules[ScopeOf(e.bucket)].points
<1>4. R \in SUBSET log' /\ IsFiniteSet(R) /\ Cardinality(R) \in Nat
  <2>1. R \in SUBSET log'
    BY <1>2
  <2>2. IsFiniteSet(R)
    BY <1>3, <2>1, FS_Subset
  <2> QED BY <2>1, <2>2, FS_CardinalityType
<1>5. CASE e \in log
  <2> DEFINE Q == Ran(e.bucket, e.at, length)
  <2>1. Q \in SUBSET R
    BY <1>1, <1>2 DEF Ran
  <2>2. Cardinality(Q) <= Cardinality(R)
    BY <1>4, <2>1, FS_Subset
  <2>3. Cardinality(Q) > points /\ points \in Nat
    BY <1>5, RuleFacts DEF IInv, RefusalsAreEarned, LogInv, Duration
  <2>4. Cardinality(Q) \in Nat
    <3>1. IsFiniteSet(Q)
      BY <1>4, <2>1, FS_Subset
    <3> QED BY <3>1, FS_CardinalityType
  <2> HIDE DEF Q, R, points
  <2> QED BY <1>4, <2>2, <2>3, <2>4 DEF R, points, length
<1>6. CASE e = new
  <2>1. /\ how = "refused" /\ e.bucket = Mine(r) /\ e.at = now /\ e.by = r
        /\ ScopeOf(e.bucket) = scope[r] /\ scope[r] \in DOMAIN Rules
    BY <1>1, <1>6, NotYet
  <2>2. /\ length = Rules[scope[r]].duration + Spread /\ length \in Nat /\ length > 0
        /\ now \in Nat /\ points \in Nat /\ points = Rules[scope[r]].points
    BY <2>1, RulesAssumption, SpreadFacts DEF Duration, IInv, StateOK
  <2>3. e \in R
    BY <1>2, <2>1, <2>2
  <2>4. ASSUME NEW a \in Kept(r) PROVE \E f \in R : f.by = a.by
    <3>1. CASE a.by = r
      BY <2>1, <2>3, <3>1
    <3>2. CASE a.by # r
      <4>1. PICK f \in Ran(Mine(r), now, length) : f.by = a.by
        BY <2>2, <3>2, CountedRan
      <4>2. f \in R
        BY <1>1, <1>2, <2>1, <4>1 DEF Ran
      <4> QED BY <4>1, <4>2
    <3> QED BY <3>1, <3>2
  <2>5. IsFiniteSet(Kept(r)) /\ Cardinality(Kept(r)) \in Nat
        /\ \A a, c \in Kept(r) : a.by = c.by => a = c
    BY KeptFacts
  <2>6. Cardinality(Kept(r)) <= Cardinality(R)
    <3> HIDE DEF R
    <3> QED BY <1>4, <2>4, <2>5, Counterparts
  <2>7. Cardinality(Kept(r)) > points
    BY <2>1, <2>2 DEF Passes, Blocked
  <2> HIDE DEF R, points
  <2> QED BY <1>4, <2>2, <2>5, <2>6, <2>7 DEF R, points, length
<1> QED BY <1>1, <1>5, <1>6

-----------------------------------------------------------------------------
(* One answer: the connection, and where the request goes from there.       *)

Caller(i) == Head(pipe[i])

LEMMA CallerFacts ==
  ASSUME IInv, NEW i \in Instances, pipe[i] # <<>>
  PROVE  /\ Caller(i) \in Requests /\ st[Caller(i)] = "sent" /\ Instance[Caller(i)] = i
         /\ Tail(pipe[i]) \in Seq(Requests) /\ Len(pipe[i]) \in Nat /\ pipe[i][1] = Caller(i)
         /\ Len(Tail(pipe[i])) = Len(pipe[i]) - 1
         /\ \A n \in 1 .. Len(Tail(pipe[i])) : Tail(pipe[i])[n] = pipe[i][n + 1]
<1>1. pipe[i] \in Seq(Requests)
  BY DEF IInv, PipeInv
<1>2. /\ Caller(i) \in Requests /\ Tail(pipe[i]) \in Seq(Requests)
      /\ Len(pipe[i]) \in Nat /\ 1 \in 1 .. Len(pipe[i]) /\ pipe[i][1] = Caller(i)
      /\ Len(Tail(pipe[i])) = Len(pipe[i]) - 1
      /\ \A n \in 1 .. Len(Tail(pipe[i])) : Tail(pipe[i])[n] = pipe[i][n + 1]
  BY <1>1 DEF Caller
<1> QED BY <1>2 DEF IInv, PipeInv

\* The answered call leaves its connection, and the others are as they were.
LEMMA AnsweredKeeps ==
  ASSUME IInv, NEW i \in Instances, pipe[i] # <<>>, Answered(i),
         NEW next \in States \ {"sent"}, st' = [st EXCEPT ![Caller(i)] = next]
  PROVE  /\ now' = now /\ st' \in [Requests -> States]
         /\ stamp' \in [Requests -> Int] /\ sentAt' \in [Requests -> Nat]
         /\ PipeInv' /\ SentInv'
<1>1. /\ Caller(i) \in Requests /\ st[Caller(i)] = "sent" /\ Instance[Caller(i)] = i
      /\ Tail(pipe[i]) \in Seq(Requests) /\ Len(pipe[i]) \in Nat /\ pipe[i][1] = Caller(i)
      /\ Len(Tail(pipe[i])) = Len(pipe[i]) - 1
      /\ \A n \in 1 .. Len(Tail(pipe[i])) : Tail(pipe[i])[n] = pipe[i][n + 1]
  BY CallerFacts
<1>2. /\ pipe' = [pipe EXCEPT ![i] = Tail(pipe[i])]
      /\ stamp' = [stamp EXCEPT ![Caller(i)] = 0]
      /\ sentAt' = [sentAt EXCEPT ![Caller(i)] = 0]
      /\ now' = now
  BY DEF Answered, Caller
<1>3. now' = now /\ st' \in [Requests -> States]
      /\ stamp' \in [Requests -> Int] /\ sentAt' \in [Requests -> Nat]
  BY <1>1, <1>2 DEF IInv, StateOK
<1>4. PipeInv'
  <2>1. pipe' \in [Instances -> Seq(Requests)]
    BY <1>1, <1>2 DEF IInv, PipeInv
  <2>2. ASSUME NEW j \in Instances, NEW n \in 1 .. Len(pipe'[j])
        PROVE  /\ st'[pipe'[j][n]] = "sent" /\ Instance[pipe'[j][n]] = j
               /\ \A m \in 1 .. Len(pipe'[j]) : pipe'[j][n] = pipe'[j][m] => n = m
    <3>1. CASE j = i
      <4>1. pipe'[j] = Tail(pipe[i])
        BY <1>2, <3>1 DEF IInv, PipeInv
      <4>2. \A m \in 1 .. Len(pipe'[j]) :
              m + 1 \in 1 .. Len(pipe[i]) /\ m \in Nat /\ pipe'[j][m] = pipe[i][m + 1]
        BY <1>1, <4>1
      <4>3. n + 1 \in 1 .. Len(pipe[i]) /\ n \in Nat /\ n # 0 /\ pipe'[j][n] = pipe[i][n + 1]
        BY <1>1, <4>1
      <4>4. 1 \in 1 .. Len(pipe[i]) /\ n + 1 # 1
        BY <1>1, <4>3
      <4>5. pipe'[j][n] # Caller(i)
        BY <1>1, <4>3, <4>4 DEF IInv, PipeInv
      <4>6. st[pipe'[j][n]] = "sent" /\ Instance[pipe'[j][n]] = i
        BY <4>3 DEF IInv, PipeInv
      <4>7. pipe'[j][n] \in Requests
        BY <4>3 DEF IInv, PipeInv
      <4>8. st'[pipe'[j][n]] = "sent"
        BY <4>5, <4>6, <4>7 DEF IInv, StateOK
      <4>9. ASSUME NEW m \in 1 .. Len(pipe'[j]), pipe'[j][n] = pipe'[j][m] PROVE n = m
        <5>1. n + 1 = m + 1
          BY <4>2, <4>3, <4>9 DEF IInv, PipeInv
        <5> QED BY <4>2, <4>3, <5>1
      <4> QED BY <3>1, <4>6, <4>8, <4>9
    <3>2. CASE j # i
      <4>1. pipe'[j] = pipe[j]
        BY <1>2, <3>2 DEF IInv, PipeInv
      <4>2. pipe[j][n] \in Requests /\ pipe[j][n] # Caller(i)
        BY <1>1, <3>2, <4>1 DEF IInv, PipeInv
      <4>3. st'[pipe[j][n]] = st[pipe[j][n]]
        BY <4>2 DEF IInv, StateOK
      <4> QED BY <4>1, <4>3 DEF IInv, PipeInv
    <3> QED BY <3>1, <3>2
  <2> QED BY <2>1, <2>2 DEF PipeInv
<1>5. SentInv'
  BY <1>1, <1>2 DEF IInv, SentInv, StateOK, ClockOf
<1> QED BY <1>3, <1>4, <1>5

\* From a budget that let it through, a request goes to the next one that
\* applies; when there is none, to the handler.
LEMMA ProceedsFacts ==
  ASSUME IInv, NEW r \in Requests, st[r] = "sent", Proceeds(r)
  PROVE  /\ scope' \in [Requests -> DOMAIN Rules]
         /\ \A q \in Requests \ {r} : scope'[q] = scope[q] /\ st'[q] = st[q]
         /\ \A s \in DOMAIN Rules : Order[s] < Order[scope'[r]] => Order[s] <= Order[scope[r]]
         /\ Order[scope[r]] <= Order[scope'[r]]
         /\ \/ st' = [st EXCEPT ![r] = "between"] /\ st'[r] = "between"
               /\ Order[scope[r]] < Order[scope'[r]]
            \/ st' = [st EXCEPT ![r] = "handled"] /\ st'[r] = "handled"
               /\ scope'[r] = scope[r] /\ After(scope[r]) = {}
<1> DEFINE here == scope[r]
<1>1. here \in DOMAIN Rules /\ Order[here] \in {1, 2, 3}
      /\ \A s \in DOMAIN Rules : Order[s] \in {1, 2, 3}
  BY RuleFacts DEF IInv, StateOK
<1>2. CASE After(here) # {} /\ st' = [st EXCEPT ![r] = "between"]
           /\ scope' = [scope EXCEPT ![r] = FirstOf(After(here))]
  <2> DEFINE next == FirstOf(After(here))
  <2>1. After(here) \in SUBSET DOMAIN Rules /\ After(here) \in SUBSET Scopes
    BY RulesAssumption DEF After
  <2>2. next \in After(here) /\ \A t \in After(here) : Order[next] <= Order[t]
    BY <1>2, <2>1, FirstFacts
  <2>3. next \in DOMAIN Rules /\ Order[here] < Order[next]
    BY <2>2 DEF After
  <2>4. ASSUME NEW s \in DOMAIN Rules, Order[s] < Order[next]
        PROVE  Order[s] <= Order[here]
    <3>1. CASE Order[here] < Order[s]
      <4>1. s \in After(here)
        BY <3>1 DEF After
      <4>2. Order[next] <= Order[s]
        BY <2>2, <4>1
      <4> HIDE DEF next, here
      <4> QED BY <1>1, <2>3, <2>4, <4>2
    <3>2. CASE ~(Order[here] < Order[s])
      <4> HIDE DEF here
      <4> QED BY <1>1, <3>2
    <3> QED BY <3>1, <3>2
  <2>5. scope' \in [Requests -> DOMAIN Rules] /\ scope'[r] = next /\ st'[r] = "between"
        /\ \A q \in Requests \ {r} : scope'[q] = scope[q] /\ st'[q] = st[q]
    <3> HIDE DEF next
    <3> QED BY <1>2, <2>3 DEF IInv, StateOK, next
  <2> HIDE DEF next, here
  <2> QED BY <1>1, <1>2, <2>3, <2>4, <2>5 DEF here
<1>3. CASE After(here) = {} /\ st' = [st EXCEPT ![r] = "handled"] /\ scope' = scope
  BY <1>1, <1>3 DEF IInv, StateOK
<1> QED BY <1>2, <1>3 DEF Proceeds

\* What the budgets a request has been through say of it, after it went on ...
LEMMA OnwardKeeps ==
  ASSUME IInv, NEW r \in Requests, st[r] = "sent", now' = now,
         Multi(r, "passed"), Proceeds(r)
  PROVE  LogInv' /\ PassedInv'
<1> DEFINE new == [bucket |-> Mine(r), by |-> r, at |-> now, how |-> "passed"]
<1>1. log' = log \cup {new}
  BY DEF Multi, Mine
<1>2. /\ new.by = r /\ new.bucket = Mine(r) /\ new.at = now /\ new.how = "passed"
      /\ ScopeOf(new.bucket) = scope[r] /\ scope[r] \in DOMAIN Rules
      /\ new.bucket = BucketOf(r, ScopeOf(new.bucket))
  BY NotYet DEF Mine
<1>3. /\ scope' \in [Requests -> DOMAIN Rules]
      /\ \A q \in Requests \ {r} : scope'[q] = scope[q] /\ st'[q] = st[q]
      /\ \A s \in DOMAIN Rules : Order[s] < Order[scope'[r]] => Order[s] <= Order[scope[r]]
      /\ Order[scope[r]] <= Order[scope'[r]]
      /\ \/ st'[r] = "between" /\ Order[scope[r]] < Order[scope'[r]]
         \/ st'[r] = "handled" /\ scope'[r] = scope[r] /\ After(scope[r]) = {}
  BY ProceedsFacts
<1>4. \A s \in DOMAIN Rules : s \in Scopes /\ Order[s] \in {1, 2, 3}
  BY RuleFacts
<1> HIDE DEF new
<1>5. LogInv'
  <2> SUFFICES ASSUME NEW e \in log'
      PROVE  /\ e.at <= now
             /\ ScopeOf(e.bucket) \in DOMAIN Rules
             /\ Order[ScopeOf(e.bucket)] <= Order[scope'[e.by]]
             /\ st'[e.by] \in Waiting => Order[ScopeOf(e.bucket)] < Order[scope'[e.by]]
             /\ e.bucket = BucketOf(e.by, ScopeOf(e.bucket))
    BY DEF LogInv
  <2>1. now \in Nat
    BY DEF IInv, StateOK
  <2>2. CASE e \in log /\ e.by # r
    BY <1>3, <2>2 DEF IInv, StateOK, LogInv, Entry
  <2>3. CASE e \in log /\ e.by = r
    <3>1. Order[ScopeOf(e.bucket)] < Order[scope[r]] /\ ScopeOf(e.bucket) \in DOMAIN Rules
          /\ e.at <= now /\ e.bucket = BucketOf(e.by, ScopeOf(e.bucket))
      BY <2>3 DEF IInv, LogInv, Waiting
    <3>2. scope'[r] \in DOMAIN Rules
      BY <1>3
    <3> QED BY <1>2, <1>3, <1>4, <2>3, <3>1, <3>2
  <2>4. CASE e = new
    <3>1. st'[r] \in Waiting => Order[scope[r]] < Order[scope'[r]]
      BY <1>3 DEF Waiting
    <3> QED BY <1>2, <1>3, <2>1, <2>4, <3>1
  <2> QED BY <1>1, <2>2, <2>3, <2>4
<1>6. \A q, s : Passed(q, s) => Passed(q, s)'
  BY <1>1 DEF Passed
<1>7. \A s : s = scope[r] => Passed(r, s)'
  BY <1>1, <1>2 DEF Passed
<1>8. PassedInv'
  <2> SUFFICES ASSUME NEW q \in Requests
      PROVE  /\ \A s \in DOMAIN Rules : Order[s] < Order[scope'[q]] => Passed(q, s)'
             /\ st'[q] = "handled" =>
                  (\A s : s = scope'[q] => Passed(q, s)') /\ After(scope'[q]) = {}
    BY DEF PassedInv, After
  <2>1. CASE q # r
    <3>1. scope'[q] = scope[q] /\ st'[q] = st[q]
      BY <1>3, <2>1
    <3> QED BY <1>6, <3>1 DEF IInv, PassedInv
  <2>2. CASE q = r
    <3>1. ASSUME NEW s \in DOMAIN Rules, Order[s] < Order[scope'[r]] PROVE Passed(r, s)'
      <4>1. Order[s] <= Order[scope[r]]
        BY <1>3, <3>1
      <4>2. CASE Order[s] = Order[scope[r]]
        <5>1. s = scope[r]
          BY <1>2, <1>4, <4>2, Ranks
        <5> QED BY <1>7, <5>1
      <4>3. CASE Order[s] # Order[scope[r]]
        <5>1. Order[s] < Order[scope[r]]
          BY <1>2, <1>4, <4>1, <4>3
        <5> QED BY <1>6, <5>1 DEF IInv, PassedInv
      <4> QED BY <4>2, <4>3
    <3>2. ASSUME st'[r] = "handled" PROVE scope'[r] = scope[r] /\ After(scope[r]) = {}
      BY <1>3, <3>2
    <3> QED BY <1>7, <2>2, <3>1, <3>2
  <2> QED BY <2>1, <2>2
<1> QED BY <1>5, <1>8

\* ... and after it ended with a 429 or an error, counted or not.
LEMMA EndKeeps ==
  ASSUME IInv, NEW r \in Requests, st[r] = "sent", now' = now, Rejected(r),
         \/ \E how \in {"passed", "refused", "lost"} : Multi(r, how)
         \/ log' = log
  PROVE  LogInv' /\ PassedInv'
<1>1. /\ scope' = scope /\ st'[r] = "rejected"
      /\ \A q \in Requests \ {r} : st'[q] = st[q]
  BY DEF Rejected, IInv, StateOK
<1>2. PICK new : /\ log' \subseteq log \cup {new} /\ log \subseteq log'
                 /\ new \in log \/ (new.by = r /\ new.bucket = Mine(r) /\ new.at = now)
  <2>1. CASE log' = log /\ log = {}
    <3> DEFINE new == [bucket |-> Mine(r), by |-> r, at |-> now]
    <3>1. new.by = r /\ new.bucket = Mine(r) /\ new.at = now
      OBVIOUS
    <3> HIDE DEF new
    <3> QED BY <2>1, <3>1
  <2>2. CASE log' = log /\ log # {}
    BY <2>2
  <2>3. ASSUME NEW how, Multi(r, how)
        PROVE  \E new : /\ log' \subseteq log \cup {new} /\ log \subseteq log'
                        /\ new.by = r /\ new.bucket = Mine(r) /\ new.at = now
    <3> DEFINE new == [bucket |-> Mine(r), by |-> r, at |-> now, how |-> how]
    <3>1. log' = log \cup {new}
      BY <2>3 DEF Multi, Mine
    <3>2. new.by = r /\ new.bucket = Mine(r) /\ new.at = now
      OBVIOUS
    <3> HIDE DEF new
    <3> QED BY <3>1, <3>2
  <2> QED BY <2>1, <2>2, <2>3
<1>3. \A q, s : Passed(q, s) => Passed(q, s)'
  BY <1>2 DEF Passed
<1>4. PassedInv'
  <2> SUFFICES ASSUME NEW q \in Requests
      PROVE  /\ \A s \in DOMAIN Rules : Order[s] < Order[scope'[q]] => Passed(q, s)'
             /\ st'[q] = "handled" =>
                  (\A s : s = scope'[q] => Passed(q, s)') /\ After(scope'[q]) = {}
    BY DEF PassedInv, After
  <2>1. st'[q] = "handled" => st[q] = "handled"
    BY <1>1
  <2> QED BY <1>1, <1>3, <2>1 DEF IInv, PassedInv
<1>5. LogInv'
  <2> SUFFICES ASSUME NEW e \in log'
      PROVE  /\ e.at <= now
             /\ ScopeOf(e.bucket) \in DOMAIN Rules
             /\ Order[ScopeOf(e.bucket)] <= Order[scope[e.by]]
             /\ st'[e.by] \in Waiting => Order[ScopeOf(e.bucket)] < Order[scope[e.by]]
             /\ e.bucket = BucketOf(e.by, ScopeOf(e.bucket))
    BY <1>1 DEF LogInv
  <2>1. now \in Nat /\ "rejected" \notin Waiting
    BY DEF IInv, StateOK, Waiting
  <2>2. CASE e \in log
    <3>1. e.by \in Requests
      BY <2>2 DEF IInv, StateOK, Entry
    <3> QED BY <1>1, <2>1, <2>2, <3>1 DEF IInv, LogInv
  <2>3. CASE e.by = r /\ e.bucket = Mine(r) /\ e.at = now
    <3>1. ScopeOf(e.bucket) = scope[r] /\ scope[r] \in DOMAIN Rules /\ Order[scope[r]] \in {1, 2, 3}
      BY <2>3, NotYet, RuleFacts
    <3> QED BY <1>1, <2>1, <2>3, <3>1 DEF Mine
  <2> QED BY <1>2, <2>2, <2>3
<1> QED BY <1>4, <1>5

-----------------------------------------------------------------------------
(* Every step keeps the invariant.                                          *)

LEMMA InitKeeps == Init => IInv
<1> SUFFICES ASSUME Init PROVE IInv
  OBVIOUS
<1>1. FirstOf(DOMAIN Rules) \in DOMAIN Rules
      /\ \A s \in DOMAIN Rules : Order[FirstOf(DOMAIN Rules)] <= Order[s]
  BY RulesAssumption, FirstFacts
<1>2. IsFiniteSet({})
  BY FS_EmptySet
<1>3. StateOK
  BY <1>1, <1>2 DEF Init, StateOK, States, Waiting
<1>4. PipeInv
  BY DEF Init, PipeInv
<1>5. SentInv /\ LogInv /\ OnceInv /\ HeldInv /\ KeptInv /\ DropInv
  BY DEF Init, SentInv, LogInv, OnceInv, HeldInv, KeptInv, DropInv
<1>6. PassedInv
  <2>1. \A s \in DOMAIN Rules : ~(Order[s] < Order[FirstOf(DOMAIN Rules)])
    <3>1. \A s \in DOMAIN Rules : Order[s] \in {1, 2, 3}
      BY RuleFacts
    <3> QED BY <1>1, <3>1
  <2> QED BY <2>1 DEF Init, PassedInv
<1>7. BudgetHolds
  <2> SUFFICES ASSUME NEW b \in Buckets, NEW t \in 0 .. now, ScopeOf(b) \in DOMAIN Rules,
                      NEW length \in 0 .. Rules[ScopeOf(b)].duration - Spread
      PROVE  Cardinality({e \in Ran(b, t, length) : e.how = "passed"})
               <= Rules[ScopeOf(b)].points
    BY DEF BudgetHolds
  <2> DEFINE F == {e \in Ran(b, t, length) : e.how = "passed"}
             points == Rules[ScopeOf(b)].points
  <2>1. F = {}
    BY DEF Init, Ran
  <2>2. Cardinality(F) = 0 /\ points \in Nat
    BY <2>1, FS_EmptySet, RuleFacts
  <2>3. Cardinality(F) <= points
    <3> HIDE DEF F, points
    <3> QED BY <2>2
  <2> QED BY <2>3
<1>8. RefusalsAreEarned
  BY DEF Init, RefusalsAreEarned
<1> QED BY <1>3, <1>4, <1>5, <1>6, <1>7, <1>8 DEF IInv

\* Neither of the properties looks at anything but the time, the log and the
\* drops, and a drop excuses.
LEMMA CountsKeep ==
  ASSUME IInv, now' = now, log' = log, evicted \subseteq evicted'
  PROVE  OnceInv' /\ BudgetHolds' /\ RefusalsAreEarned'
<1>1. OnceInv' /\ RefusalsAreEarned'
  BY DEF IInv, OnceInv, RefusalsAreEarned, Ran, Spread
<1>2. \A b, t, length : Dropped(b, t, length) => Dropped(b, t, length)'
  BY DEF Dropped
<1>3. BudgetHolds'
  BY <1>2 DEF IInv, BudgetHolds, Ran, Spread
<1> QED BY <1>1, <1>3

LEMMA SendKeeps ==
  ASSUME IInv, NEW r \in Requests, Send(r)
  PROVE  IInv'
<1>1. /\ st[r] \in {"new", "between"} /\ st' = [st EXCEPT ![r] = "sent"]
      /\ stamp' = [stamp EXCEPT ![r] = now + ClockOf(r)]
      /\ sentAt' = [sentAt EXCEPT ![r] = now]
      /\ pipe' = [pipe EXCEPT ![Instance[r]] = Append(pipe[Instance[r]], r)]
      /\ UNCHANGED <<now, scope, bucket, expiry, log, evicted>>
  BY DEF Send, ClockOf
<1>2. now \in Nat /\ ClockOf(r) \in Int /\ Instance[r] \in Instances
  BY ClockFacts, PlacementAssumption DEF IInv, StateOK
<1>3. StateOK'
  BY <1>1, <1>2 DEF IInv, StateOK, States, Waiting
<1>4. PipeInv'
  <2> DEFINE i == Instance[r]
  <2>1. i \in Instances /\ pipe[i] \in Seq(Requests)
    BY <1>2 DEF IInv, PipeInv
  <2>2. pipe'[i] = Append(pipe[i], r) /\ \A j \in Instances \ {i} : pipe'[j] = pipe[j]
    BY <1>1, <2>1 DEF IInv, PipeInv
  <2>3. /\ Append(pipe[i], r) \in Seq(Requests) /\ Len(pipe[i]) \in Nat
        /\ Len(Append(pipe[i], r)) = Len(pipe[i]) + 1
        /\ Append(pipe[i], r)[Len(pipe[i]) + 1] = r
        /\ \A n \in 1 .. Len(pipe[i]) : Append(pipe[i], r)[n] = pipe[i][n]
    BY <2>1
  <2>4. pipe' \in [Instances -> Seq(Requests)]
    <3> HIDE DEF i
    <3>1. pipe' = [pipe EXCEPT ![i] = Append(pipe[i], r)]
      BY <1>1 DEF i
    <3> QED BY <2>3, <3>1 DEF IInv, PipeInv
  <2>5. \A j \in Instances : \A n \in 1 .. Len(pipe[j]) :
          pipe[j][n] # r /\ pipe[j][n] \in Requests
    BY <1>1 DEF IInv, PipeInv
  <2>6. st'[r] = "sent" /\ \A q \in Requests \ {r} : st'[q] = st[q]
    BY <1>1 DEF IInv, StateOK
  <2>7. ASSUME NEW j \in Instances, NEW n \in 1 .. Len(pipe'[j])
        PROVE  /\ st'[pipe'[j][n]] = "sent" /\ Instance[pipe'[j][n]] = j
               /\ \A m \in 1 .. Len(pipe'[j]) : pipe'[j][n] = pipe'[j][m] => n = m
    <3>1. CASE j = i
      <4>1. \A m \in 1 .. Len(pipe'[j]) :
              \/ m \in 1 .. Len(pipe[i]) /\ pipe'[j][m] = pipe[i][m]
              \/ m = Len(pipe[i]) + 1 /\ pipe'[j][m] = r
        <5> HIDE DEF i
        <5> QED BY <2>2, <2>3, <3>1
      <4>2. \A m \in 1 .. Len(pipe[i]) :
              /\ pipe[i][m] # r /\ st'[pipe[i][m]] = "sent" /\ Instance[pipe[i][m]] = i
              /\ \A k \in 1 .. Len(pipe[i]) : pipe[i][m] = pipe[i][k] => m = k
        <5> SUFFICES ASSUME NEW m \in 1 .. Len(pipe[i])
            PROVE  /\ pipe[i][m] # r /\ st'[pipe[i][m]] = "sent" /\ Instance[pipe[i][m]] = i
                   /\ \A k \in 1 .. Len(pipe[i]) : pipe[i][m] = pipe[i][k] => m = k
          OBVIOUS
        <5>1. pipe[i][m] # r /\ pipe[i][m] \in Requests
          BY <2>1, <2>5
        <5>2. /\ st[pipe[i][m]] = "sent" /\ Instance[pipe[i][m]] = i
              /\ \A k \in 1 .. Len(pipe[i]) : pipe[i][m] = pipe[i][k] => m = k
          BY <2>1 DEF IInv, PipeInv
        <5> QED BY <2>6, <5>1, <5>2
      <4>3. Instance[r] = i
        OBVIOUS
      <4> HIDE DEF i
      <4> QED BY <2>6, <3>1, <4>1, <4>2, <4>3
    <3>2. CASE j # i
      <4>1. pipe'[j] = pipe[j]
        BY <2>2, <3>2
      <4> QED BY <2>5, <2>6, <4>1 DEF IInv, PipeInv
    <3> QED BY <3>1, <3>2
  <2> QED BY <2>4, <2>7 DEF PipeInv
<1>5. SentInv'
  <2> SUFFICES ASSUME NEW q \in Requests, st'[q] = "sent"
      PROVE  /\ sentAt'[q] <= now /\ now <= sentAt'[q] + MaxDelay
             /\ stamp'[q] = sentAt'[q] + ClockOf(q)
    BY <1>1 DEF SentInv, ClockOf
  <2>1. CASE q = r
    <3>1. sentAt'[q] = now /\ stamp'[q] = now + ClockOf(q)
      BY <1>1, <2>1 DEF IInv, StateOK
    <3> QED BY <1>2, <3>1, SpreadFacts
  <2>2. CASE q # r
    <3>1. sentAt'[q] = sentAt[q] /\ stamp'[q] = stamp[q] /\ st[q] = "sent"
      BY <1>1, <2>2 DEF IInv, StateOK
    <3> QED BY <3>1 DEF IInv, SentInv
  <2> QED BY <2>1, <2>2
<1>6. \A q \in Requests : /\ st'[q] \in Waiting => st[q] \in Waiting
                          /\ st'[q] = "handled" => st[q] = "handled"
  BY <1>1 DEF IInv, StateOK, Waiting
<1>7. LogInv'
  <2>1. \A e \in log : e.by \in Requests
    BY DEF IInv, StateOK, Entry
  <2> QED BY <1>1, <1>6, <2>1 DEF IInv, LogInv
<1>8. PassedInv'
  BY <1>1, <1>6 DEF IInv, PassedInv, Passed, After
<1>9. HeldInv' /\ KeptInv' /\ DropInv'
  BY <1>1 DEF IInv, HeldInv, KeptInv, DropInv, Near, ClockOf, Recent, Gone, Duration, Spread
<1> QED BY <1>1, <1>3, <1>4, <1>5, <1>7, <1>8, <1>9, CountsKeep DEF IInv

\* No process can count an attempt on a key that Redis drops.
LEMMA TickKeeps ==
  ASSUME IInv, Tick
  PROVE  IInv'
<1>1. /\ now' = now + 1 /\ now \in Nat
      /\ \A r \in Requests : st[r] = "sent" => now - sentAt[r] < MaxDelay
      /\ bucket' = [b \in Buckets |-> IF expiry[b] <= now + 1 THEN {} ELSE bucket[b]]
      /\ expiry' = [b \in Buckets |-> IF expiry[b] <= now + 1 THEN 0 ELSE expiry[b]]
      /\ UNCHANGED <<st, scope, stamp, sentAt, pipe, log, evicted>>
  BY DEF Tick, IInv, StateOK
<1>2. IsFiniteSet({})
  BY FS_EmptySet
<1>3. StateOK'
  <2>1. bucket' \in [Buckets -> SUBSET Attempt] /\ expiry' \in [Buckets -> Nat]
    BY <1>1 DEF IInv, StateOK
  <2>2. \A b \in Buckets : IsFiniteSet(bucket'[b])
    BY <1>1, <1>2 DEF IInv, StateOK
  <2> QED BY <1>1, <2>1, <2>2 DEF IInv, StateOK
<1>4. PipeInv' /\ OnceInv' /\ PassedInv'
  BY <1>1 DEF IInv, PipeInv, OnceInv, PassedInv, Passed, After
<1>5. SentInv'
  <2> SUFFICES ASSUME NEW r \in Requests, st[r] = "sent"
      PROVE  /\ sentAt[r] <= now + 1 /\ now + 1 <= sentAt[r] + MaxDelay
             /\ stamp[r] = sentAt[r] + ClockOf(r)
    BY <1>1 DEF SentInv, ClockOf
  <2>1. sentAt[r] \in Nat /\ sentAt[r] <= now /\ stamp[r] = sentAt[r] + ClockOf(r)
    BY DEF IInv, StateOK, SentInv
  <2> QED BY <1>1, <2>1, SpreadFacts
<1>6. LogInv'
  <2>1. \A e \in log : e.at \in Nat
    BY DEF IInv, StateOK, Entry
  <2>2. \A e \in log : e.at <= now + 1
    BY <1>1, <2>1 DEF IInv, LogInv
  <2> QED BY <1>1, <2>2 DEF IInv, LogInv
<1>7. HeldInv'
  BY <1>1 DEF IInv, HeldInv, Near, ClockOf
<1>8. KeptInv'
  <2> SUFFICES ASSUME NEW e \in log, Recent(e, now + 1), ~Gone(e)
      PROVE  /\ \E a \in bucket'[e.bucket] : a.by = e.by
             /\ expiry'[e.bucket] >= e.at + Duration(e.bucket) + Slack
    BY <1>1 DEF KeptInv, Recent, Gone, Duration, Spread
  <2>1. e.bucket \in Buckets /\ e.at \in Nat /\ expiry[e.bucket] \in Nat
    BY DEF IInv, StateOK, Entry
  <2>2. Duration(e.bucket) \in Nat
    BY RuleFacts DEF IInv, LogInv, Duration
  <2>3. e.at > now + 1 - Duration(e.bucket) + Spread
    BY <1>1, <2>1, <2>2, SpreadFacts DEF Recent
  <2>4. Recent(e, now)
    BY <1>1, <2>1, <2>2, <2>3, SpreadFacts DEF Recent
  <2>5. /\ \E a \in bucket[e.bucket] : a.by = e.by
        /\ expiry[e.bucket] >= e.at + Duration(e.bucket) + Slack
    BY <2>4 DEF IInv, KeptInv
  <2>6. ~(expiry[e.bucket] <= now + 1)
    BY <1>1, <2>1, <2>2, <2>3, <2>5, SpreadFacts
  <2>7. bucket'[e.bucket] = bucket[e.bucket] /\ expiry'[e.bucket] = expiry[e.bucket]
    BY <1>1, <2>1, <2>6
  <2> QED BY <2>5, <2>7
<1>9. RefusalsAreEarned'
  BY <1>1 DEF IInv, RefusalsAreEarned, Ran, Spread
<1>10. BudgetHolds'
  <2> SUFFICES ASSUME NEW b \in Buckets, NEW t \in 0 .. now + 1, ScopeOf(b) \in DOMAIN Rules,
                      NEW length \in 0 .. Rules[ScopeOf(b)].duration - Spread,
                      ~Dropped(b, t, length)
      PROVE  Cardinality({e \in Ran(b, t, length) : e.how = "passed"})
               <= Rules[ScopeOf(b)].points
    BY <1>1 DEF BudgetHolds, Ran, Dropped, Spread
  <2> DEFINE points == Rules[ScopeOf(b)].points
             P(u, l) == {e \in Ran(b, u, l) : e.how = "passed"}
  <2>1. /\ points \in Nat /\ t \in Int
        /\ length \in Nat /\ Rules[ScopeOf(b)].duration - Spread \in Int
    BY <1>1, RuleFacts, SpreadFacts
  <2>2. \A u \in 0 .. now, l \in 0 .. Rules[ScopeOf(b)].duration - Spread :
          ~Dropped(b, u, l) => Cardinality(P(u, l)) <= points
    BY DEF IInv, BudgetHolds
  <2>3. CASE t \in 0 .. now
    <3> HIDE DEF P, points
    <3>1. Cardinality(P(t, length)) <= points
      BY <2>2, <2>3
    <3> QED BY <3>1 DEF P, points
  <2>4. CASE t = now + 1
    <3>1. \A e \in log : e.at \in Nat /\ e.at <= now
      BY DEF IInv, StateOK, LogInv, Entry
    <3>2. CASE length = 0
      <4>1. P(t, length) = {}
        BY <1>1, <2>4, <3>1, <3>2 DEF Ran
      <4>2. Cardinality(P(t, length)) <= points
        <5> HIDE DEF P, points
        <5> QED BY <2>1, <4>1, FS_EmptySet
      <4> QED BY <4>2
    <3>3. CASE length # 0
      <4> DEFINE l == length - 1
      <4>1. l \in Nat /\ l \in 0 .. Rules[ScopeOf(b)].duration - Spread /\ now \in 0 .. now
            /\ now - l = t - length
        BY <1>1, <2>1, <2>4, <3>3
      <4>2. P(t, length) \in SUBSET P(now, l)
        <5> HIDE DEF l
        <5> QED BY <1>1, <3>1, <4>1 DEF Ran
      <4>3. ~Dropped(b, now, l)
        <5>1. \A v \in evicted : v.at \in Nat
          BY DEF IInv, DropInv
        <5> HIDE DEF l
        <5> QED BY <1>1, <2>4, <4>1, <5>1 DEF Dropped
      <4>4. Cardinality(P(now, l)) <= points
        <5> HIDE DEF P, points, l
        <5> QED BY <2>2, <4>1, <4>3
      <4>5. IsFiniteSet(Ran(b, now, l))
        BY <1>1, <4>1, RanFacts DEF IInv
      <4>6. P(now, l) \in SUBSET Ran(b, now, l)
        OBVIOUS
      <4>7. IsFiniteSet(P(now, l))
        <5> HIDE DEF P, l
        <5> QED BY <4>5, <4>6, FS_Subset
      <4>8. IsFiniteSet(P(t, length)) /\ Cardinality(P(t, length)) <= Cardinality(P(now, l))
        <5> HIDE DEF P, l
        <5> QED BY <4>2, <4>7, FS_Subset
      <4>9. Cardinality(P(t, length)) <= points
        <5> HIDE DEF P, points, l
        <5>1. Cardinality(P(t, length)) \in Nat /\ Cardinality(P(now, l)) \in Nat
          BY <4>7, <4>8, FS_CardinalityType
        <5> QED BY <2>1, <4>4, <4>8, <5>1
      <4> HIDE DEF P, points
      <4> QED BY <4>9 DEF P, points
    <3> QED BY <3>2, <3>3
  <2>5. t \in 0 .. now \/ t = now + 1
    BY <1>1
  <2> QED BY <2>3, <2>4, <2>5
<1>11. DropInv'
  <2>1. \A v \in evicted : v.at \in Nat /\ v.at <= now
    BY DEF IInv, DropInv
  <2>2. \A v \in evicted : v.at <= now + 1
    BY <1>1, <2>1
  <2> QED BY <1>1, <2>2 DEF IInv, DropInv
<1> QED BY <1>3, <1>4, <1>5, <1>6, <1>7, <1>8, <1>9, <1>10, <1>11 DEF IInv

\* Redis drops a sorted set: what was spent on it is gone, up to now.
LEMMA EvictedKeeps ==
  ASSUME IInv, NEW b \in Buckets, Evicted(b)
  PROVE  IInv'
<1> DEFINE drop == [bucket |-> b, at |-> now]
<1>1. /\ bucket' = [bucket EXCEPT ![b] = {}] /\ expiry' = [expiry EXCEPT ![b] = 0]
      /\ evicted' = evicted \cup {drop}
      /\ UNCHANGED <<now, st, scope, stamp, sentAt, pipe, log>>
  BY DEF Evicted
<1>2. now \in Nat /\ drop.bucket = b /\ drop.at = now
  BY DEF IInv, StateOK
<1> HIDE DEF drop
<1>3. /\ bucket' \in [Buckets -> SUBSET Attempt] /\ expiry' \in [Buckets -> Nat]
      /\ \A c \in Buckets : bucket'[c] \subseteq bucket[c] /\ (c # b => bucket'[c] = bucket[c])
      /\ \A c \in Buckets : IsFiniteSet(bucket'[c])
  BY <1>1, FS_EmptySet DEF IInv, StateOK
<1>4. StateOK'
  BY <1>1, <1>3 DEF IInv, StateOK
<1>5. PipeInv' /\ SentInv' /\ LogInv' /\ PassedInv'
  BY <1>1 DEF IInv, PipeInv, SentInv, LogInv, PassedInv, Passed, After, ClockOf
<1>6. HeldInv'
  BY <1>1, <1>3 DEF IInv, HeldInv, Near, ClockOf
<1>7. KeptInv'
  <2> SUFFICES ASSUME NEW e \in log, Recent(e, now), ~(Gone(e)')
               PROVE  /\ \E a \in bucket'[e.bucket] : a.by = e.by
                      /\ expiry'[e.bucket] >= e.at + Duration(e.bucket) + Slack
    BY <1>1 DEF KeptInv, Recent, Duration, Spread
  <2>1. e.bucket \in Buckets /\ e.at <= now
    BY DEF IInv, StateOK, LogInv, Entry
  <2>2. ~Gone(e) /\ e.bucket # b
    BY <1>1, <1>2, <2>1 DEF Gone
  <2>3. bucket'[e.bucket] = bucket[e.bucket] /\ expiry'[e.bucket] = expiry[e.bucket]
    BY <1>1, <2>1, <2>2 DEF IInv, StateOK
  <2> QED BY <2>2, <2>3 DEF IInv, KeptInv
<1>8. DropInv'
  BY <1>1, <1>2 DEF IInv, DropInv
<1> QED BY <1>1, <1>4, <1>5, <1>6, <1>7, <1>8, CountsKeep DEF IInv

\* Redis runs a MULTI and the interceptor acts on its count.
LEMMA ExecKeeps ==
  ASSUME IInv, NEW i \in Instances, Exec(i)
  PROVE  IInv'
<1>1. pipe[i] # <<>> /\ Answered(i)
  BY DEF Exec
<1>2. Caller(i) \in Requests /\ st[Caller(i)] = "sent"
  BY <1>1, CallerFacts
<1>3. now' = now /\ evicted' = evicted
  BY <1>1 DEF Answered
<1>4. CASE Passes(Caller(i)) /\ Multi(Caller(i), "passed") /\ Proceeds(Caller(i))
  <2>1. scope' \in [Requests -> DOMAIN Rules]
        /\ \E next \in States \ {"sent"} : st' = [st EXCEPT ![Caller(i)] = next]
    BY <1>2, <1>4, ProceedsFacts DEF States, Waiting
  <2>2. st' \in [Requests -> States] /\ stamp' \in [Requests -> Int]
        /\ sentAt' \in [Requests -> Nat] /\ PipeInv' /\ SentInv'
    BY <1>1, <2>1, AnsweredKeeps
  <2>3. /\ bucket' \in [Buckets -> SUBSET Attempt] /\ expiry' \in [Buckets -> Nat]
        /\ log' \subseteq Entry /\ IsFiniteSet(log')
        /\ \A b \in Buckets : IsFiniteSet(bucket'[b])
        /\ OnceInv' /\ HeldInv' /\ KeptInv' /\ DropInv'
    BY <1>2, <1>3, <1>4, MultiKeeps
  <2>4. BudgetHolds' /\ RefusalsAreEarned'
    BY <1>2, <1>3, <1>4, MultiHolds, MultiEarned
  <2>5. LogInv' /\ PassedInv'
    BY <1>2, <1>3, <1>4, OnwardKeeps
  <2>6. StateOK'
    BY <1>3, <2>1, <2>2, <2>3 DEF IInv, StateOK
  <2> QED BY <2>2, <2>3, <2>4, <2>5, <2>6 DEF IInv
<1>5. CASE ~Passes(Caller(i)) /\ Multi(Caller(i), "refused") /\ Rejected(Caller(i))
  <2>1. scope' \in [Requests -> DOMAIN Rules]
        /\ \E next \in States \ {"sent"} : st' = [st EXCEPT ![Caller(i)] = next]
    BY <1>5 DEF Rejected, IInv, StateOK, States, Waiting
  <2>2. st' \in [Requests -> States] /\ stamp' \in [Requests -> Int]
        /\ sentAt' \in [Requests -> Nat] /\ PipeInv' /\ SentInv'
    BY <1>1, <2>1, AnsweredKeeps
  <2>3. /\ bucket' \in [Buckets -> SUBSET Attempt] /\ expiry' \in [Buckets -> Nat]
        /\ log' \subseteq Entry /\ IsFiniteSet(log')
        /\ \A b \in Buckets : IsFiniteSet(bucket'[b])
        /\ OnceInv' /\ HeldInv' /\ KeptInv' /\ DropInv'
    BY <1>2, <1>3, <1>5, MultiKeeps
  <2>4. BudgetHolds' /\ RefusalsAreEarned'
    BY <1>2, <1>3, <1>5, MultiHolds, MultiEarned
  <2>5. LogInv' /\ PassedInv'
    BY <1>2, <1>3, <1>5, EndKeeps
  <2>6. StateOK'
    BY <1>3, <2>1, <2>2, <2>3 DEF IInv, StateOK
  <2> QED BY <2>2, <2>3, <2>4, <2>5, <2>6 DEF IInv
<1> QED BY <1>4, <1>5 DEF Exec, Caller

\* The connection is lost, before or after Redis ran the MULTI.
LEMMA ExecFailsKeeps ==
  ASSUME IInv, NEW i \in Instances, ExecFails(i)
  PROVE  IInv'
<1>1. pipe[i] # <<>> /\ Answered(i) /\ Rejected(Caller(i))
      /\ (Multi(Caller(i), "lost") \/ UNCHANGED <<bucket, expiry, log>>)
  BY DEF ExecFails, Caller
<1>2. Caller(i) \in Requests /\ st[Caller(i)] = "sent"
  BY <1>1, CallerFacts
<1>3. now' = now /\ evicted' = evicted
  BY <1>1 DEF Answered
<1>4. scope' \in [Requests -> DOMAIN Rules]
      /\ \E next \in States \ {"sent"} : st' = [st EXCEPT ![Caller(i)] = next]
  BY <1>1 DEF Rejected, IInv, StateOK, States, Waiting
<1>5. st' \in [Requests -> States] /\ stamp' \in [Requests -> Int]
      /\ sentAt' \in [Requests -> Nat] /\ PipeInv' /\ SentInv'
  BY <1>1, <1>4, AnsweredKeeps
<1>6. LogInv' /\ PassedInv'
  BY <1>1, <1>2, <1>3, EndKeeps
<1>7. CASE Multi(Caller(i), "lost")
  <2>1. /\ bucket' \in [Buckets -> SUBSET Attempt] /\ expiry' \in [Buckets -> Nat]
        /\ log' \subseteq Entry /\ IsFiniteSet(log')
        /\ \A b \in Buckets : IsFiniteSet(bucket'[b])
        /\ OnceInv' /\ HeldInv' /\ KeptInv' /\ DropInv'
    BY <1>2, <1>3, <1>7, MultiKeeps
  <2>2. BudgetHolds' /\ RefusalsAreEarned'
    BY <1>2, <1>3, <1>7, MultiHolds, MultiEarned
  <2>3. StateOK'
    BY <1>3, <1>4, <1>5, <2>1 DEF IInv, StateOK
  <2> QED BY <1>5, <1>6, <2>1, <2>2, <2>3 DEF IInv
<1>8. CASE UNCHANGED <<bucket, expiry, log>>
  <2>1. StateOK'
    BY <1>3, <1>4, <1>5, <1>8 DEF IInv, StateOK
  <2>2. HeldInv' /\ KeptInv' /\ DropInv'
    BY <1>3, <1>8
       DEF IInv, HeldInv, KeptInv, DropInv, Near, ClockOf, Recent, Gone, Duration, Spread
  <2> QED BY <1>3, <1>5, <1>6, <1>8, <2>1, <2>2, CountsKeep DEF IInv
<1> QED BY <1>1, <1>7, <1>8

LEMMA NextKeeps ==
  ASSUME IInv, [Next]_vars
  PROVE  IInv'
<1>1. CASE Next
  BY <1>1, SendKeeps, ExecKeeps, ExecFailsKeeps, TickKeeps, EvictedKeeps DEF Next
<1>2. CASE UNCHANGED vars
  <2>1. /\ now' = now /\ st' = st /\ scope' = scope /\ stamp' = stamp /\ pipe' = pipe
        /\ bucket' = bucket /\ expiry' = expiry /\ sentAt' = sentAt /\ log' = log
        /\ evicted' = evicted
    BY <1>2 DEF vars
  <2>2. StateOK' /\ PipeInv' /\ SentInv'
    BY <2>1 DEF IInv, StateOK, PipeInv, SentInv, ClockOf
  <2>3. LogInv' /\ PassedInv'
    BY <2>1 DEF IInv, LogInv, PassedInv, Passed, After
  <2>4. HeldInv' /\ KeptInv' /\ DropInv'
    BY <2>1 DEF IInv, HeldInv, KeptInv, DropInv, Near, ClockOf, Recent, Gone, Duration, Spread
  <2> QED BY <2>1, <2>2, <2>3, <2>4, CountsKeep DEF IInv
<1> QED BY <1>1, <1>2

-----------------------------------------------------------------------------
(* The theorems.                                                            *)

\* The invariant behind the budgets: what consume and the interceptor maintain
\* in every state of every number of processes, clocks and requests.
THEOREM InductiveInvariant == Spec => []IInv
<1>1. Init => IInv
  BY InitKeeps
<1>2. IInv /\ [Next]_vars => IInv'
  BY NextKeeps
<1> QED BY <1>1, <1>2, PTL DEF Spec

\* consume lets no more requests pass a budget than it has points, over any
\* stretch of its duration less the delay and the skew of the clocks.
THEOREM Budget == Spec => []BudgetHolds
<1>1. IInv => BudgetHolds
  BY DEF IInv
<1> QED BY <1>1, InductiveInvariant, PTL

\* consume refuses only when more attempts than points ran within the duration,
\* give or take the delay and the skew.
THEOREM Earned == Spec => []RefusalsAreEarned
<1>1. IInv => RefusalsAreEarned
  BY DEF IInv
<1> QED BY <1>1, InductiveInvariant, PTL

\* intercept consumes the global budget first, charges each budget once, and runs
\* the handler only when every budget that applies let the request through.
THEOREM Ordered == Spec => []BudgetsInOrder
<1>1. IInv => BudgetsInOrder
  <2> SUFFICES ASSUME IInv, NEW r \in Requests
      PROVE  /\ \A e, f \in {g \in log : g.by = r} : e.bucket = f.bucket => e = f
             /\ \A e \in {g \in log : g.by = r} :
                  ScopeOf(e.bucket) # "global" /\ "global" \in DOMAIN Rules =>
                    Passed(r, "global")
             /\ st[r] = "handled" => \A s \in DOMAIN Rules : Passed(r, s)
    BY DEF BudgetsInOrder
  <2>1. \A e, f \in {g \in log : g.by = r} : e.bucket = f.bucket => e = f
    BY DEF IInv, OnceInv
  <2>2. scope[r] \in DOMAIN Rules /\ Order[scope[r]] \in {1, 2, 3}
        /\ \A s \in DOMAIN Rules : s \in Scopes /\ Order[s] \in {1, 2, 3}
    BY RuleFacts DEF IInv, StateOK
  <2>3. ASSUME NEW e \in log, e.by = r, ScopeOf(e.bucket) # "global", "global" \in DOMAIN Rules
        PROVE  Passed(r, "global")
    <3>1. ScopeOf(e.bucket) \in DOMAIN Rules /\ Order[ScopeOf(e.bucket)] <= Order[scope[r]]
      BY <2>3 DEF IInv, LogInv
    <3>2. Order[ScopeOf(e.bucket)] # 1 /\ Order["global"] = 1
      BY <2>2, <2>3, <3>1, Ranks
    <3>3. Order["global"] < Order[scope[r]]
      BY <2>2, <3>1, <3>2
    <3> QED BY <2>3, <3>3 DEF IInv, PassedInv
  <2>4. ASSUME st[r] = "handled", NEW s \in DOMAIN Rules PROVE Passed(r, s)
    <3>1. Passed(r, scope[r]) /\ ~(Order[scope[r]] < Order[s])
      BY <2>4 DEF IInv, PassedInv, After
    <3>2. CASE Order[s] = Order[scope[r]]
      BY <2>2, <3>1, <3>2, Ranks
    <3>3. CASE Order[s] # Order[scope[r]]
      <4>1. Order[s] < Order[scope[r]]
        BY <2>2, <3>1, <3>3
      <4> QED BY <4>1 DEF IInv, PassedInv
    <3> QED BY <3>2, <3>3
  <2> QED BY <2>1, <2>3, <2>4
<1> QED BY <1>1, InductiveInvariant, PTL

=============================================================================
