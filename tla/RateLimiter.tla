---------------------------- MODULE RateLimiter ----------------------------
(***************************************************************************)
(* The request budgets of one route for one signed-in user                  *)
(* (RateLimitInterceptor over RedisRateLimiterAdapter).                     *)
(*                                                                         *)
(* Each budget is a sliding window in a Redis sorted set.  consume takes    *)
(* its timestamp in the API process, then one MULTI trims the window, adds  *)
(* the attempt, counts and renews the key's expiry.  Between the stamp and  *)
(* the MULTI lies the network: one process sends its commands down one      *)
(* connection, in order, but several processes' commands interleave, and    *)
(* their clocks differ.  Redis at its memory limit may drop a whole set.     *)
(***************************************************************************)
EXTENDS Integers, Sequences, FiniteSets

CONSTANTS
  Instances,   \* the API processes
  Requests,    \* the user's requests to the route
  Instance,    \* Instance[r]: the process that serves request r
  Session,     \* Session[r]: the session request r carries
  Rules,       \* the budgets that apply: scope -> [points, duration]
  Clock,       \* Clock[i]: how far the clock of process i is ahead
  Skew,        \* bound on the difference of two clocks
  Slack,       \* the 5000 ms of PEXPIRE beyond the duration
  MaxDelay,    \* bound on the time from a stamp to its MULTI
  MaxTime      \* bound on the time modelled

Scopes == {"global", "user", "session"}

ASSUME RulesAssumption ==
  /\ DOMAIN Rules \subseteq Scopes /\ DOMAIN Rules # {}
  /\ \A s \in DOMAIN Rules :
       Rules[s].points \in Nat \ {0} /\ Rules[s].duration \in Nat \ {0}
ASSUME PlacementAssumption ==
  /\ Instance \in [Requests -> Instances]
  /\ Clock \in [Instances -> Int]
  /\ \A i, j \in Instances : Clock[i] - Clock[j] <= Skew
ASSUME SessionAssumption ==
  \A r \in Requests : Session[r] \notin {"global", "user"}
ASSUME BoundsAssumption ==
  Skew \in Nat /\ Slack \in Nat /\ MaxDelay \in Nat /\ MaxTime \in Nat

VARIABLES
  now,        \* real time
  st,         \* st[r]: "new", "sent", "between" two budgets, "handled", "rejected"
  scope,      \* scope[r]: the budget r is consuming, or has consumed last
  stamp,      \* stamp[r]: the timestamp of its current attempt
  pipe,       \* pipe[i]: the requests whose MULTI process i has sent, in order
  bucket,     \* bucket[b]: the sorted set of b, attempts [stamp, by]
  expiry,     \* expiry[b]: when Redis drops the key of b
  \* The last three only observe.
  sentAt,     \* sentAt[r]: the real time of its stamp
  log,        \* the attempts Redis has run: [bucket, by, at, how]
  evicted     \* the sets Redis has dropped before their time: [bucket, at]

vars == <<now, st, scope, stamp, pipe, bucket, expiry, sentAt, log, evicted>>

\* The keys: rl:<route>:user:<id>, rl:user:<id>:<route>, rl:session:<id>:<route>.
Buckets == {"global", "user"} \cup {Session[r] : r \in Requests}

BucketOf(r, s) == IF s = "session" THEN Session[r] ELSE s

ScopeOf(b) == IF b \in {"global", "user"} THEN b ELSE "session"

\* Variant of Order: the scoped budgets are consumed first.
OrderScopedFirst == [user |-> 1, session |-> 2, global |-> 3]

\* The order in which intercept consumes the budgets.
Order == [global |-> 1, user |-> 2, session |-> 3]

FirstOf(scopes) ==
  CHOOSE s \in scopes : \A t \in scopes : Order[s] <= Order[t]

\* The budgets that apply after s.
After(s) == {t \in DOMAIN Rules : Order[s] < Order[t]}

Init ==
  /\ now = 0
  /\ st = [r \in Requests |-> "new"]
  /\ scope = [r \in Requests |-> FirstOf(DOMAIN Rules)]
  /\ stamp = [r \in Requests |-> 0]
  /\ sentAt = [r \in Requests |-> 0]
  /\ pipe = [i \in Instances |-> <<>>]
  /\ bucket = [b \in Buckets |-> {}]
  /\ expiry = [b \in Buckets |-> 0]
  /\ log = {}
  /\ evicted = {}

-----------------------------------------------------------------------------
\* consume up to tx.exec(): stamp the attempt and send the MULTI.
Send(r) ==
  /\ st[r] \in {"new", "between"}
  /\ st' = [st EXCEPT ![r] = "sent"]
  /\ stamp' = [stamp EXCEPT ![r] = now + Clock[Instance[r]]]
  /\ sentAt' = [sentAt EXCEPT ![r] = now]
  /\ pipe' = [pipe EXCEPT ![Instance[r]] = Append(@, r)]
  /\ UNCHANGED <<now, scope, bucket, expiry, log, evicted>>

\* Variant of InWindow whose cutoff is half the duration.
InHalfWindow(a, at, duration) == a.stamp > at - (duration \div 2)

\* Survives ZREMRANGEBYSCORE 0 .. at - duration, whose end is inclusive.
InWindow(a, at, duration) == a.stamp > at - duration

\* Variant of Blocked that refuses the last point of the budget.
BlockedEarly(count, points) == count >= points

Blocked(count, points) == count > points

\* PEXPIRE duration + 5000, on Redis's own clock.
Expiry(duration) == now + duration + Slack

\* The sorted set after ZREMRANGEBYSCORE and ZADD of r's attempt.
Kept(r) ==
  {a \in bucket[BucketOf(r, scope[r])] :
     InWindow(a, stamp[r], Rules[scope[r]].duration)}
    \cup {[stamp |-> stamp[r], by |-> r]}

\* Redis runs the MULTI of r.
Multi(r, how) ==
  LET b == BucketOf(r, scope[r])
  IN  /\ bucket' = [bucket EXCEPT ![b] = Kept(r)]
      /\ expiry' = [expiry EXCEPT ![b] = Expiry(Rules[scope[r]].duration)]
      /\ log' = log \cup {[bucket |-> b, by |-> r, at |-> now, how |-> how]}

Passes(r) == ~Blocked(Cardinality(Kept(r)), Rules[scope[r]].points)

\* The next budget, or the handler.
Proceeds(r) ==
  \/ /\ After(scope[r]) # {}
     /\ st' = [st EXCEPT ![r] = "between"]
     /\ scope' = [scope EXCEPT ![r] = FirstOf(After(scope[r]))]
  \/ /\ After(scope[r]) = {}
     /\ st' = [st EXCEPT ![r] = "handled"]
     /\ UNCHANGED scope

Rejected(r) == st' = [st EXCEPT ![r] = "rejected"] /\ UNCHANGED scope

\* The call at the head of the connection of i is over, its locals are gone.
Answered(i) ==
  /\ pipe' = [pipe EXCEPT ![i] = Tail(@)]
  /\ stamp' = [stamp EXCEPT ![Head(pipe[i])] = 0]
  /\ sentAt' = [sentAt EXCEPT ![Head(pipe[i])] = 0]
  /\ UNCHANGED <<now, evicted>>

\* Redis runs the MULTI at the head of the connection of process i, and the
\* interceptor acts on the count: on it goes, or a 429.
Exec(i) ==
  /\ pipe[i] # <<>>
  /\ LET r == Head(pipe[i])
     IN  \/ Passes(r) /\ Multi(r, "passed") /\ Proceeds(r)
         \/ ~Passes(r) /\ Multi(r, "refused") /\ Rejected(r)
  /\ Answered(i)

\* The connection is lost: exec rejects and the request ends with a 500; Redis
\* may have run the MULTI.
ExecFails(i) ==
  /\ pipe[i] # <<>>
  /\ LET r == Head(pipe[i])
     IN  /\ Multi(r, "lost") \/ UNCHANGED <<bucket, expiry, log>>
         /\ Rejected(r)
  /\ Answered(i)

\* Time passes; Redis drops the keys whose expiry has come.
Tick ==
  /\ now < MaxTime
  /\ \A r \in Requests : st[r] = "sent" => now - sentAt[r] < MaxDelay
  /\ now' = now + 1
  /\ bucket' = [b \in Buckets |-> IF expiry[b] <= now' THEN {} ELSE bucket[b]]
  /\ expiry' = [b \in Buckets |-> IF expiry[b] <= now' THEN 0 ELSE expiry[b]]
  /\ UNCHANGED <<st, scope, stamp, sentAt, pipe, log, evicted>>

\* Redis at its memory limit drops the key of b (maxmemory-policy allkeys-lru),
\* or was restarted without it.
Evicted(b) ==
  /\ bucket[b] # {}
  /\ bucket' = [bucket EXCEPT ![b] = {}]
  /\ expiry' = [expiry EXCEPT ![b] = 0]
  /\ evicted' = evicted \cup {[bucket |-> b, at |-> now]}
  /\ UNCHANGED <<now, st, scope, stamp, sentAt, pipe, log>>

Next ==
  \/ \E r \in Requests : Send(r)
  \/ \E i \in Instances : Exec(i) \/ ExecFails(i)
  \/ \E b \in Buckets : Evicted(b)
  \/ Tick

Spec == Init /\ [][Next]_vars

-----------------------------------------------------------------------------
\* How far two stamps may be out of step with the times Redis runs them.
Spread == MaxDelay + Skew

\* The attempts on b that Redis ran in the `length` ticks that end with t.
Ran(b, t, length) == {e \in log : e.bucket = b /\ t - length < e.at /\ e.at <= t}

\* The set of b was dropped in the `length` ticks that end with t.
Dropped(b, t, length) ==
  \E v \in evicted : v.bucket = b /\ t - length < v.at /\ v.at <= t

\* No interval of real time, of the duration less the delay and the clock skew
\* between processes, sees more requests pass a budget than it has points:
\* neither attempts whose stamps arrive out of order, nor the trim of a process
\* whose clock runs ahead, nor the key's expiry frees points early.  What was
\* spent is forgotten only by a key that Redis drops, and only up to then: the
\* budget holds again of every interval that begins after it.
BudgetHolds ==
  \A b \in Buckets, t \in 0 .. now : ScopeOf(b) \in DOMAIN Rules =>
    LET rule == Rules[ScopeOf(b)]
    IN  \A length \in 0 .. rule.duration - Spread : ~Dropped(b, t, length) =>
          Cardinality({e \in Ran(b, t, length) : e.how = "passed"}) <= rule.points

\* Nobody is refused for nothing: when a budget refuses, more attempts than it
\* has points ran on it within the duration, give or take delay and skew.  An
\* attempt is not held against the user for longer.
RefusalsAreEarned ==
  \A e \in log : e.how = "refused" =>
    LET rule == Rules[ScopeOf(e.bucket)]
    IN  Cardinality(Ran(e.bucket, e.at, rule.duration + Spread)) > rule.points

\* r passed its budget of scope s.
Passed(r, s) == \E e \in log : e.by = r /\ ScopeOf(e.bucket) = s /\ e.how = "passed"

\* "The global budget is consumed first, so a request already over it never
\* touches the per-user or per-session buckets": a refused request leaves no
\* trace in the budgets after the one that refused it, the handler runs only
\* when all of them let the request through, and each is charged once.
BudgetsInOrder ==
  \A r \in Requests :
    LET mine == {e \in log : e.by = r}
    IN  /\ \A e, f \in mine : e.bucket = f.bucket => e = f
        /\ \A e \in mine : ScopeOf(e.bucket) # "global" /\ "global" \in DOMAIN Rules =>
             Passed(r, "global")
        /\ st[r] = "handled" => \A s \in DOMAIN Rules : Passed(r, s)

=============================================================================
