--------------------------- MODULE MCRateLimiter ---------------------------
(* Two processes, one a tick ahead, and two sessions of one user.           *)
EXTENDS RateLimiter

CONSTANTS r1, r2, r3, near, far, phone, laptop

MCInstance == [r \in {r1, r2, r3} |-> IF r \in {r1, r2} THEN near ELSE far]
MCSession == [r \in {r1, r2, r3} |-> IF r \in {r1, r3} THEN phone ELSE laptop]
MCClock == [i \in {near, far} |-> IF i = far THEN 1 ELSE 0]

MCRules == [global |-> [points |-> 2, duration |-> 4],
            session |-> [points |-> 1, duration |-> 3]]

\* r met a lost connection.
Failed(r) == st[r] = "rejected" /\ \A e \in log : e.by = r => e.how # "refused"

\* Bounds: either r1 meets a lost connection or, at tick DropsAt, Redis drops the
\* set of the global budget.
DropsAt == 3

MCNext ==
  /\ Next
  /\ \A r \in Requests : Failed(r)' => r = r1 /\ evicted' = {}
  /\ evicted' \subseteq {[bucket |-> "global", at |-> DropsAt]}

MCSpec == Init /\ [][MCNext]_vars

=============================================================================
