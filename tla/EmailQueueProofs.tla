-------------------------- MODULE EmailQueueProofs --------------------------
(* Proofs about EmailQueue, for any e-mails, finitely many workers and any   *)
(* numbers of attempts and stalls.                                           *)
EXTENDS EmailQueue, FiniteSetTheorems, TLAPS

-----------------------------------------------------------------------------
(* The inductive invariant.                                                *)

\* Before its operation has called sendAuthEmail an e-mail is nowhere.
StartInv ==
  \A m \in Mails : operation[m] \in {"idle", "sending"} =>
    /\ job[m] = "none" /\ accepted[m] = 0
    /\ \A w \in Workers : work[w].mail # m

\* A lock is held on an active job only.
LockInv == \A m \in Mails : lock[m] # Nobody => job[m] = "active"

\* The calls of the provider that may still come without another stall: those of
\* workers that have not called it with success, and that of a queued job.
Pending(m) ==
  {w \in Workers : work[w].mail = m /\ work[w].at \in {"send", "threw"}}
    \cup (IF job[m] \in {"waiting", "delayed"} THEN {Nobody} ELSE {})

\* How often a job came back from a worker that had lost it: its last stall
\* gives it up.
Returns(m) == IF stalls[m] <= MaxStalled THEN stalls[m] ELSE MaxStalled

CopyInv == \A m \in Mails : accepted[m] + Cardinality(Pending(m)) <= 1 + Returns(m)

\* A job that is not done with has an attempt left.
AttemptInv ==
  \A m \in Mails :
    job[m] \in {"none", "waiting", "delayed", "active"} => made[m] < AllAttempts

IInv == TypeOK /\ StartInv /\ LockInv /\ CopyInv /\ AttemptInv /\ GivenUpAfterAll

-----------------------------------------------------------------------------
(* Types                                                                    *)

\* TypeOK is inductive by itself: every action of the queue keeps it.
LEMMA TypeStep ==
  ASSUME TypeOK, [Next]_vars
  PROVE  TypeOK'
  <1> USE DEF TypeOK, Idle, Stages
  <1>1. ASSUME NEW m \in Mails, Ask(m) \/ Callback(m)
        PROVE  TypeOK'
    BY <1>1 DEF Ask, Callback, SendAuthEmail, SendAuthEmailFails, ApiDies, Enqueue,
                AfterSendError
  <1>2. ASSUME NEW m \in Mails,
               BackoffEnds(m) \/ LockExpires(m) \/ TakenBack(m) \/ Evicted(m)
        PROVE  TypeOK'
    BY <1>2, QueueAssumption DEF BackoffEnds, LockExpires, TakenBack, Evicted
  <1>3. ASSUME NEW m \in Mails, NEW w \in Workers, Take(w, m)
        PROVE  TypeOK'
    BY <1>3 DEF Take
  <1>4. ASSUME NEW w \in Workers, Send(w) \/ SendThrows(w)
        PROVE  TypeOK'
    <2>1. work[w].mail \in Mails
      BY <1>4, QueueAssumption DEF Send, SendThrows
    <2>2. QED
      BY <1>4, <2>1 DEF Send, SendThrows, SendAnswered, Rethrown, Reaches
  <1>5. ASSUME NEW w \in Workers, Completes(w) \/ Fails(w) \/ WorkerDies(w)
        PROVE  TypeOK'
    <2>1. work[w].mail \in Mails
      BY <1>5 DEF Completes, Fails, WorkerDies
    <2>2. QED
      BY <1>5, <2>1 DEF Completes, Fails, WorkerDies, Release, Holds
  <1>6. CASE UNCHANGED vars
    BY <1>6 DEF vars
  <1>7. QED
    BY <1>1, <1>2, <1>3, <1>4, <1>5, <1>6 DEF Next, Process

-----------------------------------------------------------------------------
(* Locks and beginnings                                                     *)

LEMMA LockStep ==
  ASSUME TypeOK, LockInv, StartInv, [Next]_vars
  PROVE  LockInv'
  <1> USE DEF TypeOK, LockInv, Idle, Stages
  <1>1. ASSUME NEW m \in Mails, Ask(m) \/ Callback(m)
        PROVE  LockInv'
    BY <1>1 DEF Ask, Callback, SendAuthEmail, SendAuthEmailFails, ApiDies, Enqueue, StartInv
  <1>2. ASSUME NEW m \in Mails,
               BackoffEnds(m) \/ LockExpires(m) \/ TakenBack(m) \/ Evicted(m)
        PROVE  LockInv'
    BY <1>2 DEF BackoffEnds, LockExpires, TakenBack, Evicted
  <1>3. ASSUME NEW m \in Mails, NEW w \in Workers, Take(w, m)
        PROVE  LockInv'
    BY <1>3 DEF Take
  <1>4. ASSUME NEW w \in Workers, Send(w) \/ SendThrows(w)
        PROVE  LockInv'
    BY <1>4 DEF Send, SendThrows
  <1>5. ASSUME NEW w \in Workers, Completes(w) \/ Fails(w) \/ WorkerDies(w)
        PROVE  LockInv'
    <2>1. work[w].mail \in Mails
      BY <1>5 DEF Completes, Fails, WorkerDies
    <2>2. QED
      BY <1>5, <2>1 DEF Completes, Fails, WorkerDies, Release, Holds
  <1>6. CASE UNCHANGED vars
    BY <1>6 DEF vars
  <1>7. QED
    BY <1>1, <1>2, <1>3, <1>4, <1>5, <1>6 DEF Next, Process

LEMMA StartStep ==
  ASSUME TypeOK, StartInv, LockInv, [Next]_vars
  PROVE  StartInv'
  <1> USE DEF TypeOK, StartInv, Idle, Stages
  <1>1. ASSUME NEW m \in Mails, Ask(m) \/ Callback(m)
        PROVE  StartInv'
    BY <1>1 DEF Ask, Callback, SendAuthEmail, SendAuthEmailFails, ApiDies, Enqueue,
                AfterSendError
  <1>2. ASSUME NEW m \in Mails,
               BackoffEnds(m) \/ LockExpires(m) \/ TakenBack(m) \/ Evicted(m)
        PROVE  StartInv'
    BY <1>2 DEF BackoffEnds, LockExpires, TakenBack, Evicted
  <1>3. ASSUME NEW m \in Mails, NEW w \in Workers, Take(w, m)
        PROVE  StartInv'
    BY <1>3 DEF Take
  <1>4. ASSUME NEW w \in Workers, Send(w) \/ SendThrows(w)
        PROVE  StartInv'
    <2>1. work[w].mail \in Mails
      BY <1>4 DEF Send, SendThrows
    <2>2. QED
      BY <1>4, <2>1 DEF Send, SendThrows, SendAnswered, Rethrown, Reaches
  <1>5. ASSUME NEW w \in Workers, Completes(w) \/ Fails(w) \/ WorkerDies(w)
        PROVE  StartInv'
    <2>1. work[w].mail \in Mails
      BY <1>5 DEF Completes, Fails, WorkerDies
    <2>2. \A v \in Workers : work'[v] = work[v] \/ work'[v].mail = NoMail
      BY <1>5 DEF Completes, Fails, WorkerDies, Release
    <2>3. operation' = operation /\ accepted' = accepted
      BY <1>5 DEF Completes, Fails, WorkerDies
    <2>4. \A m \in Mails : m # work[w].mail => job'[m] = job[m]
      BY <1>5, <2>1 DEF Completes, Fails, WorkerDies
    <2>5. QED
      BY <2>1, <2>2, <2>3, <2>4, QueueAssumption
  <1>6. CASE UNCHANGED vars
    BY <1>6 DEF vars
  <1>7. QED
    BY <1>1, <1>2, <1>3, <1>4, <1>5, <1>6 DEF Next, Process

-----------------------------------------------------------------------------
(* Attempts                                                                 *)

LEMMA GiveUpStep ==
  ASSUME TypeOK, StartInv, LockInv, AttemptInv, GivenUpAfterAll, [Next]_vars
  PROVE  AttemptInv' /\ GivenUpAfterAll'
  <1> USE DEF TypeOK, AttemptInv, GivenUpAfterAll, Idle, Stages
  <1>0. AllAttempts \in Nat /\ 0 < AllAttempts
    BY QueueAssumption DEF AllAttempts
  <1>1. ASSUME NEW m \in Mails, Ask(m) \/ Callback(m)
        PROVE  AttemptInv' /\ GivenUpAfterAll'
    BY <1>0, <1>1
      DEF StartInv, Ask, Callback, SendAuthEmail, SendAuthEmailFails, ApiDies, Enqueue
  <1>2. ASSUME NEW m \in Mails,
               BackoffEnds(m) \/ LockExpires(m) \/ TakenBack(m) \/ Evicted(m)
        PROVE  AttemptInv' /\ GivenUpAfterAll'
    BY <1>0, <1>2, QueueAssumption DEF BackoffEnds, LockExpires, TakenBack, Evicted
  <1>3. ASSUME NEW m \in Mails, NEW w \in Workers, Take(w, m)
        PROVE  AttemptInv' /\ GivenUpAfterAll'
    BY <1>0, <1>3 DEF Take
  <1>4. ASSUME NEW w \in Workers, Send(w) \/ SendThrows(w)
        PROVE  AttemptInv' /\ GivenUpAfterAll'
    BY <1>0, <1>4 DEF Send, SendThrows
  <1>5. ASSUME NEW w \in Workers, Completes(w) \/ WorkerDies(w)
        PROVE  AttemptInv' /\ GivenUpAfterAll'
    BY <1>0, <1>5 DEF Completes, WorkerDies
  <1>6. ASSUME NEW w \in Workers, Fails(w)
        PROVE  AttemptInv' /\ GivenUpAfterAll'
    <2> DEFINE m == work[w].mail
    <2>1. m \in Mails
      BY <1>6 DEF Fails
    <2>2. CASE Holds(w)
      <3>1. made[m] < AllAttempts
        BY <2>1, <2>2, QueueAssumption DEF Holds, LockInv
      <3>2. /\ made' = [made EXCEPT ![m] = @ + 1]
            /\ job' = [job EXCEPT ![m] =
                         IF made[m] + 1 < RetryAttempts THEN "delayed" ELSE "failed"]
            /\ stalls' = stalls
        BY <1>6, <2>2 DEF Fails, JobAttempts
      <3>3. made[m] + 1 >= RetryAttempts => made[m] + 1 = AllAttempts
        BY <2>1, <3>1, QueueAssumption DEF AllAttempts
      <3>4. made[m] + 1 < RetryAttempts => made[m] + 1 < AllAttempts
        BY <2>1, QueueAssumption DEF AllAttempts
      <3>5. QED
        BY <1>0, <2>1, <3>1, <3>2, <3>3, <3>4, QueueAssumption
    <2>3. CASE ~Holds(w)
      BY <1>0, <1>6, <2>3 DEF Fails
    <2>4. QED
      BY <2>2, <2>3
  <1>7. CASE UNCHANGED vars
    BY <1>0, <1>7 DEF vars
  <1>8. QED
    BY <1>1, <1>2, <1>3, <1>4, <1>5, <1>6, <1>7 DEF Next, Process

-----------------------------------------------------------------------------
(* Copies                                                                   *)

LEMMA FewerElements ==
  ASSUME NEW S, NEW T, IsFiniteSet(S), T \subseteq S
  PROVE  /\ Cardinality(S) \in Nat /\ Cardinality(T) \in Nat
         /\ Cardinality(T) <= Cardinality(S)
  BY FS_Subset, FS_CardinalityType

LEMMA ElementTaken ==
  ASSUME NEW S, NEW T, NEW x \in S, IsFiniteSet(S), T \subseteq S \ {x}
  PROVE  /\ Cardinality(S) \in Nat /\ Cardinality(T) \in Nat
         /\ Cardinality(T) + 1 <= Cardinality(S)
  <1>1. /\ IsFiniteSet(S \ {x})
        /\ Cardinality(S \ {x}) = Cardinality(S) - 1
    BY FS_RemoveElement
  <1>2. /\ Cardinality(S \ {x}) \in Nat /\ Cardinality(T) \in Nat
        /\ Cardinality(T) <= Cardinality(S \ {x})
    BY <1>1, FewerElements
  <1>3. Cardinality(S) \in Nat
    BY FS_CardinalityType
  <1>4. QED
    BY <1>1, <1>2, <1>3

LEMMA ElementAdded ==
  ASSUME NEW S, NEW T, NEW y, IsFiniteSet(S), T \subseteq S \cup {y}
  PROVE  /\ Cardinality(S) \in Nat /\ Cardinality(T) \in Nat
         /\ Cardinality(T) <= Cardinality(S) + 1
  <1>0. Cardinality(S) \in Nat
    BY FS_CardinalityType
  <1>1. /\ IsFiniteSet(S \cup {y})
        /\ Cardinality(S \cup {y}) = IF y \in S THEN Cardinality(S) ELSE Cardinality(S) + 1
    BY FS_AddElement
  <1>2. /\ Cardinality(S \cup {y}) \in Nat /\ Cardinality(T) \in Nat
        /\ Cardinality(T) <= Cardinality(S \cup {y})
    BY <1>1, FewerElements
  <1>3. QED
    BY <1>0, <1>1, <1>2

LEMMA ElementExchanged ==
  ASSUME NEW S, NEW T, NEW x \in S, NEW y, IsFiniteSet(S), T \subseteq (S \ {x}) \cup {y}
  PROVE  /\ Cardinality(S) \in Nat /\ Cardinality(T) \in Nat
         /\ Cardinality(T) <= Cardinality(S)
  <1>1. /\ IsFiniteSet(S \ {x})
        /\ Cardinality(S \ {x}) + 1 <= Cardinality(S)
        /\ Cardinality(S) \in Nat /\ Cardinality(S \ {x}) \in Nat
    BY ElementTaken, FS_RemoveElement
  <1>2. Cardinality(T) \in Nat /\ Cardinality(T) <= Cardinality(S \ {x}) + 1
    BY <1>1, ElementAdded
  <1>3. QED
    BY <1>1, <1>2

LEMMA PendingFinite ==
  ASSUME NEW m
  PROVE  IsFiniteSet(Pending(m))
  <1>1. Pending(m) \subseteq Workers \cup {Nobody}
    BY DEF Pending
  <1>2. QED
    BY <1>1, QueueAssumption, FS_AddElement, FS_Subset

\* A step that makes no call of m pending and sends nothing.
LEMMA NoMorePending ==
  ASSUME TypeOK, TypeOK', CopyInv, NEW m \in Mails,
         Pending(m)' \subseteq Pending(m), accepted'[m] = accepted[m], stalls'[m] >= stalls[m]
  PROVE  accepted'[m] + Cardinality(Pending(m)') <= 1 + Returns(m)'
  <1>1. /\ Cardinality(Pending(m)) \in Nat /\ Cardinality(Pending(m)') \in Nat
        /\ Cardinality(Pending(m)') <= Cardinality(Pending(m))
    BY PendingFinite, FewerElements
  <1>2. /\ accepted[m] \in Nat /\ Returns(m) \in Nat /\ Returns(m)' \in Nat
        /\ Returns(m) <= Returns(m)'
    BY QueueAssumption DEF TypeOK, Returns
  <1>3. accepted[m] + Cardinality(Pending(m)) <= 1 + Returns(m)
    BY DEF CopyInv
  <1>4. QED
    BY <1>1, <1>2, <1>3

LEMMA CopyStep ==
  ASSUME TypeOK, TypeOK', StartInv, LockInv, CopyInv, [Next]_vars
  PROVE  CopyInv'
  <1> SUFFICES ASSUME NEW m \in Mails
               PROVE  accepted'[m] + Cardinality(Pending(m)') <= 1 + Returns(m)'
    BY DEF CopyInv
  <1> DEFINE Same == Pending(m)' \subseteq Pending(m) /\ accepted'[m] = accepted[m]
                       /\ stalls'[m] >= stalls[m]
  <1>a. /\ stalls[m] \in Nat /\ stalls'[m] \in Nat
        /\ Returns(m) \in Nat /\ Returns(m)' \in Nat
        /\ stalls'[m] = stalls[m] => Returns(m)' = Returns(m)
        /\ accepted[m] \in Nat /\ accepted'[m] \in Nat
        /\ accepted[m] + Cardinality(Pending(m)) <= 1 + Returns(m)
        /\ IsFiniteSet(Pending(m)) /\ Cardinality(Pending(m)) \in Nat
    BY PendingFinite, FS_CardinalityType, QueueAssumption DEF TypeOK, CopyInv, Returns
  <1>b. Same => accepted'[m] + Cardinality(Pending(m)') <= 1 + Returns(m)'
    BY NoMorePending
  <1> HIDE DEF Same
  <1>1. ASSUME NEW n \in Mails, Ask(n) \/ Callback(n)
        PROVE  accepted'[m] + Cardinality(Pending(m)') <= 1 + Returns(m)'
    <2>1. /\ UNCHANGED <<accepted, stalls, work>>
          /\ \A k \in Mails \ {n} : job'[k] = job[k]
      BY <1>1 DEF TypeOK, Ask, Callback, SendAuthEmail, SendAuthEmailFails, ApiDies, Enqueue
    <2>2. CASE m # n \/ job'[m] = job[m]
      <3>1. Same
        BY <2>1, <2>2, <1>a DEF Same, Pending
      <3>2. QED
        BY <3>1, <1>b
    <2>3. CASE m = n /\ job'[m] # job[m]
      <3>1. operation[m] = "sending"
        BY <1>1, <2>3 DEF Ask, Callback, SendAuthEmail, SendAuthEmailFails, ApiDies
      <3>2. accepted[m] = 0 /\ \A w \in Workers : work[w].mail # m
        BY <3>1 DEF StartInv
      <3>3. Pending(m)' \subseteq {} \cup {Nobody}
        BY <2>1, <3>2 DEF Pending
      <3>4. Cardinality(Pending(m)') \in Nat /\ Cardinality(Pending(m)') <= 0 + 1
        BY <3>3, FS_EmptySet, ElementAdded
      <3>5. QED
        BY <1>a, <2>1, <3>2, <3>4
    <2>4. QED
      BY <2>2, <2>3
  <1>2. ASSUME NEW n \in Mails, BackoffEnds(n) \/ LockExpires(n) \/ Evicted(n)
        PROVE  accepted'[m] + Cardinality(Pending(m)') <= 1 + Returns(m)'
    <2>1. Same
      BY <1>2, <1>a DEF Same, TypeOK, BackoffEnds, LockExpires, Evicted, Pending
    <2>2. QED
      BY <2>1, <1>b
  <1>3. ASSUME NEW n \in Mails, TakenBack(n)
        PROVE  accepted'[m] + Cardinality(Pending(m)') <= 1 + Returns(m)'
    <2>1. CASE m # n
      <3>1. Same
        BY <1>3, <2>1, <1>a DEF Same, TypeOK, TakenBack, Pending
      <3>2. QED
        BY <3>1, <1>b
    <2>2. CASE m = n
      <3>1. stalls'[m] = stalls[m] + 1 /\ accepted'[m] = accepted[m]
        BY <1>3, <2>2 DEF TypeOK, TakenBack
      <3>2. CASE stalls[m] < MaxStalled
        <4>1. Pending(m)' \subseteq Pending(m) \cup {Nobody}
          BY <1>3 DEF TakenBack, Pending
        <4>2. Cardinality(Pending(m)') \in Nat
              /\ Cardinality(Pending(m)') <= Cardinality(Pending(m)) + 1
          BY <1>a, <4>1, ElementAdded
        <4>3. Returns(m)' = Returns(m) + 1
          BY <1>a, <3>1, <3>2, QueueAssumption DEF Returns
        <4>4. QED
          BY <1>a, <3>1, <4>2, <4>3
      <3>3. CASE ~(stalls[m] < MaxStalled)
        <4>1. job'[m] = "failed" /\ work' = work
          BY <1>3, <2>2, <3>3 DEF TypeOK, TakenBack
        <4>2. Same
          BY <1>a, <3>1, <4>1 DEF Same, Pending
        <4>3. QED
          BY <4>2, <1>b
      <3>4. QED
        BY <3>2, <3>3
    <2>3. QED
      BY <2>1, <2>2
  <1>4. ASSUME NEW n \in Mails, NEW w \in Workers, Take(w, n)
        PROVE  accepted'[m] + Cardinality(Pending(m)') <= 1 + Returns(m)'
    <2>1. /\ accepted'[m] = accepted[m] /\ stalls'[m] = stalls[m]
          /\ job' = [job EXCEPT ![n] = "active"] /\ job[n] = "waiting"
          /\ work' = [work EXCEPT ![w] = [mail |-> n, at |-> "send"]]
      BY <1>4 DEF Take
    <2>2. CASE m # n
      <3>1. Same
        BY <2>1, <2>2, <1>a DEF Same, TypeOK, Pending
      <3>2. QED
        BY <3>1, <1>b
    <2>3. CASE m = n
      <3>1. Nobody \in Pending(m)
        BY <2>1, <2>3 DEF Pending
      <3>2. Pending(m)' \subseteq (Pending(m) \ {Nobody}) \cup {w}
        BY <2>1, <2>3, QueueAssumption DEF TypeOK, Pending
      <3>3. Cardinality(Pending(m)') \in Nat
            /\ Cardinality(Pending(m)') <= Cardinality(Pending(m))
        BY <1>a, <3>1, <3>2, ElementExchanged
      <3>4. QED
        BY <1>a, <2>1, <3>3
    <2>4. QED
      BY <2>2, <2>3
  <1>5. ASSUME NEW w \in Workers, Send(w)
        PROVE  accepted'[m] + Cardinality(Pending(m)') <= 1 + Returns(m)'
    <2>1. /\ work[w].at = "send" /\ work[w].mail \in Mails
          /\ work' = [work EXCEPT ![w].at = "returned"]
          /\ job' = job /\ stalls' = stalls
          /\ accepted' \in {accepted, [accepted EXCEPT ![work[w].mail] = @ + 1]}
      BY <1>5 DEF TypeOK, Idle, Send, SendAnswered, Reaches
    <2>2. CASE accepted'[m] = accepted[m]
      <3>1. Same
        BY <2>1, <2>2, <1>a DEF Same, TypeOK, Pending, Idle
      <3>2. QED
        BY <3>1, <1>b
    <2>3. CASE accepted'[m] # accepted[m]
      <3>1. m = work[w].mail /\ accepted'[m] = accepted[m] + 1
        BY <2>1, <2>3 DEF TypeOK
      <3>2. w \in Pending(m) /\ Pending(m)' \subseteq Pending(m) \ {w}
        BY <2>1, <3>1, QueueAssumption DEF TypeOK, Pending, Idle
      <3>3. Cardinality(Pending(m)') \in Nat
            /\ Cardinality(Pending(m)') + 1 <= Cardinality(Pending(m))
        BY <1>a, <3>2, ElementTaken
      <3>4. QED
        BY <1>a, <2>1, <3>1, <3>3
    <2>4. QED
      BY <2>2, <2>3
  <1>6. ASSUME NEW w \in Workers, SendThrows(w) \/ Completes(w) \/ WorkerDies(w)
        PROVE  accepted'[m] + Cardinality(Pending(m)') <= 1 + Returns(m)'
    <2>1. Same
      <3>1. /\ accepted' = accepted /\ stalls' = stalls
            /\ job'[m] \in {job[m], "completed"}
        BY <1>6 DEF SendThrows, Completes, WorkerDies, TypeOK
      <3>2. \A v \in Workers :
              work'[v].mail = m /\ work'[v].at \in {"send", "threw"} =>
                work[v].mail = m /\ work[v].at \in {"send", "threw"}
        BY <1>6, QueueAssumption
          DEF SendThrows, Rethrown, Reaches, Completes, WorkerDies, Release, TypeOK, Idle
      <3>3. QED
        BY <3>1, <3>2, <1>a DEF Same, Pending
    <2>2. QED
      BY <2>1, <1>b
  <1>7. ASSUME NEW w \in Workers, Fails(w)
        PROVE  accepted'[m] + Cardinality(Pending(m)') <= 1 + Returns(m)'
    <2>1. /\ work[w].at = "threw" /\ work[w].mail \in Mails
          /\ work' = [work EXCEPT ![w] = Idle]
          /\ accepted' = accepted /\ stalls' = stalls
          /\ \A n \in Mails \ {work[w].mail} : job'[n] = job[n]
      BY <1>7 DEF TypeOK, Idle, Fails, Release
    <2>2. CASE m # work[w].mail
      <3>1. Same
        BY <2>1, <2>2, <1>a, QueueAssumption DEF Same, TypeOK, Pending, Idle
      <3>2. QED
        BY <3>1, <1>b
    <2>3. CASE m = work[w].mail
      <3>1. w \in Pending(m) /\ Pending(m)' \subseteq (Pending(m) \ {w}) \cup {Nobody}
        BY <2>1, <2>3, QueueAssumption DEF TypeOK, Pending, Idle
      <3>2. Cardinality(Pending(m)') \in Nat
            /\ Cardinality(Pending(m)') <= Cardinality(Pending(m))
        BY <1>a, <3>1, ElementExchanged
      <3>3. QED
        BY <1>a, <2>1, <3>2
    <2>4. QED
      BY <2>2, <2>3
  <1>8. CASE UNCHANGED vars
    <2>1. Same
      BY <1>8, <1>a DEF Same, vars, Pending
    <2>2. QED
      BY <2>1, <1>b
  <1>9. QED
    BY <1>1, <1>2, <1>3, <1>4, <1>5, <1>6, <1>7, <1>8 DEF Next, Process

-----------------------------------------------------------------------------
(* The promise                                                              *)

\* What one step of the queue does to one e-mail is a move of MailPromise, and
\* it does nothing to the others.
LEMMA MailMoves ==
  ASSUME TypeOK, StartInv, LockInv, NEW m \in Mails,
         operation'[m] # operation[m] \/ job'[m] # job[m],
         Fate(m)' # Fate(m),
         \/ Ask(m) \/ Callback(m) \/ BackoffEnds(m) \/ TakenBack(m) \/ Evicted(m)
         \/ \E w \in Workers : Take(w, m)
         \/ \E w \in Workers : work[w].mail = m /\ (Completes(w) \/ Fails(w))
  PROVE  <<Fate(m), Fate(m)'>> \in Promise!Moves /\ Fate(m)' \in Promise!Fates
  <1> USE DEF TypeOK, Fate, Promise!Moves, Promise!Fates
  <1>1. CASE Ask(m) \/ Callback(m)
    BY <1>1 DEF StartInv, Ask, Callback, SendAuthEmail, SendAuthEmailFails, ApiDies,
                Enqueue, AfterSendError
  <1>2. CASE BackoffEnds(m) \/ TakenBack(m) \/ Evicted(m)
    BY <1>2 DEF StartInv, BackoffEnds, TakenBack, Evicted
  <1>3. CASE \E w \in Workers : Take(w, m)
    BY <1>3 DEF StartInv, Take
  <1>4. CASE \E w \in Workers : work[w].mail = m /\ Completes(w)
    BY <1>4 DEF StartInv, LockInv, Completes, Holds
  <1>5. CASE \E w \in Workers : work[w].mail = m /\ Fails(w)
    BY <1>5 DEF StartInv, LockInv, Fails, Holds
  <1>6. QED
    BY <1>1, <1>2, <1>3, <1>4, <1>5

FateOf == [m \in Mails |-> Fate(m)]

\* A step that touches one e-mail only, and moves its fate or leaves it.
LEMMA OneMoves ==
  ASSUME NEW m \in Mails,
         \A n \in Mails \ {m} : Fate(n)' = Fate(n),
         \/ Fate(m)' = Fate(m)
         \/ <<Fate(m), Fate(m)'>> \in Promise!Moves /\ Fate(m)' \in Promise!Fates
  PROVE  [Promise!Next]_FateOf
  <1>1. CASE Fate(m)' = Fate(m)
    BY <1>1 DEF FateOf
  <1>2. CASE <<Fate(m), Fate(m)'>> \in Promise!Moves /\ Fate(m)' \in Promise!Fates
    <2>1. FateOf' = [FateOf EXCEPT ![m] = Fate(m)']
      BY DEF FateOf
    <2>2. <<FateOf[m], Fate(m)'>> \in Promise!Moves
      BY <1>2 DEF FateOf
    <2>3. Promise!Move(m, Fate(m)')
      BY <2>1, <2>2 DEF Promise!Move, FateOf
    <2>4. QED
      BY <1>2, <2>3 DEF Promise!Next
  <1>3. QED
    BY <1>1, <1>2

\* Where neither the operation nor the job moves, the fate does not.
LEMMA SameFate ==
  ASSUME NEW m \in Mails, operation'[m] = operation[m], job'[m] = job[m]
  PROVE  Fate(m)' = Fate(m)
  BY DEF Fate

\* Every step of the queue moves at most one e-mail, and as the promise allows.
LEMMA QueueRefines ==
  ASSUME TypeOK, StartInv, LockInv, [Next]_vars
  PROVE  [Promise!Next]_FateOf
  <1>1. ASSUME operation' = operation, job' = job
        PROVE  [Promise!Next]_FateOf
    BY <1>1, SameFate DEF FateOf
  <1>2. ASSUME NEW m \in Mails,
               \/ Ask(m) \/ Callback(m) \/ BackoffEnds(m) \/ TakenBack(m) \/ Evicted(m)
               \/ \E w \in Workers : Take(w, m)
               \/ \E w \in Workers : work[w].mail = m /\ (Completes(w) \/ Fails(w))
        PROVE  [Promise!Next]_FateOf
    <2>1. \A n \in Mails \ {m} : operation'[n] = operation[n] /\ job'[n] = job[n]
      BY <1>2 DEF TypeOK, Ask, Callback, SendAuthEmail, SendAuthEmailFails, ApiDies, Enqueue,
                  BackoffEnds, TakenBack, Evicted, Take, Completes, Fails
    <2>2. \A n \in Mails \ {m} : Fate(n)' = Fate(n)
      BY <2>1, SameFate
    <2>3. CASE operation'[m] = operation[m] /\ job'[m] = job[m]
      BY <2>2, <2>3, SameFate, OneMoves
    <2>4. CASE Fate(m)' = Fate(m)
      BY <2>2, <2>4, OneMoves
    <2>5. CASE (operation'[m] # operation[m] \/ job'[m] # job[m]) /\ Fate(m)' # Fate(m)
      <3>1. <<Fate(m), Fate(m)'>> \in Promise!Moves /\ Fate(m)' \in Promise!Fates
        BY <1>2, <2>5, MailMoves
      <3>2. QED
        BY <2>2, <3>1, OneMoves
    <2>6. QED
      BY <2>3, <2>4, <2>5
  <1>3. ASSUME NEW m \in Mails, LockExpires(m)
        PROVE  [Promise!Next]_FateOf
    BY <1>1, <1>3 DEF LockExpires
  <1>4. ASSUME NEW w \in Workers, Send(w) \/ SendThrows(w) \/ WorkerDies(w)
        PROVE  [Promise!Next]_FateOf
    BY <1>1, <1>4 DEF Send, SendThrows, WorkerDies
  <1>5. ASSUME NEW w \in Workers, Completes(w) \/ Fails(w)
        PROVE  [Promise!Next]_FateOf
    <2>1. work[w].mail \in Mails
      BY <1>5 DEF TypeOK, Idle, Completes, Fails
    <2>2. QED
      BY <1>2, <1>5, <2>1
  <1>6. CASE UNCHANGED vars
    BY <1>1, <1>6 DEF vars
  <1>7. QED
    BY <1>2, <1>3, <1>4, <1>5, <1>6 DEF Next, Process

-----------------------------------------------------------------------------
(* Theorems                                                                 *)

\* Nothing is queued, sent or counted at the beginning.
LEMMA InitIInv == Init => IInv
  <1> SUFFICES ASSUME Init PROVE IInv
    OBVIOUS
  <1>1. TypeOK /\ StartInv /\ LockInv /\ AttemptInv /\ GivenUpAfterAll
    BY QueueAssumption
       DEF Init, TypeOK, StartInv, LockInv, AttemptInv, GivenUpAfterAll, AllAttempts, Idle
  <1>2. \A m \in Mails : Pending(m) = {}
    BY QueueAssumption DEF Init, Pending, Idle
  <1>3. CopyInv
    <2> SUFFICES ASSUME NEW m \in Mails
                 PROVE  accepted[m] + Cardinality(Pending(m)) <= 1 + Returns(m)
      BY DEF CopyInv
    <2>1. Returns(m) = 0
      BY QueueAssumption DEF Init, Returns
    <2>2. accepted[m] = 0 /\ Cardinality(Pending(m)) = 0
      BY <1>2, FS_EmptySet DEF Init
    <2>3. QED
      BY <2>1, <2>2
  <1>4. QED
    BY <1>1, <1>3 DEF IInv

\* The invariant that carries the others: the copies the provider took and those
\* still pending are within one more than the stalls (sendEmail, process).
THEOREM InductiveInvariant == Spec => []IInv
  <1>1. IInv /\ [Next]_vars => IInv'
    BY TypeStep, StartStep, LockStep, CopyStep, GiveUpStep DEF IInv
  <1>2. QED
    BY InitIInv, <1>1, PTL DEF Spec

\* The type invariant of the queue, for any e-mails, workers and attempts.
THEOREM TypeCorrect == Spec => []TypeOK
  <1>1. IInv => TypeOK
    BY DEF IInv
  <1>2. QED
    BY <1>1, InductiveInvariant, PTL

\* Retries never send an e-mail twice; only workers lost with a job do
\* (EmailProcessor.process), each at most once, and no more than MaxStalled of
\* them.
THEOREM Copies == Spec => []CopiesAreStalls
  <1>1. IInv => CopiesAreStalls
    <2> SUFFICES ASSUME IInv, NEW m \in Mails
                 PROVE  accepted[m] <= 1 + stalls[m] /\ accepted[m] <= 1 + MaxStalled
      BY DEF CopiesAreStalls
    <2>1. accepted[m] \in Nat /\ stalls[m] \in Nat
      BY DEF IInv, TypeOK
    <2>2. Cardinality(Pending(m)) \in Nat
      BY PendingFinite, FS_CardinalityType
    <2>3. accepted[m] + Cardinality(Pending(m)) <= 1 + Returns(m)
      BY DEF IInv, CopyInv
    <2>4. /\ Returns(m) \in Nat
          /\ Returns(m) <= stalls[m] /\ Returns(m) <= MaxStalled
      BY <2>1, QueueAssumption DEF Returns
    <2>5. QED
      BY <2>1, <2>2, <2>3, <2>4, QueueAssumption
  <1>2. QED
    BY <1>1, InductiveInvariant, PTL

\* No job is given up while attempts are left (sendEmail's attempts), however
\* often it was taken back in between, and none gets more than that.
THEOREM GivenUp == Spec => []GivenUpAfterAll
  <1>1. IInv => GivenUpAfterAll
    BY DEF IInv
  <1>2. QED
    BY <1>1, InductiveInvariant, PTL

\* The safety half of ImplementsMailPromise: from the beginning, and with every
\* step, the queue does with an e-mail what MailPromise allows.
THEOREM KeepsPromise == Spec => Promise!Init /\ [][Promise!Next]_FateOf
  <1>1. Init => Promise!Init
    BY DEF Init, Promise!Init, Fate
  <1>2. IInv /\ [Next]_vars => [Promise!Next]_FateOf
    BY QueueRefines DEF IInv
  <1>3. QED
    BY <1>1, <1>2, InductiveInvariant, PTL DEF Spec

-----------------------------------------------------------------------------
(* Where retries keep the word of AuthEmailService.                         *)

\* An answer of the provider, taken by send() for a success, is one: what the
\* code would have to make sure of, and does not (it never looks at the error
\* in the answer of emails.send).
AnswersMeanTaken ==
  \A w \in Workers :
    work[w].at = "send" /\ work'[w].at = "returned" => accepted' # accepted

\* A worker has returned only from an e-mail that was taken.
ReturnedInv ==
  \A w \in Workers : work[w].at = "returned" => accepted[work[w].mail] > 0

LEMMA ReturnedStep ==
  ASSUME TypeOK, ReturnedInv, ErrorsAreRetried, [Next]_vars, [AnswersMeanTaken]_vars
  PROVE  ReturnedInv' /\ ErrorsAreRetried'
  <1> USE DEF TypeOK, ReturnedInv, ErrorsAreRetried, Idle, Stages
  <1>1. ASSUME NEW m \in Mails, Ask(m) \/ Callback(m)
        PROVE  ReturnedInv' /\ ErrorsAreRetried'
    BY <1>1 DEF Ask, Callback, SendAuthEmail, SendAuthEmailFails, ApiDies, Enqueue
  <1>2. ASSUME NEW m \in Mails,
               BackoffEnds(m) \/ LockExpires(m) \/ TakenBack(m) \/ Evicted(m)
        PROVE  ReturnedInv' /\ ErrorsAreRetried'
    BY <1>2 DEF BackoffEnds, LockExpires, TakenBack, Evicted
  <1>3. ASSUME NEW m \in Mails, NEW w \in Workers, Take(w, m)
        PROVE  ReturnedInv' /\ ErrorsAreRetried'
    BY <1>3 DEF Take
  <1>4. ASSUME NEW w \in Workers, Send(w)
        PROVE  ReturnedInv' /\ ErrorsAreRetried'
    <2>1. /\ work[w].at = "send" /\ work[w].mail \in Mails
          /\ work' = [work EXCEPT ![w].at = "returned"]
          /\ job' = job
          /\ accepted' \in {accepted, [accepted EXCEPT ![work[w].mail] = @ + 1]}
      BY <1>4 DEF Send, SendAnswered, Reaches
    <2>2. accepted' # accepted
      BY <2>1 DEF AnswersMeanTaken, vars
    <2>3. \A m \in Mails : accepted'[m] >= accepted[m]
      BY <2>1
    <2>4. accepted'[work[w].mail] > 0
      BY <2>1, <2>2
    <2>5. \A v \in Workers : work'[v].mail = work[v].mail
      BY <2>1
    <2>6. ReturnedInv'
      BY <2>1, <2>3, <2>4, <2>5
    <2>7. ErrorsAreRetried'
      BY <2>1, <2>3
    <2>8. QED
      BY <2>6, <2>7
  <1>5. ASSUME NEW w \in Workers, SendThrows(w)
        PROVE  ReturnedInv' /\ ErrorsAreRetried'
    BY <1>5 DEF SendThrows, Rethrown, Reaches
  <1>6. ASSUME NEW w \in Workers, Completes(w) \/ Fails(w) \/ WorkerDies(w)
        PROVE  ReturnedInv' /\ ErrorsAreRetried'
    <2>1. /\ work' = [work EXCEPT ![w] = Idle] /\ accepted' = accepted
          /\ work[w].mail \in Mails
      BY <1>6 DEF Completes, Fails, WorkerDies, Release
    <2>2. ReturnedInv'
      BY <2>1
    <2>3. \A m \in Mails :
            job'[m] = "completed" =>
              job[m] = "completed" \/ (m = work[w].mail /\ work[w].at = "returned")
      BY <1>6, <2>1 DEF Completes, Fails, WorkerDies
    <2>4. QED
      BY <2>1, <2>2, <2>3
  <1>7. CASE UNCHANGED vars
    BY <1>7 DEF vars
  <1>8. QED
    BY <1>1, <1>2, <1>3, <1>4, <1>5, <1>6, <1>7 DEF Next, Process

\* What AuthEmailService says of its queue ("transient provider errors are
\* retried there") is true of every run in which the answers of the provider
\* mean what ResendEmailProvider takes them for, whatever workers and Redis do:
\* the unread error is all that ErrorsAreRetried is broken by.
THEOREM RetriedWhereRead ==
  Spec /\ [][AnswersMeanTaken]_vars => []ErrorsAreRetried
  <1>1. Init => ReturnedInv /\ ErrorsAreRetried
    BY DEF Init, ReturnedInv, ErrorsAreRetried, Idle
  <1>2. TypeOK /\ ReturnedInv /\ ErrorsAreRetried /\ [Next]_vars /\ [AnswersMeanTaken]_vars
          => ReturnedInv' /\ ErrorsAreRetried'
    BY ReturnedStep
  <1>3. QED
    BY <1>1, <1>2, TypeCorrect, PTL DEF Spec
=============================================================================
