----------------------------- MODULE EmailQueue -----------------------------
(***************************************************************************)
(* The e-mails of authentication operations (sign-up, password reset,       *)
(* change of address): Better Auth's callback hands one to AuthEmailService, *)
(* which puts a job into the BullMQ queue "email"; a worker takes the job,   *)
(* loads the template and calls Resend; BullMQ counts attempts, waits        *)
(* between them, and takes back the jobs of workers that stopped.           *)
(*                                                                         *)
(* Better Auth, BullMQ, Redis and Resend are external.  Of an e-mail only    *)
(* its identity is kept; accepted[m] counts the copies the provider took.   *)
(***************************************************************************)
EXTENDS Naturals, FiniteSets

CONSTANTS
  Mails,            \* the e-mails that operations ask for
  Workers,          \* EmailProcessor, one job at a time in each process
  RetryAttempts,    \* NOTIFY_EMAIL_RETRY_ATTEMPTS, 0 included
  DefaultAttempts,  \* the attempts of defaultJobOptions (queue.module.ts)
  MaxStalled,       \* BullMQ: how often a job may be taken back
  Nobody,           \* no worker holds the lock
  NoMail            \* a worker without a job

ASSUME QueueAssumption ==
  /\ RetryAttempts \in Nat
  /\ DefaultAttempts \in Nat
  /\ MaxStalled \in Nat
  /\ IsFiniteSet(Workers) /\ Nobody \notin Workers
  /\ NoMail \notin Mails

VARIABLES
  operation,   \* operation[m]: the authentication operation behind m
  job,         \* job[m]: the state of its job in BullMQ
  made,        \* made[m]: attemptsMade
  stalls,      \* stalls[m]: how often the job was taken back
  lock,        \* lock[m]: the worker that holds the job's lock
  work,        \* work[w]: the job of worker w, and how far process() has come
  accepted     \* accepted[m]: the copies the provider took

vars == <<operation, job, made, stalls, lock, work, accepted>>

Idle == [mail |-> NoMail, at |-> "idle"]

Stages == {"send", "returned", "threw"}

Init ==
  /\ operation = [m \in Mails |-> "idle"]
  /\ job = [m \in Mails |-> "none"]
  /\ made = [m \in Mails |-> 0]
  /\ stalls = [m \in Mails |-> 0]
  /\ lock = [m \in Mails |-> Nobody]
  /\ work = [w \in Workers |-> Idle]
  /\ accepted = [m \in Mails |-> 0]

-----------------------------------------------------------------------------
(* The authentication operation *)

\* Better Auth has committed its change and awaits the e-mail callback.
Ask(m) ==
  /\ operation[m] = "idle"
  /\ operation' = [operation EXCEPT ![m] = "sending"]
  /\ UNCHANGED <<job, made, stalls, lock, work, accepted>>

Enqueue(m) == job' = [job EXCEPT ![m] = "waiting"]

\* sendAuthEmail: the subject is translated, the job added, the callback ends.
SendAuthEmail(m) ==
  /\ operation[m] = "sending"
  /\ Enqueue(m)
  /\ operation' = [operation EXCEPT ![m] = "ok"]
  /\ UNCHANGED <<made, stalls, lock, work, accepted>>

\* Variant of AfterSendError: the error is thrown into Better Auth.
AfterSendErrorThrown(m) == "failed"

\* The error is logged and swallowed.
AfterSendError(m) == "ok"

\* The translation or the call to Redis rejects; Redis may have run the call.
SendAuthEmailFails(m) ==
  /\ operation[m] = "sending"
  /\ Enqueue(m) \/ UNCHANGED job
  /\ operation' = [operation EXCEPT ![m] = AfterSendError(m)]
  /\ UNCHANGED <<made, stalls, lock, work, accepted>>

\* The process stops between the commit of the operation and its answer.
ApiDies(m) ==
  /\ operation[m] = "sending"
  /\ Enqueue(m) \/ UNCHANGED job
  /\ operation' = [operation EXCEPT ![m] = "cut"]
  /\ UNCHANGED <<made, stalls, lock, work, accepted>>

-----------------------------------------------------------------------------
(* The worker *)

Take(w, m) ==
  /\ work[w] = Idle
  /\ job[m] = "waiting"
  /\ job' = [job EXCEPT ![m] = "active"]
  /\ lock' = [lock EXCEPT ![m] = w]
  /\ work' = [work EXCEPT ![w] = [mail |-> m, at |-> "send"]]
  /\ UNCHANGED <<operation, made, stalls, accepted>>

Reaches(w, at) == work' = [work EXCEPT ![w].at = at]

\* ResendEmailProvider and process() log what they catch and throw it on.
Rethrown(w) == Reaches(w, "threw")

\* Variant of SendAnswered: an error in the result is thrown.
SendAnsweredChecked(w, error) ==
  IF error THEN Rethrown(w) ELSE Reaches(w, "returned")

\* The result of emails.send is not looked at.
SendAnswered(w, error) == Reaches(w, "returned")

\* The template is loaded and resend.emails.send resolves, with an error in the
\* result when the API refused or the connection failed, in which case the
\* e-mail may still have been taken.
Send(w) ==
  /\ work[w].at = "send"
  /\ \E error, taken \in BOOLEAN :
       /\ error \/ taken
       /\ SendAnswered(w, error)
       /\ accepted' = IF taken
                      THEN [accepted EXCEPT ![work[w].mail] = @ + 1] ELSE accepted
  /\ UNCHANGED <<operation, job, made, stalls, lock>>

\* loadTemplate finds no file, or emails.send rejects before anything has left.
SendThrows(w) ==
  /\ work[w].at = "send"
  /\ Rethrown(w)
  /\ UNCHANGED <<operation, job, made, stalls, lock, accepted>>

\* BullMQ accepts a result only from the worker that holds the lock.
Holds(w) == lock[work[w].mail] = w

\* Variant of Release: the worker keeps what it was working on.
ReleaseKeepingMail(w) ==
  /\ work' = [work EXCEPT ![w].at = "idle"]
  /\ lock' = IF Holds(w) THEN [lock EXCEPT ![work[w].mail] = Nobody] ELSE lock

\* The worker is free again, and with it a lock that it still holds.
Release(w) ==
  /\ work' = [work EXCEPT ![w] = Idle]
  /\ lock' = IF Holds(w) THEN [lock EXCEPT ![work[w].mail] = Nobody] ELSE lock

Completes(w) ==
  /\ work[w].at = "returned"
  /\ Release(w)
  /\ job' = IF Holds(w) THEN [job EXCEPT ![work[w].mail] = "completed"] ELSE job
  /\ UNCHANGED <<operation, made, stalls, accepted>>

\* Variant of JobAttempts: the job is added without attempts of its own.
JobAttemptsDefault == DefaultAttempts

JobAttempts == RetryAttempts

\* Another attempt is due while fewer than `attempts` were made, this included.
Fails(w) ==
  LET m == work[w].mail IN
  /\ work[w].at = "threw"
  /\ Release(w)
  /\ IF Holds(w)
     THEN /\ made' = [made EXCEPT ![m] = @ + 1]
          /\ job' = [job EXCEPT ![m] =
                       IF made[m] + 1 < JobAttempts THEN "delayed" ELSE "failed"]
     ELSE UNCHANGED <<made, job>>
  /\ UNCHANGED <<operation, stalls, accepted>>

\* The exponential back-off is over.
BackoffEnds(m) ==
  /\ job[m] = "delayed"
  /\ job' = [job EXCEPT ![m] = "waiting"]
  /\ UNCHANGED <<operation, made, stalls, lock, work, accepted>>

WorkerDies(w) ==
  /\ work[w] # Idle
  /\ Release(w)
  /\ UNCHANGED <<operation, job, made, stalls, accepted>>

\* The worker lives but has not renewed its lock in time.
LockExpires(m) ==
  /\ lock[m] # Nobody
  /\ lock' = [lock EXCEPT ![m] = Nobody]
  /\ UNCHANGED <<operation, job, made, stalls, work, accepted>>

\* Variant of TakenBack: nobody looks for stalled jobs.
TakenBackNever(m) == FALSE

\* BullMQ's check for stalled jobs: back to the queue, or failed for good.
TakenBack(m) ==
  /\ job[m] = "active" /\ lock[m] = Nobody
  /\ stalls' = [stalls EXCEPT ![m] = @ + 1]
  /\ job' = [job EXCEPT ![m] = IF stalls[m] < MaxStalled THEN "waiting" ELSE "failed"]
  /\ UNCHANGED <<operation, made, lock, work, accepted>>

\* Redis at its memory limit drops the job (maxmemory-policy allkeys-lru).
Evicted(m) ==
  /\ job[m] \in {"waiting", "delayed", "active"}
  /\ job' = [job EXCEPT ![m] = "evicted"]
  /\ lock' = [lock EXCEPT ![m] = Nobody]
  /\ UNCHANGED <<operation, made, stalls, work, accepted>>

-----------------------------------------------------------------------------
Process(w) ==
  Send(w) \/ SendThrows(w) \/ Completes(w) \/ Fails(w)

Callback(m) == SendAuthEmail(m) \/ SendAuthEmailFails(m) \/ ApiDies(m)

Next ==
  \/ \E m \in Mails :
       Ask(m) \/ Callback(m) \/ BackoffEnds(m) \/ LockExpires(m) \/ TakenBack(m) \/ Evicted(m)
  \/ \E w \in Workers : Process(w) \/ WorkerDies(w) \/ \E m \in Mails : Take(w, m)

Spec == Init /\ [][Next]_vars

\* Promises settle, workers are restarted and take what waits, delays end and
\* the stalled check runs; nothing has to be asked, to fail or to be evicted.
Fairness ==
  /\ \A m \in Mails :
       /\ WF_vars(Callback(m))
       /\ WF_vars(BackoffEnds(m))
       /\ WF_vars(TakenBack(m))
       /\ WF_vars(\E w \in Workers : Take(w, m))
  /\ \A w \in Workers : WF_vars(Process(w))

FairSpec == Spec /\ Fairness

-----------------------------------------------------------------------------
\* The types of the queue's state.
TypeOK ==
  /\ operation \in [Mails -> {"idle", "sending", "ok", "failed", "cut"}]
  /\ job \in [Mails -> {"none", "waiting", "active", "delayed", "completed", "failed", "evicted"}]
  /\ made \in [Mails -> Nat]
  /\ stalls \in [Mails -> Nat]
  /\ lock \in [Mails -> Workers \cup {Nobody}]
  /\ work \in [Workers -> {Idle} \cup [mail : Mails, at : Stages]]
  /\ accepted \in [Mails -> Nat]

\* A second copy of an e-mail means that a worker was lost with the first: no
\* retry, however many attempts fail and whatever the provider answers, sends
\* again what an earlier attempt has sent (EmailProcessor.process throws only
\* what ended before the provider took the e-mail).  And as BullMQ gives a job
\* back MaxStalled times only, no e-mail is ever sent more than 1 + MaxStalled
\* times, by workers that come back late too.
CopiesAreStalls ==
  \A m \in Mails : accepted[m] <= 1 + stalls[m] /\ accepted[m] <= 1 + MaxStalled

AllAttempts == IF RetryAttempts = 0 THEN 1 ELSE RetryAttempts

\* A job is given up only when all of NOTIFY_EMAIL_RETRY_ATTEMPTS were made
\* (one when it is 0), whatever was taken back in between, or when it stalled
\* more often than BullMQ allows; and no further attempt is ever counted.
GivenUpAfterAll ==
  \A m \in Mails :
    /\ made[m] <= AllAttempts
    /\ job[m] = "failed" => made[m] = AllAttempts \/ stalls[m] > MaxStalled

\* An authentication operation never fails because its e-mail did: it is
\* answered once its callback runs, unless its own process dies.
OperationsSucceed ==
  \A m \in Mails : operation[m] = "sending" ~> operation[m] \in {"ok", "cut"}

\* "Delivery itself is queued, so transient provider errors are retried there"
\* (AuthEmailService): no job counts as done while the provider took nothing.
ErrorsAreRetried ==
  \A m \in Mails : job[m] = "completed" => accepted[m] > 0

Fate(m) ==
  CASE operation[m] = "idle" -> "unasked"
    [] operation[m] = "sending" -> "asked"
    [] operation[m] \in {"ok", "cut"} /\ job[m] = "none" -> "dropped"
    [] job[m] = "completed" -> "handed"
    [] job[m] = "failed" -> "abandoned"
    [] job[m] = "evicted" -> "lost"
    [] OTHER -> "promised"

Promise == INSTANCE MailPromise WITH fate <- [m \in Mails |-> Fate(m)]

\* The queue implements the promise: an e-mail once queued leaves the queue only
\* for the provider, for the failed jobs, or with an evicted key, it leaves it
\* for one of these in the end, and never comes back.
ImplementsMailPromise == Promise!Spec
=============================================================================
