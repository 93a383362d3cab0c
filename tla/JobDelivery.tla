---------------------------- MODULE JobDelivery ----------------------------
(***************************************************************************)
(* Durable Job delivery: the rows of public.jobs, their PGMQ messages, and *)
(* the worker processes that receive, execute and acknowledge them         *)
(* (job_worker.py, fenced_job_worker.py, pgmq_job_worker.py, the           *)
(* *_job_delivery and fenced_job_* functions of supabase/migrations).      *)
(*                                                                         *)
(* Each RPC or PostgREST statement is one transaction and one action.  The *)
(* execution of a Job that a token was granted for is an attempt, named by *)
(* that token; grant, ownToken and pc are what its thread keeps.           *)
(* A call can fail with or without having committed, a process can die     *)
(* between any two calls, and a message can become visible again while its *)
(* attempt still runs.  These faults share one budget, MaxFaults.          *)
(*                                                                         *)
(* Time is abstracted: a hidden message is one whose vt lies in the        *)
(* future, and VisibilityExpires is the passing of that time.              *)
(***************************************************************************)
EXTENDS Naturals, FiniteSets

CONSTANTS
    Job,          \* identities a row of public.jobs may have
    Worker,       \* worker processes; a restart is another member (worker.py
                  \* draws a new worker_id for every process)
    Token,        \* values gen_random_uuid() may return as execution_token
    NoToken,      \* execution_token is null, or the map has no entry
    NoWorker,     \* worker_id is null
    NoJob,        \* no Job: an attempt not yet granted, or not a retry
    MaxRetries,   \* jobs.max_retries
    Slots,        \* JobWorker.max_workers, threads of one process
    ScanLimit,    \* messages one receive_job_delivery call looks at
    Unsupported,  \* Jobs whose capability no worker has registered
    MaxFaults,    \* budget of crashes, lost calls and early redeliveries
    MaxBeats      \* bound on extend_job_delivery calls in progress at once

ASSUME DeliveryAssumption ==
    /\ NoToken \notin Token
    /\ NoWorker \notin Worker
    /\ NoJob \notin Job
    /\ MaxRetries \in Nat
    /\ Slots \in Nat \ {0}
    /\ ScanLimit \in Nat \ {0}
    /\ Unsupported \subseteq Job
    /\ MaxFaults \in Nat
    /\ MaxBeats \in Nat

VARIABLES
    \* The database ------------------------------------------------------
    stage,        \* jobs.stage, or "absent" / "deleted" when there is no row
    worker,       \* jobs.worker_id
    token,        \* jobs.execution_token
    retries,      \* jobs.retry_count
    result,       \* the execution whose ids are in jobs.output_version_ids
    root,         \* the first Job of the retry chain; one chain, one Workflow
    retryOf,      \* provenance.retry_of_job_id: the Job a user retry is for
    message,      \* the Job's PGMQ message
    versions,     \* Versions: job, the attempt that published them, and the
                  \* execution namespace that holds their bytes
    \* The worker processes ----------------------------------------------
    process,      \* "up", "draining" after stop(), or "down"
    inFlight,     \* JobWorker._in_flight
    execToken,    \* FencedJobWorker._execution_tokens
    pc,           \* where the thread of each execution token is
    grant,        \* the received row its _execute_job was called with
    ownToken,     \* the token its lifecycle updates and publications carry
    beat,         \* attempts whose extend_job_delivery is past its check
    faults        \* faults that happened so far

rowVars     == <<stage, worker, token, retries, result>>
productVars == <<root, retryOf>>
localVars   == <<process, inFlight, execToken>>
attemptVars == <<pc, grant, ownToken>>
vars == <<rowVars, productVars, message, versions, localVars, attemptVars, beat, faults>>

Active   == {"queued", "claimed", "running"}
Terminal == {"succeeded", "failed", "cancelled"}
Stage    == Active \cup Terminal \cup {"absent", "deleted"}
Live     == {"visible", "hidden"}

\* Where an attempt's thread is.  "lost": the reply to receive_job_delivery
\* never arrived; "release": finish_job_delivery returned, the slot is still
\* taken; "dead": the process died under it.
Executing == {"running", "returned", "raised", "backoff", "exhausted"}
Holding   == Executing \cup {"received", "finish", "release"}
Pc        == Holding \cup {"unused", "lost", "done", "dead"}

NoGrant == [job |-> NoJob, worker |-> NoWorker, failures |-> 0]
Grant   == [job: Job, worker: Worker, failures: Nat]

Version == [job: Job, by: Token, key: Token \cup {NoToken}]

TypeOK ==
    /\ stage \in [Job -> Stage]
    /\ worker \in [Job -> Worker \cup {NoWorker}]
    /\ token \in [Job -> Token \cup {NoToken}]
    /\ retries \in [Job -> Nat]
    /\ result \in [Job -> Token \cup {NoToken}]
    /\ root \in [Job -> Job]
    /\ retryOf \in [Job -> Job \cup {NoJob}]
    /\ message \in [Job -> Live \cup {"none", "archived"}]
    /\ versions \subseteq Version
    /\ process \in [Worker -> {"up", "draining", "down"}]
    /\ inFlight \in [Worker -> SUBSET Job]
    /\ execToken \in [Worker -> [Job -> Token \cup {NoToken}]]
    /\ pc \in [Token -> Pc]
    /\ grant \in [Token -> Grant \cup {NoGrant}]
    /\ \A t \in Token : pc[t] # "unused" => grant[t] \in Grant
    /\ ownToken \in [Token -> Token \cup {NoToken}]
    /\ beat \subseteq Token
    /\ faults \in Nat

Init ==
    /\ stage = [j \in Job |-> "absent"]
    /\ worker = [j \in Job |-> NoWorker]
    /\ token = [j \in Job |-> NoToken]
    /\ retries = [j \in Job |-> 0]
    /\ result = [j \in Job |-> NoToken]
    /\ root = [j \in Job |-> j]
    /\ retryOf = [j \in Job |-> NoJob]
    /\ message = [j \in Job |-> "none"]
    /\ versions = {}
    /\ process = [w \in Worker |-> "up"]
    /\ inFlight = [w \in Worker |-> {}]
    /\ execToken = [w \in Worker |-> [j \in Job |-> NoToken]]
    /\ pc = [t \in Token |-> "unused"]
    /\ grant = [t \in Token |-> NoGrant]
    /\ ownToken = [t \in Token |-> NoToken]
    /\ beat = {}
    /\ faults = 0

Fault == faults < MaxFaults /\ faults' = faults + 1
NoFault == UNCHANGED faults

JobOf(t)    == grant[t].job
WorkerOf(t) == grant[t].worker
At(t, s)    == pc[t] = s
Goto(t, s)  == pc' = [pc EXCEPT ![t] = s]

----------------------------------------------------------------------------
(* The product: the API creates, cancels, retries and deletes Jobs. *)

\* Inserting a queued row sends its one message in the same transaction.
InsertQueued(j) ==
    /\ stage[j] = "absent"
    /\ stage' = [stage EXCEPT ![j] = "queued"]
    /\ message' = [message EXCEPT ![j] = "visible"]
    /\ UNCHANGED <<worker, token, retries, result, versions>>

Create(j) ==
    /\ InsertQueued(j)
    /\ UNCHANGED <<productVars, localVars, attemptVars, beat, faults>>

\* A user retry is a new Job of the same Workflow, whose id derives from the
\* one it retries; asking again returns that Job and changes nothing.
UserRetry(j, k) ==
    /\ stage[j] \in {"failed", "cancelled"}
    /\ \A i \in Job : retryOf[i] # j
    /\ j \in Unsupported <=> k \in Unsupported
    /\ InsertQueued(k)
    /\ retryOf' = [retryOf EXCEPT ![k] = j]
    /\ root' = [root EXCEPT ![k] = root[j]]
    /\ UNCHANGED <<localVars, attemptVars, beat, faults>>

\* The update is conditional on the stage, whatever was read before it.
Cancel(j) ==
    /\ stage[j] \in Active
    /\ stage' = [stage EXCEPT ![j] = "cancelled"]
    /\ UNCHANGED <<worker, token, retries, result, productVars, message, versions,
                   localVars, attemptVars, beat, faults>>

\* Jobs go with their Workflow, and the Project's Versions in the same
\* cascade.  Their messages stay in the queue.
DeleteProject(j) ==
    LET gone == {k \in Job : root[k] = root[j] /\ stage[k] \notin {"absent", "deleted"}}
    IN  /\ stage[j] \notin {"absent", "deleted"}
        /\ stage' = [k \in Job |-> IF k \in gone THEN "deleted" ELSE stage[k]]
        /\ versions' = {v \in versions : v.job \notin gone}
        /\ UNCHANGED <<worker, token, retries, result, productVars, message,
                       localVars, attemptVars, beat, faults>>

----------------------------------------------------------------------------
(* The queue. *)

Hide(m, S) == [j \in Job |-> IF j \in S THEN "hidden" ELSE m[j]]
Archive(m, S) == [j \in Job |-> IF j \in S THEN "archived" ELSE m[j]]

Visible == {j \in Job : message[j] = "visible"}

\* A live attempt whose heartbeats keep, or are about to keep, the message
\* hidden.  They stop once the Job is cancelled or requeued.
HasLiveHolder(j) ==
    /\ stage[j] \in {"claimed", "running"}
    /\ token[j] \in Token
    /\ pc[token[j]] \in Holding

\* The vt of a hidden message passes.  While a live attempt holds the Job
\* that means its heartbeats did not get through, which is a fault.
VisibilityExpires(j) ==
    /\ message[j] = "hidden"
    /\ message' = [message EXCEPT ![j] = "visible"]
    /\ IF HasLiveHolder(j) THEN Fault ELSE NoFault
    /\ UNCHANGED <<rowVars, productVars, versions, localVars, attemptVars, beat>>

\* Mutants of PassedOver: a receive that does not tell the queue what its
\* process has in flight, one that takes finished Jobs up again, and one that
\* only looks for queued rows, as the Jobs-table claim did.
PassedOverForgetsInFlight(w) == {j \in Visible : stage[j] \notin Active}
PassedOverNotFinished(w) ==
    {j \in Visible : j \in inFlight[w] \/ stage[j] \in {"absent", "deleted"}}
PassedOverUnlessQueued(w) == {j \in Visible : j \in inFlight[w] \/ stage[j] # "queued"}

\* What receive_job_delivery passes over: messages of Jobs this process has
\* in flight are put off, those of finished or deleted Jobs are archived.
PassedOver(w) == {j \in Visible : j \in inFlight[w] \/ stage[j] \notin Active}

\* Mutant of PassOver: finished Jobs' messages are put off like the others.
PassOverPutsOff(w, S) == Hide(message, S)

PassOver(w, S) ==
    Archive(Hide(message, S \cap inFlight[w]), S \ inFlight[w])

\* Mutant of Taken: the message is read without a visibility timeout.
TakenStaysVisible(w, S, j) == PassOver(w, S)

\* The messages after a receive that passed over S and took j.
Taken(w, S, j) == Hide(PassOver(w, S), {j})

CanReceive(w) ==
    /\ process[w] = "up"
    /\ Cardinality(inFlight[w]) < Slots

\* Mutant of Received: the row's retry_count is not read.
ReceivedUncounted(w, j) == [job |-> j, worker |-> w, failures |-> 0]

\* What an attempt knows of its row; retry_count is never read again.
Received(w, j) == [job |-> j, worker |-> w, failures |-> retries[j]]

FreshToken == CHOOSE t \in Token : At(t, "unused")

\* receive_job_delivery finds an actionable message, after passing over some
\* (concurrent readers skip each other's locked rows, so in any order).  It
\* hides the message and takes the Job over under a fresh token, whatever
\* attempt held it before.  When the reply is lost the worker never hears of
\* the Job it now owns.
Receive(w, j, S) ==
    /\ CanReceive(w)
    /\ j \in Visible \ PassedOver(w)
    /\ S \subseteq PassedOver(w)
    /\ Cardinality(S) < ScanLimit
    /\ \E t \in Token : At(t, "unused")
    /\ LET t == FreshToken
       IN  /\ stage' = [stage EXCEPT ![j] = "claimed"]
           /\ worker' = [worker EXCEPT ![j] = w]
           /\ token' = [token EXCEPT ![j] = t]
           /\ message' = Taken(w, S, j)
           /\ grant' = [grant EXCEPT ![t] = Received(w, j)]
           /\ \/ /\ Goto(t, "received")
                 /\ execToken' = [execToken EXCEPT ![w][j] = t]
                 /\ inFlight' = [inFlight EXCEPT ![w] = @ \cup {j}]
                 /\ NoFault
              \/ /\ Goto(t, "lost")
                 /\ UNCHANGED <<execToken, inFlight>>
                 /\ Fault
    /\ UNCHANGED <<retries, result, productVars, versions, process, ownToken, beat>>

\* The call ran out of messages, or of its scan limit, before one it can act on.
ReceiveNothing(w) ==
    /\ CanReceive(w)
    /\ \E S \in SUBSET PassedOver(w) :
          /\ S # {}
          /\ S = Visible \/ Cardinality(S) = ScanLimit
          /\ message' = PassOver(w, S)
    /\ UNCHANGED <<rowVars, productVars, versions, localVars, attemptVars, beat, faults>>

----------------------------------------------------------------------------
(* One attempt: _execute_job, the handler it runs, and its heartbeats. *)

\* Mutant of Matches: the update is conditional on the stage alone.
MatchesAnyOwner(t, x, s) == stage[JobOf(t)] = s

\* The filter of every lifecycle update: the row is in stage s, belongs to
\* this process, and carries execution token x.
Matches(t, x, s) ==
    LET j == JobOf(t)
    IN  stage[j] = s /\ worker[j] = WorkerOf(t) /\ token[j] = x

Owns(t, s) == Matches(t, ownToken[t], s)

Cancelled(t) == stage[JobOf(t)] = "cancelled"

\* The thread's token is read from the process's map, by Job.
MappedToken(t) == execToken[WorkerOf(t)][JobOf(t)]

\* _mark_running, after the checks for a cancellation and a cache hit.
\* Without a match the attempt is over: cancelled, taken over or deleted.  An
\* error ends it too, and the row may already run.  (A cache hit needs a
\* succeeded Job of the same cache_key; the key is unique, so that can only
\* be this Job, finished under a later token, and its update matches no row.)
MarkRunning(t) ==
    LET j == JobOf(t)
        x == MappedToken(t)
        apply == stage' = [stage EXCEPT ![j] = "running"]
    IN  /\ At(t, "received")
        /\ ownToken' = [ownToken EXCEPT ![t] = x]
        /\ \/ Matches(t, x, "claimed") /\ apply /\ Goto(t, "running") /\ NoFault
           \/ ~Matches(t, x, "claimed") /\ UNCHANGED stage /\ Goto(t, "finish") /\ NoFault
           \/ Matches(t, x, "claimed") /\ apply /\ Goto(t, "finish") /\ Fault
           \/ UNCHANGED stage /\ Goto(t, "finish") /\ Fault
        /\ UNCHANGED <<worker, token, retries, result, productVars, message,
                       versions, localVars, grant, beat>>

\* Mutant of MayPublish: the Job has to run, under whatever token.
MayPublishUnfenced(t) == stage[JobOf(t)] = "running"

\* The fence before a handler's writes: its Job runs under the thread's token.
MayPublish(t) == stage[JobOf(t)] = "running" /\ token[JobOf(t)] = ownToken[t]

\* fenced_job_publish_version: a stale execution is refused, and the refusal
\* is an exception in the handler.
Publish(t) ==
    LET j == JobOf(t)
    IN  /\ At(t, "running") /\ j \notin Unsupported
        /\ IF MayPublish(t)
           THEN /\ versions' = versions \cup {[job |-> j, by |-> t, key |-> ownToken[t]]}
                /\ UNCHANGED pc
           ELSE /\ Goto(t, "raised")
                /\ UNCHANGED versions
        /\ UNCHANGED <<rowVars, productVars, message, localVars, grant, ownToken, beat, faults>>

\* fenced_job_delete: a handler clears away outputs of its own Job, or of the
\* Job it retries, under the same fence.
Withdraw(t) ==
    LET j == JobOf(t)
    IN  /\ At(t, "running") /\ j \notin Unsupported
        /\ IF MayPublish(t)
           THEN /\ \E C \in SUBSET {j, retryOf[j]} :
                      versions' = {v \in versions : v.job \notin C}
                /\ UNCHANGED pc
           ELSE /\ Goto(t, "raised")
                /\ UNCHANGED versions
        /\ UNCHANGED <<rowVars, productVars, message, localVars, grant, ownToken, beat, faults>>

\* The handler raises: its own failure, or a call of its that failed.
HandlerRaises(t) ==
    /\ At(t, "running") /\ JobOf(t) \notin Unsupported
    /\ Goto(t, "raised")
    /\ UNCHANGED <<rowVars, productVars, message, versions, localVars,
                   grant, ownToken, beat, faults>>

\* _check_cancelled: a cancelled Job ends the attempt, unless the call fails
\* and so answers no; otherwise the thread goes on to `next`.
CheckCancelled(t, next) ==
    \/ /\ Cancelled(t) /\ Goto(t, "finish") /\ NoFault
    \/ /\ Cancelled(t) /\ Goto(t, next) /\ Fault
    \/ /\ ~Cancelled(t) /\ Goto(t, next) /\ NoFault

\* The handler returns, and the worker looks for a cancellation.
HandlerReturns(t) ==
    /\ At(t, "running") /\ JobOf(t) \notin Unsupported
    /\ CheckCancelled(t, "returned")
    /\ UNCHANGED <<rowVars, productVars, message, versions, localVars,
                   grant, ownToken, beat>>

\* A lifecycle update whose filter does not match changes no row and is no
\* error.  One that fails raises, before or after the commit; `onError` is
\* where the exception takes the thread.
Update(t, from, s, onError, change) ==
    /\ At(t, from)
    /\ \/ /\ Owns(t, s) /\ change
          /\ Goto(t, "finish") /\ NoFault
       \/ /\ ~Owns(t, s) /\ UNCHANGED rowVars
          /\ Goto(t, "finish") /\ NoFault
       \/ /\ Owns(t, s) /\ change
          /\ Goto(t, onError) /\ Fault
       \/ /\ UNCHANGED rowVars
          /\ Goto(t, onError) /\ Fault
    /\ UNCHANGED <<productVars, message, versions, localVars, grant, ownToken, beat>>

\* _mark_succeeded.  Its exceptions land in the handler's except clause.
MarkSucceeded(t) ==
    LET j == JobOf(t)
    IN  Update(t, "returned", "running", "raised",
               /\ stage' = [stage EXCEPT ![j] = "succeeded"]
               /\ result' = [result EXCEPT ![j] = t]
               /\ UNCHANGED <<worker, token, retries>>)

\* Mutant of MayRetry: the failures so far are compared, not one more.
MayRetryOnceMore(t) == grant[t].failures <= MaxRetries

MayRetry(t) == grant[t].failures + 1 <= MaxRetries

\* The except clause: one more failure than the row said when it was received.
HandleError(t) ==
    /\ At(t, "raised")
    /\ CheckCancelled(t, IF MayRetry(t) THEN "backoff" ELSE "exhausted")
    /\ UNCHANGED <<rowVars, productVars, message, versions, localVars,
                   grant, ownToken, beat>>

\* _requeue_job, after the backoff.  The token stays until the next receive.
Requeue(t) ==
    LET j == JobOf(t)
    IN  Update(t, "backoff", "running", "finish",
               /\ stage' = [stage EXCEPT ![j] = "queued"]
               /\ retries' = [retries EXCEPT ![j] = grant[t].failures + 1]
               /\ worker' = [worker EXCEPT ![j] = NoWorker]
               /\ UNCHANGED <<token, result>>)

FailRow(t) ==
    /\ stage' = [stage EXCEPT ![JobOf(t)] = "failed"]
    /\ UNCHANGED <<worker, token, retries, result>>

\* _mark_failed, when the retries are used up.
MarkFailed(t) == Update(t, "exhausted", "running", "finish", FailRow(t))

\* _mark_failed, when no handler is registered or the row cannot be parsed.
RejectUnsupported(t) ==
    /\ JobOf(t) \in Unsupported
    /\ Update(t, "running", "running", "finish", FailRow(t))

\* The heartbeat thread's extend_job_delivery checks the row without locking
\* it and then moves the message's vt, so the two are separate steps.
HeartbeatCheck(t) ==
    /\ pc[t] \in Executing /\ JobOf(t) \notin Unsupported
    /\ t \notin beat /\ Cardinality(beat) < MaxBeats
    /\ stage[JobOf(t)] = "running" /\ token[JobOf(t)] = MappedToken(t)
    /\ beat' = beat \cup {t}
    /\ UNCHANGED <<rowVars, productVars, message, versions, localVars, attemptVars, faults>>

\* Archived messages have left the queue, so set_vt finds nothing to move.
HeartbeatExtend(t) ==
    LET j == JobOf(t)
    IN  /\ t \in beat
        /\ beat' = beat \ {t}
        /\ message' = [message EXCEPT ![j] = IF @ \in Live THEN "hidden" ELSE @]
        /\ UNCHANGED <<rowVars, productVars, versions, localVars, attemptVars, faults>>

ForgetToken(t) ==
    execToken' = [execToken EXCEPT ![WorkerOf(t)][JobOf(t)] = IF @ = t THEN NoToken ELSE @]

\* Mutant of Disposition: the message is acknowledged whatever became of the Job.
DispositionAcknowledges(t) == [message EXCEPT ![JobOf(t)] = "archived"]

\* finish_job_delivery, called with the token of the received row: archive
\* when the Job is gone or finished, release at once when it was requeued,
\* and otherwise keep the message for redelivery.
Disposition(t) ==
    LET j == JobOf(t)
    IN  IF stage[j] = "deleted" THEN [message EXCEPT ![j] = "archived"]
        ELSE IF token[j] # t THEN message
        ELSE IF stage[j] \in Terminal THEN [message EXCEPT ![j] = "archived"]
        ELSE IF stage[j] = "queued" THEN [message EXCEPT ![j] = "visible"]
        ELSE message

\* The attempt ends: it forgets its token and disposes of the message.  A
\* failed call is logged and left to redelivery.
FinishDelivery(t) ==
    /\ At(t, "finish")
    /\ ForgetToken(t)
    /\ Goto(t, "release")
    /\ \/ message' = Disposition(t) /\ NoFault
       \/ UNCHANGED message /\ Fault
    /\ UNCHANGED <<rowVars, productVars, versions, process, inFlight,
                   grant, ownToken, beat>>

\* Mutant of FreeSlot: the in-flight set is not cleared.
FreeSlotLeaks(t) == UNCHANGED inFlight

FreeSlot(t) == inFlight' = [inFlight EXCEPT ![WorkerOf(t)] = @ \ {JobOf(t)}]

\* The future's callback gives the slot back.
ReleaseSlot(t) ==
    /\ At(t, "release")
    /\ Goto(t, "done")
    /\ FreeSlot(t)
    /\ UNCHANGED <<rowVars, productVars, message, versions, process, execToken,
                   grant, ownToken, beat, faults>>

----------------------------------------------------------------------------
(* The processes. *)

\* stop(): no more receives; what is in flight drains.
Stop(w) ==
    /\ process[w] = "up"
    /\ Fault
    /\ process' = [process EXCEPT ![w] = "draining"]
    /\ UNCHANGED <<rowVars, productVars, message, versions, inFlight, execToken, attemptVars, beat>>

\* A process dies with everything it kept.  Calls it already sent still land.
Crash(w) ==
    /\ process[w] # "down"
    /\ Fault
    /\ process' = [process EXCEPT ![w] = "down"]
    /\ inFlight' = [inFlight EXCEPT ![w] = {}]
    /\ execToken' = [execToken EXCEPT ![w] = [j \in Job |-> NoToken]]
    /\ pc' = [t \in Token |->
                IF WorkerOf(t) = w /\ pc[t] \in Holding THEN "dead" ELSE pc[t]]
    /\ UNCHANGED <<rowVars, productVars, message, versions, grant, ownToken, beat>>

----------------------------------------------------------------------------

Product ==
    \/ \E j \in Job : Create(j) \/ Cancel(j) \/ DeleteProject(j)
    \/ \E j, k \in Job : UserRetry(j, k)

Queue ==
    \/ \E j \in Job : VisibilityExpires(j)
    \/ \E w \in Worker : ReceiveNothing(w)
    \/ \E w \in Worker, j \in Job : \E S \in SUBSET PassedOver(w) : Receive(w, j, S)

\* What one attempt does next, its heartbeats apart.
Step(t) ==
    \/ MarkRunning(t) \/ Publish(t) \/ Withdraw(t)
    \/ HandlerRaises(t) \/ HandlerReturns(t) \/ MarkSucceeded(t) \/ HandleError(t)
    \/ Requeue(t) \/ MarkFailed(t) \/ RejectUnsupported(t)
    \/ FinishDelivery(t) \/ ReleaseSlot(t)

Heartbeat(t) == HeartbeatCheck(t) \/ HeartbeatExtend(t)

Next ==
    \/ Product
    \/ Queue
    \/ \E t \in Token : Step(t) \/ Heartbeat(t)
    \/ \E w \in Worker : Stop(w) \/ Crash(w)

Spec == Init /\ [][Next]_vars
=============================================================================
