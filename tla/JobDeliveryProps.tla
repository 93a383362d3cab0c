-------------------------- MODULE JobDeliveryProps --------------------------
(***************************************************************************)
(* What JobDelivery must guarantee.                                        *)
(***************************************************************************)
EXTENDS JobDelivery

\* Every unfinished Job still has its message in the queue, so some worker
\* will receive it again however its last attempt ended.  Nothing else finds
\* abandoned Jobs: the Jobs-table scan for them was removed with the leases.
NoLostJob ==
    \A j \in Job : stage[j] \in Active => message[j] \in Live

\* One process never runs two executions of one Job: its token and delivery
\* maps have one entry per Job, and a second execution would act under the
\* first one's name.  Every attempt finds its own token until it ends.
OwnIdentity ==
    \A t \in Token : pc[t] \in Holding =>
        /\ \A u \in Token \ {t} :
              pc[u] \in Holding => JobOf(u) # JobOf(t) \/ WorkerOf(u) # WorkerOf(t)
        /\ JobOf(t) \in inFlight[WorkerOf(t)]
        /\ pc[t] # "release" => MappedToken(t) = t
        /\ pc[t] \in Executing => ownToken[t] = t

\* The namespace a Version's bytes are in is that of the very execution that
\* published it, and that execution was granted this Job.
VersionsOfTheirExecution ==
    \A v \in versions : v.key = v.by /\ JobOf(v.by) = v.job

\* The holder of a Job counted its failures from the row it still owns, so
\* writing its count + 1 neither loses nor repeats a retry; and a Job fails
\* only after MaxRetries retries, or when nothing can run it.
RetriesAreCounted ==
    \A j \in Job :
        /\ retries[j] <= MaxRetries
        /\ stage[j] \in {"claimed", "running"} => grant[token[j]].failures = retries[j]
        /\ stage[j] = "failed" => retries[j] = MaxRetries \/ j \in Unsupported

\* The outputs a succeeded Job records are those of its last execution; no
\* late execution got in after the row was taken over.
SucceededByLastHolder ==
    \A j \in Job : stage[j] = "succeeded" => result[j] = token[j]

\* Two executions of one Job overlap only after something went wrong; the
\* ordinary life of a Job, retries and cancellation included, has one at a time.
OverlapNeedsFault ==
    faults = 0 => \A t, u \in Token :
        /\ pc[t] \in Executing \cup {"received"}
        /\ pc[u] \in Executing \cup {"received"}
        /\ JobOf(t) = JobOf(u)
        => t = u

\* A finished Job is never taken up again, requeued, finished differently or
\* given further Versions, whatever attempts of it are still running; and what
\* a succeeded one published is not withdrawn by a retry's clean-up.
FinishedStaysFinished ==
    [][\A j \in Job : stage[j] \in Terminal /\ stage'[j] # "deleted" =>
          /\ stage'[j] = stage[j] /\ token'[j] = token[j] /\ result'[j] = result[j]
          /\ \A v \in versions' : v.job = j => v \in versions
          /\ stage[j] = "succeeded" => \A v \in versions : v.job = j => v \in versions']_vars

\* Once another execution was granted its Job, nothing an attempt's own thread
\* does - publishing, clearing away, finishing or disposing of the message -
\* changes the Job's row, its Versions or its message ("A late attempt must
\* never acknowledge or alter visibility for the current attempt's message").
\* The heartbeats are another thread's and are not spoken of.
StaleAttemptIsInert ==
    [][\A t \in Token :
          /\ pc[t] \in Holding
          /\ token[JobOf(t)] # t
          /\ stage[JobOf(t)] # "deleted"
          /\ Step(t)
          => UNCHANGED <<rowVars, versions, message>>]_vars

----------------------------------------------------------------------------
(* Refinement and liveness. *)

Lifecycle == INSTANCE JobLifecycle WITH
    issued   <- {t \in Token : pc[t] # "unused"},
    versions <- {[job |-> v.job, key |-> v.key] : v \in versions}

\* Queue, takeovers, crashes and lost replies included, the Jobs behave as
\* the abstract lifecycle says.
ImplementsLifecycle == Lifecycle!Spec

\* Threads are scheduled and handlers return; a hidden message nobody keeps
\* hidden becomes visible; a visible message is read sooner or later, for
\* pgmq.read goes by message id and passed-over messages are hidden or gone.
Fairness ==
    /\ \A t \in Token : WF_vars(Step(t)) /\ WF_vars(HandlerReturns(t) \/ HandlerRaises(t))
    /\ \A j \in Job : WF_vars(~HasLiveHolder(j) /\ VisibilityExpires(j))
    /\ \A j \in Job : WF_vars(\E w \in Worker : \E S \in SUBSET PassedOver(w) : Receive(w, j, S))
    /\ WF_vars(\E w \in Worker : ReceiveNothing(w))

FairSpec == Spec /\ Fairness

\* Every Job that was created is settled: the queue redelivers it until an
\* execution finishes it, its retries are used up, or the user ends it.
EveryJobSettles ==
    \A j \in Job : stage[j] = "queued" ~> stage[j] \in Terminal \cup {"deleted"}

\* The message of a settled Job leaves the queue, though the attempt that
\* should have archived it may have died or been superseded.
SettledMessagesLeave ==
    \A j \in Job : stage[j] \in Terminal \cup {"deleted"} ~> message[j] = "archived"

\* No slot is lost while its process lives.
SlotsComeBack ==
    \A w \in Worker, j \in Job : j \in inFlight[w] ~> j \notin inFlight[w]
=============================================================================
