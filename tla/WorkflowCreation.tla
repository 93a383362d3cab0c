-------------------------- MODULE WorkflowCreation --------------------------
(***************************************************************************)
(* The routes that create Workflows and Jobs                               *)
(* (backend/domain/api/workflows_jobs.py, lyrics_alignment.py,             *)
(* harmony_interpretations.py, text_passage_find.py) and the retry of a    *)
(* Job (repositories/workflows_jobs.py).  A route looks for a Job, inserts *)
(* a Workflow and inserts a Job, each in a transaction of its own, so that *)
(* requests interleave and may stop in between.                            *)
(*                                                                         *)
(* All requests are about one source Version, which may be deleted.        *)
(***************************************************************************)
EXTENDS Naturals, FiniteSets

CONSTANTS Request,
          Key,        \* what an idempotent route derives its two ids from
          Shielded,   \* the keys of understand, score and lyrics alignment, which
                      \* look for a concurrent Job when the Workflow insert fails
          Span,       \* selections of corrections
          None,
          MaxRetries, \* bound on the length of a chain of retries
          MaxFaults   \* bound on failed calls

\* A Workflow is named by its key or by the request that created it; its first
\* Job is number 0, the retry of number n is number n + 1 (uuid5 of the Job).
WorkflowId == Key \cup Request
JobId      == WorkflowId \X (0..MaxRetries)

\* The routes of a kind; "plain" are those that look for nothing.
Kind == {"idempotent", "plain", "correct", "retry"}

ASSUME CreationAssumption ==
  /\ Key \cap Request = {} /\ Shielded \subseteq Key
  /\ None \notin Key \cup Span \cup JobId \cup Kind
  /\ MaxRetries \in Nat /\ MaxFaults \in Nat

VARIABLES
  source,    \* the target Version exists
  workflows, \* rows of workflows
  jobs,      \* rows of jobs
  stage,     \* their stage, "active" until they end
  kind,      \* request -> the route it takes
  key, span, original, \* request -> its key, its selection, the Job it retries
  pc,
  answer,    \* request -> the Job it was answered with
  faults

vars  == <<source, workflows, jobs, stage, kind, key, span, original, pc, answer, faults>>
body  == <<kind, key, span, original>>

EndStates == {"answered", "refused", "raised"}
States    == {"idle", "authorize", "find", "workflow", "conflict", "reread", "job", "again",
              "load", "known", "insert"} \cup EndStates

TypeOK ==
  /\ source \in BOOLEAN
  /\ workflows \in SUBSET WorkflowId
  /\ jobs \in SUBSET JobId
  /\ stage \in [JobId -> {"active", "succeeded", "failed", "cancelled"}]
  /\ kind \in [Request -> Kind \cup {None}]
  /\ key \in [Request -> Key \cup {None}]
  /\ span \in [Request -> Span \cup {None}]
  /\ original \in [Request -> JobId \cup {None}]
  /\ pc \in [Request -> States]
  /\ answer \in [Request -> JobId \cup {None}]
  /\ faults \in 0..MaxFaults

Init ==
  /\ source = TRUE
  /\ workflows = {}
  /\ jobs = {}
  /\ stage = [j \in JobId |-> "active"]
  /\ kind = [r \in Request |-> None]
  /\ key = [r \in Request |-> None]
  /\ span = [r \in Request |-> None]
  /\ original = [r \in Request |-> None]
  /\ pc = [r \in Request |-> "idle"]
  /\ answer = [r \in Request |-> None]
  /\ faults = 0

At(r, state)   == pc[r] = state
Goto(r, state) == pc' = [pc EXCEPT ![r] = state]
Answer(r, j)   == /\ Goto(r, "answered")
                  /\ answer' = [answer EXCEPT ![r] = j]
Fail           == faults < MaxFaults /\ faults' = faults + 1

\* The ids a request inserts under.
WorkflowOf(r) == IF kind[r] = "idempotent" THEN key[r] ELSE r
JobOf(r)      == <<WorkflowOf(r), 0>>
RetryOf(j)    == <<j[1], j[2] + 1>>

(* The body of a request *)

Receive(r, k) ==
  /\ At(r, "idle")
  /\ kind' = [kind EXCEPT ![r] = k]
  /\ \/ /\ k = "idempotent"
        /\ \E x \in Key : key' = [key EXCEPT ![r] = x]
        /\ Goto(r, "authorize")
        /\ UNCHANGED <<span, original>>
     \/ /\ k = "correct"
        /\ \E x \in Span : span' = [span EXCEPT ![r] = x]
        /\ Goto(r, "authorize")
        /\ UNCHANGED <<key, original>>
     \/ /\ k = "plain"
        /\ Goto(r, "authorize")
        /\ UNCHANGED <<key, span, original>>
     \/ /\ k = "retry"
        /\ \E x \in jobs : x[2] < MaxRetries /\ original' = [original EXCEPT ![r] = x]
        /\ Goto(r, "load")
        /\ UNCHANGED <<key, span>>
  /\ UNCHANGED <<source, workflows, jobs, stage, answer, faults>>

(* Creation *)

\* _require_version_in_project
Authorize(r) ==
  /\ At(r, "authorize")
  /\ Goto(r, IF ~source THEN "refused"
             ELSE IF kind[r] = "idempotent" THEN "find" ELSE "workflow")
  /\ UNCHANGED <<source, workflows, jobs, stage, body, answer, faults>>

\* job_repo.get(job_id): answer with what an earlier request created.
Find(r) ==
  /\ At(r, "find")
  /\ \/ JobOf(r) \in jobs /\ Answer(r, JobOf(r))
     \/ JobOf(r) \notin jobs /\ Goto(r, "workflow") /\ UNCHANGED answer
  /\ UNCHANGED <<source, workflows, jobs, stage, body, faults>>

\* Where a failed insert of the Workflow leads.
AfterConflict(r) == IF kind[r] # "idempotent" THEN "raised"
                    ELSE IF key[r] \in Shielded THEN "conflict" ELSE "reread"

\* The insert fails on the primary key, or on the reference to the source.
CreateWorkflow(r) ==
  /\ At(r, "workflow")
  /\ IF WorkflowOf(r) \notin workflows /\ source
       THEN workflows' = workflows \cup {WorkflowOf(r)} /\ Goto(r, "job")
       ELSE Goto(r, AfterConflict(r)) /\ UNCHANGED workflows
  /\ UNCHANGED <<source, jobs, stage, body, answer, faults>>

FindConcurrent(r) ==
  /\ At(r, "conflict")
  /\ \/ JobOf(r) \in jobs /\ Answer(r, JobOf(r))
     \/ JobOf(r) \notin jobs /\ Goto(r, "reread") /\ UNCHANGED answer
  /\ UNCHANGED <<source, workflows, jobs, stage, body, faults>>

\* Mutant of Reread: a rival's Workflow is taken to come with its Job.
RereadAnswers(r) ==
  /\ At(r, "reread")
  /\ IF WorkflowOf(r) \in workflows THEN Answer(r, JobOf(r)) ELSE Goto(r, "raised") /\ UNCHANGED answer
  /\ UNCHANGED <<source, workflows, jobs, stage, body, faults>>

Reread(r) ==
  /\ At(r, "reread")
  /\ Goto(r, IF WorkflowOf(r) \in workflows THEN "job" ELSE "raised")
  /\ UNCHANGED <<source, workflows, jobs, stage, body, answer, faults>>

\* Mutant of SameCacheKey: every route's Jobs have a key, that of their source.
SameCacheKeyForAll(r, q) == r # q

\* idx_jobs_cache_key: a correction's key names its source and its span, not
\* the notes it brings.
SameCacheKey(r, q) == kind[r] = "correct" /\ kind[q] = "correct" /\ span[r] = span[q]
CacheKeyTaken(r) == \E q \in Request : SameCacheKey(r, q) /\ JobOf(q) \in jobs

\* Mutant of AfterJobConflict: only the insert of the Workflow expects a rival.
AfterJobConflictRaises(r) == "raised"

\* Where a failed insert of the Job leads.
AfterJobConflict(r) == IF kind[r] = "idempotent" THEN "again" ELSE "raised"

CreateJob(r) ==
  /\ At(r, "job")
  /\ IF JobOf(r) \notin jobs /\ ~CacheKeyTaken(r)
       THEN jobs' = jobs \cup {JobOf(r)} /\ Answer(r, JobOf(r))
       ELSE Goto(r, AfterJobConflict(r)) /\ UNCHANGED <<jobs, answer>>
  /\ UNCHANGED <<source, workflows, stage, body, faults>>

FindAgain(r) ==
  /\ At(r, "again")
  /\ \/ JobOf(r) \in jobs /\ Answer(r, JobOf(r))
     \/ JobOf(r) \notin jobs /\ Goto(r, "raised") /\ UNCHANGED answer
  /\ UNCHANGED <<source, workflows, jobs, stage, body, faults>>

(* Retry of a Job that failed or was cancelled *)

\* Mutant of Load: any Job can be retried.
LoadAnyStage(r) ==
  /\ At(r, "load")
  /\ Goto(r, "known")
  /\ UNCHANGED <<source, workflows, jobs, stage, body, answer, faults>>

Load(r) ==
  /\ At(r, "load")
  /\ Goto(r, IF stage[original[r]] \in {"failed", "cancelled"} THEN "known" ELSE "refused")
  /\ UNCHANGED <<source, workflows, jobs, stage, body, answer, faults>>

FindRetry(r) ==
  /\ At(r, "known")
  /\ LET j == RetryOf(original[r]) IN
       \/ j \in jobs /\ Answer(r, j)
       \/ j \notin jobs /\ Goto(r, "insert") /\ UNCHANGED answer
  /\ UNCHANGED <<source, workflows, jobs, stage, body, faults>>

\* A concurrent retry of the same Job makes the insert fail.
CreateRetry(r) ==
  /\ At(r, "insert")
  /\ LET j == RetryOf(original[r]) IN
       IF j \notin jobs THEN jobs' = jobs \cup {j} /\ Answer(r, j)
       ELSE Goto(r, "raised") /\ UNCHANGED <<jobs, answer>>
  /\ UNCHANGED <<source, workflows, stage, body, faults>>

(* Failed calls *)

\* A read raises, or the process dies.
ReadFails(r) ==
  /\ pc[r] \in {"authorize", "find", "conflict", "reread", "again", "load", "known"}
  /\ Fail /\ Goto(r, "raised")
  /\ UNCHANGED <<source, workflows, jobs, stage, body, answer>>

\* An insert raises, whether it committed or not.
InsertFails(r) ==
  /\ Fail
  /\ \/ /\ At(r, "workflow")
        /\ UNCHANGED workflows \/ (source /\ workflows' = workflows \cup {WorkflowOf(r)})
        /\ Goto(r, AfterConflict(r))
        /\ UNCHANGED jobs
     \/ /\ At(r, "job")
        /\ UNCHANGED jobs \/ (~CacheKeyTaken(r) /\ jobs' = jobs \cup {JobOf(r)})
        /\ Goto(r, AfterJobConflict(r))
        /\ UNCHANGED workflows
     \/ /\ At(r, "insert")
        /\ UNCHANGED jobs \/ jobs' = jobs \cup {RetryOf(original[r])}
        /\ Goto(r, "raised")
        /\ UNCHANGED workflows
  /\ UNCHANGED <<source, stage, body, answer>>

(* What happens around the requests *)

JobEnds(j) ==
  /\ j \in jobs /\ stage[j] = "active"
  /\ \E s \in {"succeeded", "failed", "cancelled"} : stage' = [stage EXCEPT ![j] = s]
  /\ UNCHANGED <<source, workflows, jobs, body, pc, answer, faults>>

DeleteSource ==
  /\ source
  /\ source' = FALSE
  /\ UNCHANGED <<workflows, jobs, stage, body, pc, answer, faults>>

Step(r) ==
  \/ \E k \in Kind : Receive(r, k)
  \/ Authorize(r) \/ Find(r) \/ CreateWorkflow(r) \/ FindConcurrent(r) \/ Reread(r)
  \/ CreateJob(r) \/ FindAgain(r) \/ Load(r) \/ FindRetry(r) \/ CreateRetry(r)
  \/ ReadFails(r) \/ InsertFails(r)

Next ==
  \/ \E r \in Request : Step(r)
  \/ \E j \in JobId : JobEnds(j)
  \/ DeleteSource

Spec == Init /\ [][Next]_vars

(* Properties *)

\* However requests interleave, an idempotent route fails only when a call failed
\* or the source is gone: a conflict with a concurrent request ends in its Job.
IdempotentRoutesSucceed ==
  faults = 0 /\ source =>
    \A r \in Request : kind[r] = "idempotent" => pc[r] \notin {"refused", "raised"}

\* Whoever is answered is answered with a Job that is there and has its Workflow,
\* and two requests with one key are answered with one Job.
AnswersAgree ==
  \A r \in Request : pc[r] = "answered" =>
    /\ answer[r] \in jobs /\ answer[r][1] \in workflows
    /\ kind[r] = "idempotent" =>
         \A q \in Request :
           kind[q] = "idempotent" /\ key[q] = key[r] /\ pc[q] = "answered" => answer[q] = answer[r]

\* Without a failed call no Workflow stays behind without a Job, but for that of a
\* correction whose span was corrected before.
NoOrphanWorkflows ==
  faults = 0 =>
    \A w \in workflows :
      \/ <<w, 0>> \in jobs
      \/ \E r \in Request : WorkflowOf(r) = w /\ pc[r] \in {"job", "conflict", "reread"}
      \/ w \in Request /\ pc[w] = "raised" /\ CacheKeyTaken(w)

\* A retry succeeds only a Job that failed or was cancelled, and a request to retry
\* that raised without a failed call lost a race: the retry it asked for exists.
RetriesAreEarned ==
  /\ \A j \in jobs : RetryOf(j) \in jobs => stage[j] \in {"failed", "cancelled"}
  /\ faults = 0 =>
       \A r \in Request : kind[r] = "retry" /\ pc[r] = "raised" => RetryOf(original[r]) \in jobs
=============================================================================
