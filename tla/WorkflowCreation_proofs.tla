----------------------- MODULE WorkflowCreation_proofs -----------------------
(***************************************************************************)
(* Proofs about WorkflowCreation, for every set of requests and keys and   *)
(* every bound on retries and failed calls.                                *)
(***************************************************************************)
EXTENDS WorkflowCreation, TLAPS

LEMMA RetryIsAJob ==
  ASSUME CreationAssumption, NEW j \in JobId, j[2] < MaxRetries
  PROVE  RetryOf(j) \in JobId
BY DEF RetryOf, JobId, CreationAssumption

\* What a request is about is known as far as its state needs it.
Formed ==
  \A r \in Request :
    /\ pc[r] = "idle" => kind[r] = None
    /\ pc[r] \in {"find", "conflict", "reread", "again"} => kind[r] = "idempotent"
    /\ pc[r] \in {"load", "known", "insert"} => kind[r] = "retry"
    /\ pc[r] \in {"authorize", "workflow", "job"} => kind[r] \in {"idempotent", "plain", "correct"}
    /\ kind[r] = "idempotent" => key[r] \in Key
    /\ kind[r] = "retry" => original[r] \in jobs /\ original[r][2] < MaxRetries

LEMMA JobOfIsAJob ==
  ASSUME CreationAssumption, Formed, NEW r \in Request
  PROVE  /\ WorkflowOf(r) \in WorkflowId
         /\ JobOf(r) \in JobId
BY DEF JobOf, WorkflowOf, JobId, WorkflowId, Formed, CreationAssumption

LEMMA FormedInit == Init => TypeOK /\ Formed
BY CreationAssumption DEF Init, TypeOK, Formed, States, Kind, EndStates

LEMMA FormedNext == TypeOK /\ Formed /\ [Next]_vars => TypeOK' /\ Formed'
<1> SUFFICES ASSUME TypeOK, Formed, [Next]_vars PROVE TypeOK' /\ Formed'
  OBVIOUS
<1> USE CreationAssumption DEF TypeOK, At, Goto, States, EndStates, body, Kind
<1>1. ASSUME NEW r \in Request, NEW k \in Kind, Receive(r, k) PROVE TypeOK' /\ Formed'
  <2>1. CASE k = "idempotent"
    BY <1>1, <2>1 DEF Receive, Formed
  <2>2. CASE k = "correct"
    BY <1>1, <2>2 DEF Receive, Formed
  <2>3. CASE k = "plain"
    BY <1>1, <2>3 DEF Receive, Formed
  <2>4. CASE k = "retry"
    BY <1>1, <2>4 DEF Receive, Formed
  <2> QED
    BY <2>1, <2>2, <2>3, <2>4
<1>2. ASSUME NEW r \in Request, Authorize(r) PROVE TypeOK' /\ Formed'
  BY <1>2 DEF Authorize, Formed
<1>3. ASSUME NEW r \in Request, Find(r) PROVE TypeOK' /\ Formed'
  BY <1>3, JobOfIsAJob DEF Find, Answer, Formed
<1>4. ASSUME NEW r \in Request, CreateWorkflow(r) PROVE TypeOK' /\ Formed'
  BY <1>4, JobOfIsAJob DEF CreateWorkflow, AfterConflict, Formed
<1>5. ASSUME NEW r \in Request, FindConcurrent(r) PROVE TypeOK' /\ Formed'
  BY <1>5, JobOfIsAJob DEF FindConcurrent, Answer, Formed
<1>6. ASSUME NEW r \in Request, Reread(r) PROVE TypeOK' /\ Formed'
  BY <1>6 DEF Reread, Formed
<1>7. ASSUME NEW r \in Request, CreateJob(r) PROVE TypeOK' /\ Formed'
  BY <1>7, JobOfIsAJob DEF CreateJob, AfterJobConflict, Answer, Formed
<1>8. ASSUME NEW r \in Request, FindAgain(r) PROVE TypeOK' /\ Formed'
  BY <1>8, JobOfIsAJob DEF FindAgain, Answer, Formed
<1>9. ASSUME NEW r \in Request, Load(r) PROVE TypeOK' /\ Formed'
  BY <1>9 DEF Load, Formed
<1>10. ASSUME NEW r \in Request, FindRetry(r) PROVE TypeOK' /\ Formed'
  BY <1>10, RetryIsAJob DEF FindRetry, Answer, Formed
<1>11. ASSUME NEW r \in Request, CreateRetry(r) PROVE TypeOK' /\ Formed'
  <2>1. RetryOf(original[r]) \in JobId
    BY <1>11, RetryIsAJob DEF CreateRetry, Formed
  <2> QED
    BY <1>11, <2>1 DEF CreateRetry, Answer, Formed
<1>12. ASSUME NEW r \in Request, ReadFails(r) PROVE TypeOK' /\ Formed'
  BY <1>12 DEF ReadFails, Fail, Formed
<1>13. ASSUME NEW r \in Request, InsertFails(r) PROVE TypeOK' /\ Formed'
  <2>1. CASE At(r, "workflow")
    BY <1>13, <2>1, JobOfIsAJob DEF InsertFails, AfterConflict, Fail, Formed
  <2>2. CASE At(r, "job")
    BY <1>13, <2>2, JobOfIsAJob DEF InsertFails, AfterJobConflict, Fail, Formed
  <2>3. CASE At(r, "insert")
    <3>1. RetryOf(original[r]) \in JobId
      BY <2>3, RetryIsAJob DEF Formed
    <3> QED
      BY <1>13, <2>3, <3>1 DEF InsertFails, Fail, Formed
  <2> QED
    BY <1>13, <2>1, <2>2, <2>3 DEF InsertFails
<1>14. ASSUME NEW j \in JobId, JobEnds(j) PROVE TypeOK' /\ Formed'
  BY <1>14 DEF JobEnds, Formed
<1>15. CASE DeleteSource
  BY <1>15 DEF DeleteSource, Formed
<1>16. CASE UNCHANGED vars
  BY <1>16 DEF vars, Formed
<1> QED
  BY <1>1, <1>2, <1>3, <1>4, <1>5, <1>6, <1>7, <1>8, <1>9, <1>10, <1>11, <1>12, <1>13,
     <1>14, <1>15, <1>16 DEF Next, Step

\* Jobs come after their Workflow, and a retry after the Job it retries.
Grounded ==
  /\ \A j \in jobs : j[1] \in workflows
  /\ \A r \in Request : pc[r] = "job" => WorkflowOf(r) \in workflows
  /\ \A j \in JobId : RetryOf(j) \in jobs => j \in jobs

LEMMA RetriesAreNotFirst ==
  ASSUME NEW j \in JobId, NEW w \in WorkflowId, CreationAssumption
  PROVE  RetryOf(j) # <<w, 0>>
BY DEF JobId, RetryOf, CreationAssumption

LEMMA RetryIsInjective ==
  ASSUME NEW j \in JobId, NEW i \in JobId, RetryOf(i) = RetryOf(j), CreationAssumption
  PROVE  i = j
BY DEF JobId, RetryOf, CreationAssumption

LEMMA RetryIsGrounded ==
  ASSUME CreationAssumption, TypeOK, Grounded, NEW o \in jobs, o[2] < MaxRetries
  PROVE  /\ RetryOf(o) \in JobId
         /\ RetryOf(o)[1] \in workflows
         /\ \A j \in JobId : RetryOf(j) \in jobs \cup {RetryOf(o)} => j \in jobs
<1>1. o \in JobId
  BY DEF TypeOK
<1>2. RetryOf(o) \in JobId /\ RetryOf(o)[1] = o[1]
  BY <1>1, RetryIsAJob DEF RetryOf
<1> QED
  BY <1>1, <1>2, RetryIsInjective DEF Grounded

LEMMA GroundedNext ==
  TypeOK /\ Formed /\ Grounded /\ [Next]_vars => Grounded'
<1> SUFFICES ASSUME TypeOK, Formed, Grounded, [Next]_vars PROVE Grounded'
  OBVIOUS
<1> USE CreationAssumption, JobOfIsAJob, RetriesAreNotFirst, RetryIsInjective
<1> USE DEF TypeOK, At, Goto, body, Kind, Formed, Grounded, WorkflowOf, JobOf
<1>1. ASSUME NEW r \in Request, NEW k \in Kind, Receive(r, k) PROVE Grounded'
  BY <1>1 DEF Receive
<1>2. ASSUME NEW r \in Request, Authorize(r) PROVE Grounded'
  BY <1>2 DEF Authorize
<1>3. ASSUME NEW r \in Request, Find(r) PROVE Grounded'
  BY <1>3 DEF Find, Answer
<1>4. ASSUME NEW r \in Request, CreateWorkflow(r) PROVE Grounded'
  BY <1>4 DEF CreateWorkflow, AfterConflict
<1>5. ASSUME NEW r \in Request, FindConcurrent(r) PROVE Grounded'
  BY <1>5 DEF FindConcurrent, Answer
<1>6. ASSUME NEW r \in Request, Reread(r) PROVE Grounded'
  BY <1>6 DEF Reread
<1>7. ASSUME NEW r \in Request, CreateJob(r) PROVE Grounded'
  BY <1>7 DEF CreateJob, AfterJobConflict, Answer
<1>8. ASSUME NEW r \in Request, FindAgain(r) PROVE Grounded'
  BY <1>8 DEF FindAgain, Answer
<1>9. ASSUME NEW r \in Request, Load(r) PROVE Grounded'
  BY <1>9 DEF Load
<1>10. ASSUME NEW r \in Request, FindRetry(r) PROVE Grounded'
  BY <1>10 DEF FindRetry, Answer
<1>11. ASSUME NEW r \in Request, CreateRetry(r) PROVE Grounded'
  <2>1. original[r] \in jobs /\ original[r][2] < MaxRetries
    BY <1>11 DEF CreateRetry
  <2> HIDE DEF RetryOf
  <2> QED
    BY <1>11, <2>1, RetryIsGrounded DEF CreateRetry, Answer
<1>12. ASSUME NEW r \in Request, ReadFails(r) PROVE Grounded'
  BY <1>12 DEF ReadFails, Fail
<1>13. ASSUME NEW r \in Request, InsertFails(r) PROVE Grounded'
  <2>1. CASE At(r, "workflow")
    BY <1>13, <2>1 DEF InsertFails, AfterConflict, Fail
  <2>2. CASE At(r, "job")
    BY <1>13, <2>2 DEF InsertFails, AfterJobConflict, Fail
  <2>3. CASE At(r, "insert")
    <3>1. original[r] \in jobs /\ original[r][2] < MaxRetries
      BY <2>3
    <3>2. /\ jobs' = jobs \/ jobs' = jobs \cup {RetryOf(original[r])}
          /\ pc' = [pc EXCEPT ![r] = "raised"]
          /\ UNCHANGED <<workflows, kind, key>>
      BY <1>13, <2>3 DEF InsertFails
    <3>3. \A j \in jobs' : j[1] \in workflows'
      BY <3>1, <3>2, RetryIsGrounded
    <3>4. \A q \in Request : pc'[q] = "job" => WorkflowOf(q)' \in workflows'
      BY <3>2
    <3>5. \A j \in JobId : RetryOf(j) \in jobs' => j \in jobs'
      BY <3>1, <3>2, RetryIsGrounded
    <3> QED
      BY <3>3, <3>4, <3>5
  <2> QED
    BY <1>13, <2>1, <2>2, <2>3 DEF InsertFails
<1>14. ASSUME NEW j \in JobId, JobEnds(j) PROVE Grounded'
  BY <1>14 DEF JobEnds
<1>15. CASE DeleteSource
  BY <1>15 DEF DeleteSource
<1>16. CASE UNCHANGED vars
  BY <1>16 DEF vars
<1> QED
  BY <1>1, <1>2, <1>3, <1>4, <1>5, <1>6, <1>7, <1>8, <1>9, <1>10, <1>11, <1>12, <1>13, <1>14, <1>15, <1>16 DEF Next, Step

\* What holds of requests as long as no call failed and the source is there.
Reached ==
  faults = 0 /\ source =>
    \A r \in Request : kind[r] = "idempotent" =>
      /\ pc[r] \notin {"refused", "raised"}
      /\ pc[r] \in {"conflict", "reread"} => WorkflowOf(r) \in workflows
      /\ pc[r] = "again" => JobOf(r) \in jobs

LEMMA ReachedNext ==
  ASSUME TypeOK, Formed, Grounded, Reached, [Next]_vars
  PROVE  Reached'
<1> USE CreationAssumption
<1> USE DEF TypeOK, At, Goto, body, Kind, Reached, Formed, Fail, WorkflowOf, JobOf, CacheKeyTaken, SameCacheKey
<1>1. ASSUME NEW r \in Request, NEW k \in Kind, Receive(r, k) PROVE Reached'
  BY <1>1 DEF Receive
<1>2. ASSUME NEW r \in Request, Authorize(r) PROVE Reached'
  BY <1>2 DEF Authorize
<1>3. ASSUME NEW r \in Request, Find(r) PROVE Reached'
  BY <1>3 DEF Find, Answer
<1>4. ASSUME NEW r \in Request, CreateWorkflow(r) PROVE Reached'
  BY <1>4 DEF CreateWorkflow, AfterConflict
<1>5. ASSUME NEW r \in Request, FindConcurrent(r) PROVE Reached'
  BY <1>5 DEF FindConcurrent, Answer
<1>6. ASSUME NEW r \in Request, Reread(r) PROVE Reached'
  BY <1>6 DEF Reread
<1>7. ASSUME NEW r \in Request, CreateJob(r) PROVE Reached'
  <2>1. kind[r] = "idempotent" => ~CacheKeyTaken(r)
    OBVIOUS
  <2>2. kind[r] = "idempotent" /\ pc'[r] = "again" => JobOf(r) \in jobs
    BY <1>7, <2>1 DEF CreateJob, Answer
  <2>3. /\ \A q \in Request : q # r => pc'[q] = pc[q]
        /\ pc'[r] \in {"answered", "again"} \/ kind[r] # "idempotent"
        /\ jobs \subseteq jobs' /\ UNCHANGED <<kind, key, workflows, faults, source>>
    BY <1>7 DEF CreateJob, AfterJobConflict, Answer
  <2> QED
    BY <2>2, <2>3
<1>8. ASSUME NEW r \in Request, FindAgain(r) PROVE Reached'
  BY <1>8 DEF FindAgain, Answer
<1>9. ASSUME NEW r \in Request, Load(r) PROVE Reached'
  BY <1>9 DEF Load
<1>10. ASSUME NEW r \in Request, FindRetry(r) PROVE Reached'
  BY <1>10 DEF FindRetry, Answer
<1>11. ASSUME NEW r \in Request, CreateRetry(r) PROVE Reached'
  BY <1>11 DEF CreateRetry, Answer
<1>12. ASSUME NEW r \in Request, ReadFails(r) PROVE Reached'
  BY <1>12 DEF ReadFails, Fail
<1>13. ASSUME NEW r \in Request, InsertFails(r) PROVE Reached'
  <2>1. CASE At(r, "workflow")
    BY <1>13, <2>1 DEF InsertFails, AfterConflict, Fail
  <2>2. CASE At(r, "job")
    BY <1>13, <2>2 DEF InsertFails, AfterJobConflict, Fail
  <2>3. CASE At(r, "insert")
    BY <1>13, <2>3 DEF InsertFails, Fail
  <2> QED
    BY <1>13, <2>1, <2>2, <2>3 DEF InsertFails
<1>14. ASSUME NEW j \in JobId, JobEnds(j) PROVE Reached'
  BY <1>14 DEF JobEnds
<1>15. CASE DeleteSource
  BY <1>15 DEF DeleteSource
<1>16. CASE UNCHANGED vars
  BY <1>16 DEF vars
<1> QED
  BY <1>1, <1>2, <1>3, <1>4, <1>5, <1>6, <1>7, <1>8, <1>9, <1>10, <1>11, <1>12, <1>13,
     <1>14, <1>15, <1>16 DEF Next, Step

\* An answer is a Job, for an idempotent request the one its key stands for.
Answered ==
  \A r \in Request : pc[r] = "answered" =>
    /\ answer[r] \in jobs
    /\ kind[r] = "idempotent" => answer[r] = JobOf(r)

LEMMA AnsweredNext ==
  ASSUME TypeOK, Formed, Grounded, Answered, [Next]_vars
  PROVE  Answered'
<1> USE CreationAssumption
<1> USE DEF TypeOK, At, Goto, body, Kind, Answered, Formed, JobOf, WorkflowOf
<1>1. ASSUME NEW r \in Request, NEW k \in Kind, Receive(r, k) PROVE Answered'
  BY <1>1 DEF Receive
<1>2. ASSUME NEW r \in Request, Authorize(r) PROVE Answered'
  BY <1>2 DEF Authorize
<1>3. ASSUME NEW r \in Request, Find(r) PROVE Answered'
  BY <1>3 DEF Find, Answer
<1>4. ASSUME NEW r \in Request, CreateWorkflow(r) PROVE Answered'
  BY <1>4 DEF CreateWorkflow, AfterConflict
<1>5. ASSUME NEW r \in Request, FindConcurrent(r) PROVE Answered'
  BY <1>5 DEF FindConcurrent, Answer
<1>6. ASSUME NEW r \in Request, Reread(r) PROVE Answered'
  BY <1>6 DEF Reread
<1>7. ASSUME NEW r \in Request, CreateJob(r) PROVE Answered'
  BY <1>7 DEF CreateJob, AfterJobConflict, Answer
<1>8. ASSUME NEW r \in Request, FindAgain(r) PROVE Answered'
  BY <1>8 DEF FindAgain, Answer
<1>9. ASSUME NEW r \in Request, Load(r) PROVE Answered'
  BY <1>9 DEF Load
<1>10. ASSUME NEW r \in Request, FindRetry(r) PROVE Answered'
  BY <1>10 DEF FindRetry, Answer
<1>11. ASSUME NEW r \in Request, CreateRetry(r) PROVE Answered'
  BY <1>11 DEF CreateRetry, Answer
<1>12. ASSUME NEW r \in Request, ReadFails(r) PROVE Answered'
  BY <1>12 DEF ReadFails, Fail
<1>13. ASSUME NEW r \in Request, InsertFails(r) PROVE Answered'
  <2>1. CASE At(r, "workflow")
    BY <1>13, <2>1 DEF InsertFails, AfterConflict, Fail
  <2>2. CASE At(r, "job")
    BY <1>13, <2>2 DEF InsertFails, AfterJobConflict, Fail
  <2>3. CASE At(r, "insert")
    BY <1>13, <2>3 DEF InsertFails, Fail
  <2> QED
    BY <1>13, <2>1, <2>2, <2>3 DEF InsertFails
<1>14. ASSUME NEW j \in JobId, JobEnds(j) PROVE Answered'
  BY <1>14 DEF JobEnds
<1>15. CASE DeleteSource
  BY <1>15 DEF DeleteSource
<1>16. CASE UNCHANGED vars
  BY <1>16 DEF vars
<1> QED
  BY <1>1, <1>2, <1>3, <1>4, <1>5, <1>6, <1>7, <1>8, <1>9, <1>10, <1>11, <1>12, <1>13,
     <1>14, <1>15, <1>16 DEF Next, Step

\* What one step can do to the rows, and to a request other than its own.
LEMMA StepsKeep ==
  ASSUME TypeOK, Formed, [Next]_vars
  PROVE  /\ jobs \subseteq jobs' /\ workflows \subseteq workflows'
         /\ \A q \in Request : pc[q] # "idle" =>
              /\ kind'[q] = kind[q] /\ key'[q] = key[q]
              /\ span'[q] = span[q] /\ original'[q] = original[q]
         /\ \A q \in Request : pc'[q] = pc[q] \/ Step(q)
<1> DEFINE Kept == /\ jobs \subseteq jobs' /\ workflows \subseteq workflows'
                   /\ \A q \in Request : pc[q] # "idle" =>
                        /\ kind'[q] = kind[q] /\ key'[q] = key[q]
                        /\ span'[q] = span[q] /\ original'[q] = original[q]
           Own(r) == \A q \in Request : q # r => pc'[q] = pc[q]
<1>0. SUFFICES Kept /\ \A q \in Request : pc'[q] = pc[q] \/ Step(q)
  BY Zenon DEF Kept
<1>1. ASSUME NEW r \in Request, Step(r) PROVE Kept /\ Own(r)
  <2> USE DEF TypeOK, At, Goto, body, Kept, Own
  <2>1. ASSUME NEW k \in Kind, Receive(r, k) PROVE Kept /\ Own(r)
    BY <2>1 DEF Receive
  <2>2. CASE Authorize(r) \/ Find(r) \/ CreateWorkflow(r)
    BY <2>2 DEF Authorize, Find, CreateWorkflow, Answer
  <2>3. CASE FindConcurrent(r) \/ Reread(r) \/ CreateJob(r) \/ FindAgain(r)
    BY <2>3 DEF FindConcurrent, Reread, CreateJob, FindAgain, Answer
  <2>4. CASE Load(r) \/ FindRetry(r) \/ CreateRetry(r) \/ ReadFails(r)
    BY <2>4 DEF Load, FindRetry, CreateRetry, ReadFails, Answer
  <2>5. CASE InsertFails(r)
    BY <2>5 DEF InsertFails
  <2> QED
    BY <1>1, <2>1, <2>2, <2>3, <2>4, <2>5, Zenon DEF Step
<1>2. ASSUME NEW j \in JobId, JobEnds(j) PROVE Kept /\ pc' = pc
  BY <1>2 DEF JobEnds, body
<1>3. CASE DeleteSource
  BY <1>3 DEF DeleteSource, body
<1>4. CASE UNCHANGED vars
  BY <1>4 DEF vars
<1> HIDE DEF Kept
<1> QED
  BY <1>1, <1>2, <1>3, <1>4, Zenon DEF Next

\* Why a Workflow may be without a Job of its own.
Excused(w) ==
  \/ <<w, 0>> \in jobs
  \/ \E r \in Request : WorkflowOf(r) = w /\ pc[r] \in {"job", "conflict", "reread"}
  \/ w \in Request /\ pc[w] = "raised" /\ CacheKeyTaken(w)

\* An excuse holds until the Job is there: a request at "job" either inserts it or
\* finds it inserted, unless it is a correction whose span was corrected before.
LEMMA ExcusesLast ==
  ASSUME TypeOK, Formed, [Next]_vars, faults = 0, faults' = 0,
         NEW w \in workflows, Excused(w)
  PROVE  Excused(w)'
<1> USE CreationAssumption, StepsKeep
<1>1. CASE <<w, 0>> \in jobs
  BY <1>1 DEF Excused
<1>2. CASE w \in Request /\ pc[w] = "raised" /\ CacheKeyTaken(w)
  <2>1. pc'[w] = "raised"
    <3>1. ~Step(w)
      BY <1>2 DEF Step, Receive, Authorize, Find, CreateWorkflow, FindConcurrent, Reread,
         CreateJob, FindAgain, Load, FindRetry, CreateRetry, ReadFails, InsertFails, At
    <3> QED
      BY <1>2, <3>1
  <2>2. PICK q \in Request : SameCacheKey(w, q) /\ JobOf(q) \in jobs
    BY <1>2 DEF CacheKeyTaken
  <2>3. pc[q] # "idle" /\ pc[w] # "idle"
    BY <1>2, <2>2 DEF SameCacheKey, Formed, Kind
  <2>4. SameCacheKey(w, q)' /\ JobOf(q)' \in jobs'
    BY <1>2, <2>2, <2>3 DEF SameCacheKey, JobOf, WorkflowOf
  <2> QED
    BY <1>2, <2>1, <2>4 DEF Excused, CacheKeyTaken
<1>3. ASSUME NEW r \in Request, WorkflowOf(r) = w, pc[r] \in {"job", "conflict", "reread"}
      PROVE  Excused(w)'
  <2>1. WorkflowOf(r)' = w
    BY <1>3 DEF WorkflowOf
  <2>2. CASE pc'[r] \in {"job", "conflict", "reread"}
    BY <2>1, <2>2 DEF Excused
  <2>3. CASE pc'[r] \notin {"job", "conflict", "reread"}
    <3>1. Step(r)
      BY <1>3, <2>3
    <3>2. FindConcurrent(r) \/ Reread(r) \/ CreateJob(r)
      BY <1>3, <3>1 DEF Step, Receive, Authorize, Find, CreateWorkflow, FindAgain, Load,
         FindRetry, CreateRetry, ReadFails, InsertFails, At, Fail
    <3>3. CASE FindConcurrent(r) \/ Reread(r)
      BY <1>3, <2>3, <3>3 DEF FindConcurrent, Reread, JobOf, Goto, Excused, TypeOK
    <3>4. CASE CreateJob(r)
      <4>1. CASE JobOf(r) \in jobs'
        BY <1>3, <4>1 DEF JobOf, Excused
      <4>2. CASE JobOf(r) \notin jobs'
        <5>1. CacheKeyTaken(r) /\ pc' = [pc EXCEPT ![r] = AfterJobConflict(r)]
          BY <3>4, <4>2 DEF CreateJob, Goto
        <5>2. PICK q \in Request : SameCacheKey(r, q) /\ JobOf(q) \in jobs
          BY <5>1 DEF CacheKeyTaken
        <5>3. pc[q] # "idle" /\ w = r /\ pc'[r] = "raised"
          BY <1>3, <5>1, <5>2
             DEF SameCacheKey, AfterJobConflict, WorkflowOf, Formed, Kind, TypeOK
        <5>4. SameCacheKey(r, q)' /\ JobOf(q)' \in jobs'
          BY <1>3, <5>2, <5>3 DEF SameCacheKey, JobOf, WorkflowOf
        <5> QED
          BY <5>3, <5>4 DEF Excused, CacheKeyTaken
      <4> QED
        BY <4>1, <4>2
    <3> QED
      BY <3>2, <3>3, <3>4
  <2> QED
    BY <2>2, <2>3
<1> QED
  BY <1>1, <1>2, <1>3 DEF Excused

LEMMA NoOrphanNext ==
  ASSUME TypeOK, Formed, NoOrphanWorkflows, [Next]_vars
  PROVE  NoOrphanWorkflows'
<1> SUFFICES ASSUME faults' = 0, NEW w \in workflows' PROVE Excused(w)'
  BY DEF NoOrphanWorkflows, Excused
<1>1. faults = 0
  BY CreationAssumption DEF TypeOK, Next, Step, vars, Receive, Authorize, Find,
     CreateWorkflow, FindConcurrent, Reread, CreateJob, FindAgain, Load, FindRetry,
     CreateRetry, ReadFails, InsertFails, Fail, JobEnds, DeleteSource
<1>2. CASE w \in workflows
  BY <1>1, <1>2, ExcusesLast DEF NoOrphanWorkflows, Excused
<1>3. CASE w \notin workflows
  <2>1. PICK r \in Request : CreateWorkflow(r)
    BY <1>1, <1>3 DEF Next, Step, vars, Receive, Authorize, Find, FindConcurrent, Reread,
       CreateJob, FindAgain, Load, FindRetry, CreateRetry, ReadFails, InsertFails, Fail,
       JobEnds, DeleteSource
  <2>2. w = WorkflowOf(r) /\ pc'[r] = "job" /\ WorkflowOf(r)' = WorkflowOf(r)
    BY <1>3, <2>1 DEF CreateWorkflow, Goto, TypeOK, WorkflowOf, body
  <2> QED
    BY <2>2 DEF Excused
<1> QED
  BY <1>2, <1>3

\* The Job to be retried ended without success when it was looked at, and still is.
Retriable ==
  \A r \in Request : pc[r] \in {"known", "insert"} =>
    stage[original[r]] \in {"failed", "cancelled"}

\* Of the jobs of a set, those that were retried ended without success.
EarnedIn(S) == \A j \in S : RetryOf(j) \in S => stage[j] \in {"failed", "cancelled"}

LEMMA FirstJobsAreEarned ==
  ASSUME TypeOK, Formed, Grounded, EarnedIn(jobs), NEW r \in Request
  PROVE  EarnedIn(jobs \cup {JobOf(r)})
<1>1. \A j \in JobId : RetryOf(j) # JobOf(r)
  BY CreationAssumption, RetriesAreNotFirst, JobOfIsAJob DEF JobOf
<1>2. \A j \in JobId : RetryOf(j) \in jobs => j \in jobs
  BY DEF Grounded
<1> QED
  BY <1>1, <1>2, CreationAssumption, JobOfIsAJob DEF EarnedIn, TypeOK

LEMMA RetriesOfEndedAreEarned ==
  ASSUME TypeOK, Formed, Grounded, Retriable, EarnedIn(jobs), NEW r \in Request,
         At(r, "insert")
  PROVE  EarnedIn(jobs \cup {RetryOf(original[r])})
<1> DEFINE o == original[r]
<1>1. o \in jobs /\ o[2] < MaxRetries /\ stage[o] \in {"failed", "cancelled"}
  BY DEF Formed, At, Retriable
<1>2. o \in JobId /\ RetryOf(o) \in JobId
  BY <1>1, CreationAssumption, RetryIsAJob DEF TypeOK
<1>3. \A j \in JobId : RetryOf(j) \in jobs => j \in jobs
  BY DEF Grounded
<1>4. \A j \in JobId : RetryOf(j) = RetryOf(o) => j = o
  BY <1>2, CreationAssumption, RetryIsInjective
<1> HIDE DEF o
<1>5. SUFFICES EarnedIn(jobs \cup {RetryOf(o)})
  BY DEF o
<1> QED
  BY <1>1, <1>2, <1>3, <1>4 DEF EarnedIn, TypeOK

\* A request to retry that raises has found the retry inserted.
Raced == faults = 0 =>
  \A r \in Request : kind[r] = "retry" /\ pc[r] = "raised" => RetryOf(original[r]) \in jobs

LEMMA RetriesNext ==
  ASSUME TypeOK, Formed, Grounded, Retriable, EarnedIn(jobs), Raced, [Next]_vars
  PROVE  Retriable' /\ EarnedIn(jobs)' /\ Raced'
<1> USE DEF TypeOK, At, Goto, body, Kind, Formed, Fail, EarnedIn, Retriable, Raced
<1>1. ASSUME NEW r \in Request, NEW k \in Kind, Receive(r, k) PROVE Retriable' /\ EarnedIn(jobs)' /\ Raced'
  BY <1>1 DEF Receive
<1>2. ASSUME NEW r \in Request, Authorize(r) PROVE Retriable' /\ EarnedIn(jobs)' /\ Raced'
  BY <1>2 DEF Authorize
<1>3. ASSUME NEW r \in Request, Find(r) PROVE Retriable' /\ EarnedIn(jobs)' /\ Raced'
  BY <1>3 DEF Find, Answer
<1>4. ASSUME NEW r \in Request, CreateWorkflow(r) PROVE Retriable' /\ EarnedIn(jobs)' /\ Raced'
  BY <1>4 DEF CreateWorkflow, AfterConflict
<1>5. ASSUME NEW r \in Request, FindConcurrent(r) PROVE Retriable' /\ EarnedIn(jobs)' /\ Raced'
  BY <1>5 DEF FindConcurrent, Answer
<1>6. ASSUME NEW r \in Request, Reread(r) PROVE Retriable' /\ EarnedIn(jobs)' /\ Raced'
  BY <1>6 DEF Reread
<1>7. ASSUME NEW r \in Request, CreateJob(r) PROVE Retriable' /\ EarnedIn(jobs)' /\ Raced'
  <2>1. EarnedIn(jobs')
    <3>1. jobs' = jobs \/ jobs' = jobs \cup {JobOf(r)}
      BY <1>7 DEF CreateJob
    <3> QED
      BY <3>1, FirstJobsAreEarned
  <2> HIDE DEF EarnedIn
  <2> QED
    BY <1>7, <2>1, StepsKeep DEF CreateJob, AfterJobConflict, Answer, EarnedIn
<1>8. ASSUME NEW r \in Request, FindAgain(r) PROVE Retriable' /\ EarnedIn(jobs)' /\ Raced'
  BY <1>8 DEF FindAgain, Answer
<1>9. ASSUME NEW r \in Request, Load(r) PROVE Retriable' /\ EarnedIn(jobs)' /\ Raced'
  BY <1>9 DEF Load
<1>10. ASSUME NEW r \in Request, FindRetry(r) PROVE Retriable' /\ EarnedIn(jobs)' /\ Raced'
  BY <1>10 DEF FindRetry, Answer
<1>11. ASSUME NEW r \in Request, CreateRetry(r) PROVE Retriable' /\ EarnedIn(jobs)' /\ Raced'
  <2>1. EarnedIn(jobs')
    <3>1. jobs' = jobs \/ jobs' = jobs \cup {RetryOf(original[r])}
      BY <1>11 DEF CreateRetry
    <3> QED
      BY <1>11, <3>1, RetriesOfEndedAreEarned DEF CreateRetry
  <2> HIDE DEF EarnedIn
  <2> QED
    BY <1>11, <2>1 DEF CreateRetry, Answer, EarnedIn, RetryOf
<1>12. ASSUME NEW r \in Request, ReadFails(r) PROVE Retriable' /\ EarnedIn(jobs)' /\ Raced'
  BY <1>12 DEF ReadFails, Fail
<1>13. ASSUME NEW r \in Request, InsertFails(r) PROVE Retriable' /\ EarnedIn(jobs)' /\ Raced'
  <2>1. EarnedIn(jobs')
    <3>1. \/ jobs' = jobs \/ jobs' = jobs \cup {JobOf(r)}
          \/ At(r, "insert") /\ jobs' = jobs \cup {RetryOf(original[r])}
      BY <1>13 DEF InsertFails
    <3> QED
      BY <3>1, FirstJobsAreEarned, RetriesOfEndedAreEarned
  <2> HIDE DEF EarnedIn
  <2>2. faults' # 0 /\ stage' = stage /\ original' = original
    BY <1>13, CreationAssumption DEF InsertFails
  <2>3. \A q \in Request : pc'[q] \in {"known", "insert"} => pc'[q] = pc[q]
    BY <1>13 DEF InsertFails, AfterConflict, AfterJobConflict
  <2> QED
    BY <2>1, <2>2, <2>3 DEF EarnedIn
<1>14. ASSUME NEW j \in JobId, JobEnds(j) PROVE Retriable' /\ EarnedIn(jobs)' /\ Raced'
  BY <1>14 DEF JobEnds
<1>15. CASE DeleteSource
  BY <1>15 DEF DeleteSource
<1>16. CASE UNCHANGED vars
  BY <1>16 DEF vars
<1> QED
  BY <1>1, <1>2, <1>3, <1>4, <1>5, <1>6, <1>7, <1>8, <1>9, <1>10, <1>11, <1>12, <1>13,
     <1>14, <1>15, <1>16 DEF Next, Step

(* The theorems *)

\* Every part of the argument, as one inductive invariant.
CreationInvariant ==
  /\ TypeOK /\ Formed /\ Grounded
  /\ Reached /\ Answered /\ NoOrphanWorkflows
  /\ Retriable /\ EarnedIn(jobs) /\ Raced

LEMMA CreationInit == Init => CreationInvariant
<1> SUFFICES ASSUME Init PROVE CreationInvariant
  OBVIOUS
<1>1. TypeOK /\ Formed
  BY FormedInit
<1>2. jobs = {} /\ workflows = {} /\ \A r \in Request : pc[r] = "idle"
  BY DEF Init
<1>3. Grounded /\ Reached /\ Answered
  BY <1>2 DEF Grounded, Reached, Answered
<1>4. NoOrphanWorkflows
  BY <1>2 DEF NoOrphanWorkflows
<1>5. Retriable /\ EarnedIn(jobs) /\ Raced
  BY <1>2 DEF Retriable, EarnedIn, Raced
<1> QED
  BY <1>1, <1>3, <1>4, <1>5 DEF CreationInvariant

LEMMA CreationHolds == Spec => []CreationInvariant
<1>1. CreationInvariant /\ [Next]_vars => CreationInvariant'
  <2> SUFFICES ASSUME CreationInvariant, [Next]_vars PROVE CreationInvariant'
    OBVIOUS
  <2> USE DEF CreationInvariant
  <2>1. TypeOK' /\ Formed'
    BY FormedNext
  <2>2. Grounded' /\ Reached' /\ Answered'
    BY GroundedNext, ReachedNext, AnsweredNext
  <2>3. NoOrphanWorkflows' /\ Retriable' /\ EarnedIn(jobs)' /\ Raced'
    BY NoOrphanNext, RetriesNext
  <2> QED
    BY <2>1, <2>2, <2>3
<1> QED
  BY <1>1, CreationInit, PTL DEF Spec

\* Every reachable state is of its type.
THEOREM CreationTypesCorrect == Spec => []TypeOK
BY CreationHolds, PTL DEF CreationInvariant

\* Without a failed call, and with the source there, an idempotent route succeeds.
THEOREM IdempotentRoutesReachTheirJob == Spec => []IdempotentRoutesSucceed
<1>1. CreationInvariant => IdempotentRoutesSucceed
  BY DEF CreationInvariant, Reached, IdempotentRoutesSucceed
<1> QED
  BY <1>1, CreationHolds, PTL

\* An answer names a Job that is there, in its Workflow; one key has one answer.
THEOREM AnswersAreAboutOneJob == Spec => []AnswersAgree
<1>1. CreationInvariant => AnswersAgree
  BY DEF CreationInvariant, Grounded, Answered, AnswersAgree, JobOf, WorkflowOf
<1> QED
  BY <1>1, CreationHolds, PTL

\* Without a failed call a Workflow without a Job is one a request will still give
\* a Job, or that of a correction in the way of which another one was.
THEOREM WorkflowsGetTheirJob == Spec => []NoOrphanWorkflows
BY CreationHolds, PTL DEF CreationInvariant

\* A retry is of a Job that ended without success, and racing retries agree.
THEOREM RetriesAreOfEndedJobs == Spec => []RetriesAreEarned
<1>1. CreationInvariant => RetriesAreEarned
  BY DEF CreationInvariant, EarnedIn, Raced, RetriesAreEarned
<1> QED
  BY <1>1, CreationHolds, PTL
=============================================================================
