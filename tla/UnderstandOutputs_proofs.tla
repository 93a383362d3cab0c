----------------------- MODULE UnderstandOutputs_proofs -----------------------
(***************************************************************************)
(* Proofs about UnderstandOutputs, for every set of Jobs and tokens and    *)
(* every number of retries.                                                *)
(***************************************************************************)
EXTENDS UnderstandOutputs, TLAPS

\* What storing a part adds: one row of the Job that its execution works on.
LEMMA AddedOutput ==
    ASSUME NEW t, AddOutput(t)
    PROVE  \E o : /\ o = [job |-> jobOf[t], by |-> t, part |-> NextPart(t)]
                  /\ o.job = jobOf[t] /\ o.by = t /\ o.part = NextPart(t)
                  /\ outputs' = outputs \cup {o}
<1> DEFINE o == [job |-> jobOf[t], by |-> t, part |-> NextPart(t)]
<1>1. o.job = jobOf[t] /\ o.by = t /\ o.part = NextPart(t)
  OBVIOUS
<1>2. outputs' = outputs \cup {o}
  BY DEF AddOutput
<1> QED
  BY <1>1, <1>2, Zenon

\* TypeOK is inductive by itself.
THEOREM HandlerTypesCorrect == Spec => []TypeOK
<1> USE UnderstandAssumption DEF Jobs!Active, Jobs!Terminal, Jobs!Stage, Working, Pc,
        Output, Bytes, Part, jobVars, threadVars
<1>1. Init => TypeOK
  BY DEF Init, Jobs!Init, TypeOK
<1>2. TypeOK /\ [Next]_vars => TypeOK'
  <2> SUFFICES ASSUME TypeOK, [Next]_vars PROVE TypeOK'
    OBVIOUS
  <2> USE DEF TypeOK, Goto, Jobs!SetStage
  <2>1. ASSUME NEW j \in Job, Create(j) PROVE TypeOK'
    BY <2>1 DEF Create, Jobs!Submit
  <2>2. ASSUME NEW j \in Job, Cancel(j) PROVE TypeOK'
    BY <2>2 DEF Cancel, Jobs!Cancel
  <2>3. ASSUME NEW j \in Job, NEW k \in Job, Retry(j, k) PROVE TypeOK'
    BY <2>3 DEF Retry, Jobs!Submit
  <2>4. ASSUME DeleteProject PROVE TypeOK'
    BY <2>4 DEF DeleteProject, Jobs!Delete
  <2>5. ASSUME NEW t \in Token, NEW j \in Job, Receive(t, j) PROVE TypeOK'
    BY <2>5 DEF Receive, Jobs!Grant
  <2>6. ASSUME NEW t \in Token, Begin(t) PROVE TypeOK'
    <3>1. jobOf[t] \in Job
      BY <2>6 DEF Begin
    <3> QED
      BY <2>6, <3>1 DEF Begin, Jobs!Start
  <2>7. ASSUME NEW t \in Token, ReadLeftovers(t) PROVE TypeOK'
    BY <2>7 DEF ReadLeftovers, RemoveBytes, VersionsIn
  <2>8. ASSUME NEW t \in Token, DeleteLeftovers(t) PROVE TypeOK'
    BY <2>8 DEF DeleteLeftovers, Without
  <2>9. ASSUME NEW t \in Token, Storing(t)
        PROVE  /\ NextPart(t) \in Part /\ jobOf[t] \in Job
               /\ stored[t] + 1 \in 0..Len(Parts)
    BY <2>9 DEF Storing, NextPart, Parts
  <2>10. ASSUME NEW t \in Token, Upload(t) PROVE TypeOK'
    BY <2>9, <2>10 DEF Upload
  <2>11. ASSUME NEW t \in Token, Storing(t), AddOutput(t) PROVE outputs' \subseteq Output
    BY <2>9, <2>11 DEF AddOutput
  <2>12. ASSUME NEW t \in Token, Publish(t) PROVE TypeOK'
    <3>1. outputs' \subseteq Output
      BY <2>11, <2>12 DEF Publish
    <3>2. stored' \in [Token -> 0..Len(Parts)]
      BY <2>9, <2>12 DEF Publish, Count
    <3> QED
      BY <2>12, <3>1, <3>2 DEF Publish, Storing, Jobs!Publish
  <2>13. ASSUME NEW t \in Token, InsertFacts(t) PROVE TypeOK'
    <3>1. outputs' \subseteq Output
      BY <2>11, <2>13 DEF InsertFacts
    <3>2. stored' \in [Token -> 0..Len(Parts)]
      BY <2>9, <2>13 DEF InsertFacts, Count
    <3> QED
      BY <2>13, <3>1, <3>2 DEF InsertFacts, Storing
  <2>14. ASSUME NEW t \in Token, Raise(t) PROVE TypeOK'
    BY <2>14 DEF Raise
  <2>15. ASSUME NEW t \in Token, Return(t) PROVE TypeOK'
    BY <2>15 DEF Return
  <2>16. ASSUME NEW t \in Token, Finish(t) PROVE TypeOK'
    <3>1. jobOf[t] \in Job /\ pc[t] # "unused"
      BY <2>16 DEF Finish
    <3>2. /\ pc' = [pc EXCEPT ![t] = "over"]
          /\ UNCHANGED <<token, issued, retryOf, outputs, objects, jobOf, failures,
                         leftovers, stored>>
      BY <2>16 DEF Finish, Jobs!Succeed, Jobs!Requeue, Jobs!Fail
    <3>3. result' \in [Job -> Token \cup {NoToken}]
      BY <2>16, <3>1 DEF Finish
    <3>4. /\ stage' \in [Job -> Jobs!Stage]
          /\ retries' \in [Job -> 0..MaxRetries]
      <4>1. CASE UNCHANGED <<stage, retries>>
        BY <4>1
      <4>2. CASE Jobs!Succeed(jobOf[t]) \/ Jobs!Fail(jobOf[t])
        BY <3>1, <4>2 DEF Jobs!Succeed, Jobs!Fail
      <4>3. CASE Jobs!Requeue(jobOf[t])
        BY <3>1, <4>3 DEF Jobs!Requeue
      <4> QED
        BY <2>16, <4>1, <4>2, <4>3 DEF Finish
    <3> QED
      BY <3>1, <3>2, <3>3, <3>4
  <2>17. ASSUME NEW t \in Token, Die(t) PROVE TypeOK'
    BY <2>17 DEF Die
  <2>18. CASE UNCHANGED vars
    BY <2>18 DEF vars
  <2> QED
    BY <2>1, <2>2, <2>3, <2>4, <2>5, <2>6, <2>7, <2>8, <2>10, <2>12, <2>13, <2>14,
       <2>15, <2>16, <2>17, <2>18
    DEF Next, Step
<1> QED
  BY <1>1, <1>2, PTL DEF Spec

\* Bytes are stored before the Version that needs them is published, and no
\* execution can take them away again: nothing else is needed.
THEOREM PublishedVersionsHaveBytes == Spec => []VersionsHaveBytes
<1> USE DEF VersionsIn, VersionsHaveBytes
<1>1. Init => VersionsHaveBytes
  BY DEF Init
<1>2. VersionsHaveBytes /\ [Next]_vars => VersionsHaveBytes'
  <2> SUFFICES ASSUME VersionsHaveBytes, [Next]_vars PROVE VersionsHaveBytes'
    OBVIOUS
  <2>1. ASSUME NEW t \in Token, Publish(t) PROVE VersionsHaveBytes'
    <3>1. CASE UNCHANGED outputs
      BY <2>1, <3>1 DEF Publish
    <3>2. CASE AddOutput(t)
      BY <2>1, <3>2, AddedOutput DEF Publish
    <3> QED
      BY <2>1, <3>1, <3>2 DEF Publish
  <2>2. ASSUME NEW t \in Token, InsertFacts(t) PROVE VersionsHaveBytes'
    <3>1. CASE UNCHANGED outputs
      BY <2>2, <3>1 DEF InsertFacts
    <3>2. CASE AddOutput(t)
      BY <2>2, <3>2, AddedOutput DEF InsertFacts
    <3> QED
      BY <2>2, <3>1, <3>2 DEF InsertFacts
  <2>3. ASSUME NEW t \in Token, Upload(t) PROVE VersionsHaveBytes'
    BY <2>3 DEF Upload
  <2>4. ASSUME NEW t \in Token, DeleteLeftovers(t) PROVE VersionsHaveBytes'
    BY <2>4 DEF DeleteLeftovers, Without
  <2>5. ASSUME NEW t \in Token, ReadLeftovers(t) PROVE VersionsHaveBytes'
    BY <2>5 DEF ReadLeftovers, RemoveBytes
  <2>6. ASSUME NEW t \in Token,
               Begin(t) \/ Raise(t) \/ Return(t) \/ Finish(t) \/ Die(t)
        PROVE  VersionsHaveBytes'
    BY <2>6 DEF Begin, Raise, Return, Finish, Die
  <2>7. ASSUME \/ \E j \in Job : Create(j) \/ Cancel(j)
               \/ \E j, k \in Job : Retry(j, k)
               \/ DeleteProject
               \/ \E t \in Token, j \in Job : Receive(t, j)
               \/ UNCHANGED vars
        PROVE  VersionsHaveBytes'
    BY <2>7 DEF Create, Cancel, Retry, DeleteProject, Receive, vars
  <2> QED
    BY <2>1, <2>2, <2>3, <2>4, <2>5, <2>6, <2>7 DEF Next, Step
<1> QED
  BY <1>1, <1>2, PTL DEF Spec

----------------------------------------------------------------------------
(* Who owns what. *)

Dead == {"failed", "cancelled", "deleted"}

\* A row that exists does not become absent, and a Job that ended without
\* success, or was deleted, stays that way.
LEMMA StagesOnlyAdvance ==
    ASSUME TypeOK, [Next]_vars
    PROVE  \A j \in Job : /\ stage[j] # "absent" => stage'[j] # "absent"
                          /\ stage[j] \in Dead => stage'[j] \in Dead
<1> USE DEF TypeOK, Jobs!SetStage, Jobs!Active, Dead
<1>1. ASSUME NEW j \in Job, Create(j) \/ Cancel(j)
      PROVE  \A i \in Job : /\ stage[i] # "absent" => stage'[i] # "absent"
                            /\ stage[i] \in Dead => stage'[i] \in Dead
  BY <1>1 DEF Create, Cancel, Jobs!Submit, Jobs!Cancel
<1>2. ASSUME NEW j \in Job, NEW k \in Job, Retry(j, k)
      PROVE  \A i \in Job : /\ stage[i] # "absent" => stage'[i] # "absent"
                            /\ stage[i] \in Dead => stage'[i] \in Dead
  BY <1>2 DEF Retry, Jobs!Submit
<1>3. ASSUME DeleteProject
      PROVE  \A i \in Job : /\ stage[i] # "absent" => stage'[i] # "absent"
                            /\ stage[i] \in Dead => stage'[i] \in Dead
  BY <1>3 DEF DeleteProject, Jobs!Delete
<1>4. ASSUME NEW t \in Token, NEW j \in Job, Receive(t, j)
      PROVE  \A i \in Job : /\ stage[i] # "absent" => stage'[i] # "absent"
                            /\ stage[i] \in Dead => stage'[i] \in Dead
  BY <1>4 DEF Receive, Jobs!Grant
<1>5. ASSUME NEW t \in Token, Begin(t)
      PROVE  \A i \in Job : /\ stage[i] # "absent" => stage'[i] # "absent"
                            /\ stage[i] \in Dead => stage'[i] \in Dead
  BY <1>5 DEF Begin, Jobs!Start, jobVars
<1>6. ASSUME NEW t \in Token, Finish(t)
      PROVE  \A i \in Job : /\ stage[i] # "absent" => stage'[i] # "absent"
                            /\ stage[i] \in Dead => stage'[i] \in Dead
  <2>1. CASE UNCHANGED jobVars
    BY <2>1 DEF jobVars
  <2>2. CASE Jobs!Succeed(jobOf[t]) \/ Jobs!Fail(jobOf[t]) \/ Jobs!Requeue(jobOf[t])
    BY <2>2 DEF Jobs!Succeed, Jobs!Fail, Jobs!Requeue
  <2> QED
    BY <1>6, <2>1, <2>2 DEF Finish
<1>7. ASSUME \/ \E t \in Token : \/ ReadLeftovers(t) \/ DeleteLeftovers(t) \/ Upload(t)
                                  \/ Publish(t) \/ InsertFacts(t) \/ Raise(t)
                                  \/ Return(t) \/ Die(t)
             \/ UNCHANGED vars
      PROVE  stage' = stage
  BY <1>7 DEF ReadLeftovers, DeleteLeftovers, Upload, Publish, InsertFacts, Raise, Return,
              Die, Jobs!Publish, jobVars, vars
<1> QED
  BY <1>1, <1>2, <1>3, <1>4, <1>5, <1>6, <1>7 DEF Next, Step

\* After a Project is deleted no Job of it is at any other stage.
LEMMA DeletedProjectsAreStill ==
    ASSUME TypeOK, DeleteProject, NEW j \in Job
    PROVE  stage'[j] \in {"absent", "deleted"}
BY DEF TypeOK, DeleteProject, Jobs!Delete

\* Jobs are deleted with their Project, and never come back.
LEMMA OnlyProjectsAreDeleted ==
    ASSUME TypeOK, [Next]_vars, ~DeleteProject, NEW j \in Job
    PROVE  stage'[j] = "deleted" <=> stage[j] = "deleted"
<1> USE DEF TypeOK, Jobs!SetStage, Jobs!Active
<1>1. ASSUME \/ \E i \in Job : Create(i) \/ Cancel(i)
             \/ \E i, k \in Job : Retry(i, k)
             \/ \E t \in Token, i \in Job : Receive(t, i)
      PROVE  stage'[j] = "deleted" <=> stage[j] = "deleted"
  BY <1>1
  DEF Create, Cancel, Retry, Receive, Jobs!Submit, Jobs!Cancel, Jobs!Grant
<1>2. ASSUME NEW t \in Token, Finish(t)
      PROVE  stage'[j] = "deleted" <=> stage[j] = "deleted"
  <2>1. CASE UNCHANGED jobVars
    BY <2>1 DEF jobVars
  <2>2. CASE Jobs!Succeed(jobOf[t]) \/ Jobs!Fail(jobOf[t]) \/ Jobs!Requeue(jobOf[t])
    BY <2>2 DEF Jobs!Succeed, Jobs!Fail, Jobs!Requeue
  <2> QED
    BY <1>2, <2>1, <2>2 DEF Finish
<1>3. ASSUME NEW t \in Token, Step(t), ~Finish(t)
      PROVE  stage'[j] = "deleted" <=> stage[j] = "deleted"
  BY <1>3
  DEF Step, Begin, ReadLeftovers, DeleteLeftovers, Upload, Publish, InsertFacts, Raise,
      Return, Die, Jobs!Start, Jobs!Publish, jobVars
<1> QED
  BY <1>1, <1>2, <1>3 DEF Next, jobVars, vars

\* Only a receive grants a token, and nothing else changes what a token is for.
LEMMA OnlyReceiveIssues ==
    ASSUME TypeOK, [Next]_vars, ~\E t \in Token, j \in Job : Receive(t, j)
    PROVE  /\ UNCHANGED <<token, issued, jobOf, failures>>
           /\ \A t \in Token : pc'[t] = "unused" <=> pc[t] = "unused"
<1> USE DEF TypeOK, Goto, jobVars, threadVars, Working
<1>1. ASSUME \/ \E j \in Job : Create(j) \/ Cancel(j)
             \/ \E j, k \in Job : Retry(j, k)
             \/ DeleteProject
             \/ UNCHANGED vars
      PROVE  UNCHANGED <<token, issued, threadVars>>
  BY <1>1 DEF Create, Cancel, Retry, DeleteProject, Jobs!Submit, Jobs!Cancel, Jobs!Delete, vars
<1>2. ASSUME NEW t \in Token, Step(t)
      PROVE  UNCHANGED <<token, issued, jobOf, failures>>
  <2>1. ASSUME Finish(t) PROVE UNCHANGED <<token, issued, jobOf, failures>>
    BY <2>1 DEF Finish, Jobs!Succeed, Jobs!Fail, Jobs!Requeue
  <2> QED
    BY <1>2, <2>1
    DEF Step, Begin, ReadLeftovers, DeleteLeftovers, Upload, Publish, InsertFacts, Raise,
        Return, Die, Jobs!Start, Jobs!Publish
<1>3. ASSUME NEW t \in Token, Step(t)
      PROVE  \/ pc' = pc
             \/ /\ pc[t] # "unused"
                /\ \E s \in {"read", "delete", "store", "returned", "raised", "over"} :
                      pc' = [pc EXCEPT ![t] = s]
  BY <1>3
  DEF Step, Begin, ReadLeftovers, DeleteLeftovers, Upload, Publish, InsertFacts, Raise,
      Return, Die, Finish, Storing
<1>4. ASSUME NEW t \in Token, Step(t)
      PROVE  \A u \in Token : pc'[u] = "unused" <=> pc[u] = "unused"
  BY <1>3, <1>4
<1> QED
  BY <1>1, <1>2, <1>4 DEF Next

\* The tokens granted are those of the threads, and of Jobs that have a row.
Granted ==
    \A t \in Token :
        /\ t \in issued <=> pc[t] # "unused"
        /\ pc[t] # "unused" => stage[jobOf[t]] # "absent"

\* The token of a row was granted for that Job.
HolderIsGranted ==
    \A j \in Job : token[j] # NoToken => pc[token[j]] # "unused" /\ jobOf[token[j]] = j

\* A retried Job failed or was cancelled, and so it stays, unless both are
\* deleted.
RetriedWithoutSuccess ==
    \A k \in Job : retryOf[k] \in Job =>
        /\ stage[k] # "absent" /\ stage[retryOf[k]] \in Dead
        /\ stage[retryOf[k]] = "deleted" => stage[k] = "deleted"

\* Every row is of the Job that its execution works on; facts have their MIDI.
OutputsAreOwn ==
    \A o \in outputs :
        /\ pc[o.by] # "unused" /\ jobOf[o.by] = o.job
        /\ o.part \in Fact => \E m \in outputs : m.by = o.by /\ m.part = "midi"

\* What a clean-up is about to delete are Versions of the Jobs it is meant for.
LeftoversAreOld ==
    \A t \in Token : \A g \in leftovers[t] :
        /\ pc[t] # "unused" /\ pc[g.by] # "unused"
        /\ jobOf[g.by] = g.job /\ g.job \in CleanupJobs(t) /\ g.part \notin Fact

Ownership ==
    Granted /\ HolderIsGranted /\ RetriedWithoutSuccess /\ OutputsAreOwn /\ LeftoversAreOld

\* What a clean-up is meant for does not change while its execution lasts: a Job
\* knows whom it retries from the start.
LEMMA CleanupJobsAreFixed ==
    ASSUME TypeOK, Granted, [Next]_vars, NEW t \in Token, pc[t] # "unused"
    PROVE  /\ CleanupJobs(t)' = CleanupJobs(t) /\ failures'[t] = failures[t]
           /\ retryOf'[jobOf[t]] = retryOf[jobOf[t]]
           /\ jobOf'[t] = jobOf[t] /\ pc'[t] # "unused"
<1> USE DEF TypeOK
<1>1. jobOf[t] \in Job /\ stage[jobOf[t]] # "absent"
  BY DEF Granted
<1>2. jobOf'[t] = jobOf[t] /\ failures'[t] = failures[t] /\ pc'[t] # "unused"
  <2>1. ASSUME NEW u \in Token, NEW j \in Job, Receive(u, j)
        PROVE  jobOf'[t] = jobOf[t] /\ failures'[t] = failures[t] /\ pc'[t] # "unused"
    BY <2>1 DEF Receive, Goto
  <2> QED
    BY <2>1, OnlyReceiveIssues
<1>3. retryOf'[jobOf[t]] = retryOf[jobOf[t]]
  <2>1. ASSUME NEW j \in Job, NEW k \in Job, Retry(j, k)
        PROVE  retryOf'[jobOf[t]] = retryOf[jobOf[t]]
    BY <1>1, <2>1 DEF Retry, Jobs!Submit
  <2>2. ASSUME ~\E j, k \in Job : Retry(j, k) PROVE retryOf' = retryOf
    BY <2>2
    DEF Next, Step, Create, Cancel, DeleteProject, Receive, Begin, ReadLeftovers,
        DeleteLeftovers, Upload, Publish, InsertFacts, Raise, Return, Die, Finish, vars
  <2> QED
    BY <2>1, <2>2
<1> QED
  BY <1>2, <1>3 DEF CleanupJobs

\* A receive grants an unused token, and no other step grants any.
LEMMA GrantedIsInductive ==
    ASSUME TypeOK, Granted, [Next]_vars
    PROVE  Granted'
<1> USE DEF TypeOK
<1>1. CASE \E t \in Token, j \in Job : Receive(t, j)
  <2>1. PICK t \in Token, j \in Job : Receive(t, j)
    BY <1>1
  <2>2. /\ pc' = [pc EXCEPT ![t] = "granted"] /\ jobOf' = [jobOf EXCEPT ![t] = j]
        /\ issued' = issued \cup {t} /\ stage[j] # "absent"
    BY <2>1 DEF Receive, Goto, Jobs!Grant, Jobs!Active
  <2> QED
    BY <2>2, StagesOnlyAdvance DEF Granted
<1>2. CASE ~\E t \in Token, j \in Job : Receive(t, j)
  BY <1>2, OnlyReceiveIssues, StagesOnlyAdvance DEF Granted
<1> QED
  BY <1>1, <1>2

\* A receive puts the token that it grants, for this Job, in the row.
LEMMA HolderIsGrantedIsInductive ==
    ASSUME TypeOK, HolderIsGranted, [Next]_vars
    PROVE  HolderIsGranted'
<1> USE DEF TypeOK
<1>1. CASE \E t \in Token, j \in Job : Receive(t, j)
  <2>1. PICK t \in Token, j \in Job : Receive(t, j)
    BY <1>1
  <2>2. /\ pc[t] = "unused" /\ pc' = [pc EXCEPT ![t] = "granted"]
        /\ jobOf' = [jobOf EXCEPT ![t] = j] /\ token' = [token EXCEPT ![j] = t]
    BY <2>1 DEF Receive, Goto, Jobs!Grant
  <2> QED
    BY <2>2 DEF HolderIsGranted
<1>2. CASE ~\E t \in Token, j \in Job : Receive(t, j)
  BY <1>2, OnlyReceiveIssues DEF HolderIsGranted
<1> QED
  BY <1>1, <1>2

\* A retry names a Job that failed or was cancelled; deletion takes both.
LEMMA RetriedIsInductive ==
    ASSUME TypeOK, RetriedWithoutSuccess, [Next]_vars
    PROVE  RetriedWithoutSuccess'
<1> USE UnderstandAssumption DEF TypeOK
<1>1. CASE \E j, k \in Job : Retry(j, k)
  <2>1. PICK j \in Job, k \in Job : Retry(j, k)
    BY <1>1
  <2>2. /\ retryOf' = [retryOf EXCEPT ![k] = j]
        /\ stage[j] \in Dead /\ stage[j] # "deleted" /\ stage[k] = "absent"
        /\ stage' = [stage EXCEPT ![k] = "queued"]
    BY <2>1 DEF Retry, Jobs!Submit, Jobs!SetStage, Dead
  <2> QED
    BY <2>2, StagesOnlyAdvance DEF RetriedWithoutSuccess
<1>2. CASE ~\E j, k \in Job : Retry(j, k)
  <2>1. retryOf' = retryOf
    BY <1>2
    DEF Next, Step, Create, Cancel, DeleteProject, Receive, Begin, ReadLeftovers,
        DeleteLeftovers, Upload, Publish, InsertFacts, Raise, Return, Die, Finish, vars
  <2>2. CASE DeleteProject
    BY <2>1, <2>2, StagesOnlyAdvance, DeletedProjectsAreStill DEF RetriedWithoutSuccess
  <2>3. CASE ~DeleteProject
    BY <2>1, <2>3, StagesOnlyAdvance, OnlyProjectsAreDeleted DEF RetriedWithoutSuccess
  <2> QED
    BY <2>2, <2>3
<1> QED
  BY <1>1, <1>2

\* The only steps that change rows: the Project goes, a holder adds its next
\* part, or a holder deletes what its clean-up read.
LEMMA HowOutputsChange ==
    ASSUME [Next]_vars
    PROVE  \/ outputs' = outputs
           \/ DeleteProject /\ outputs' = {}
           \/ \E t \in Token :
                 /\ Storing(t) /\ Holds(t) /\ AddOutput(t) /\ Count(t) /\ pc' = pc
                 /\ UNCHANGED <<stage, token, jobOf, leftovers>>
                 /\ NextPart(t) \in Fact =>
                       [job |-> jobOf[t], by |-> t, part |-> "midi"] \in outputs
           \/ \E t \in Token : DeleteLeftovers(t) /\ Holds(t) /\ outputs' = Without(leftovers[t])
<1>1. ASSUME NEW t \in Token, Publish(t), ~UNCHANGED outputs
      PROVE  /\ Storing(t) /\ Holds(t) /\ AddOutput(t) /\ Count(t) /\ pc' = pc
             /\ UNCHANGED <<stage, token, jobOf, leftovers>> /\ NextPart(t) \notin Fact
  BY <1>1 DEF Publish, Jobs!Publish
<1>2. ASSUME NEW t \in Token, InsertFacts(t), ~UNCHANGED outputs
      PROVE  /\ Storing(t) /\ Holds(t) /\ AddOutput(t) /\ Count(t) /\ pc' = pc
             /\ UNCHANGED <<stage, token, jobOf, leftovers>>
             /\ [job |-> jobOf[t], by |-> t, part |-> "midi"] \in outputs
  BY <1>2 DEF InsertFacts, jobVars
<1>3. ASSUME NEW t \in Token, DeleteLeftovers(t), ~UNCHANGED outputs
      PROVE  Holds(t) /\ outputs' = Without(leftovers[t])
  BY <1>3 DEF DeleteLeftovers, MayDelete
<1>4. ASSUME \/ \E j \in Job : Create(j) \/ Cancel(j)
             \/ \E j, k \in Job : Retry(j, k)
             \/ \E t \in Token, j \in Job : Receive(t, j)
             \/ \E t \in Token : \/ Begin(t) \/ ReadLeftovers(t) \/ Upload(t) \/ Raise(t)
                                  \/ Return(t) \/ Finish(t) \/ Die(t)
             \/ UNCHANGED vars
      PROVE  outputs' = outputs
  BY <1>4
  DEF Create, Cancel, Retry, Receive, Begin, ReadLeftovers, Upload, Raise, Return, Finish,
      Die, vars
<1>5. DeleteProject => outputs' = {}
  BY DEF DeleteProject
<1> QED
  BY <1>1, <1>2, <1>3, <1>4, <1>5 DEF Next, Step

\* Rows are added under the adder's Job, and facts after their MIDI; a deletion
\* that takes the MIDI takes its facts.
LEMMA OutputsAreOwnIsInductive ==
    ASSUME TypeOK, Ownership, [Next]_vars
    PROVE  OutputsAreOwn'
<1> USE DEF Ownership
<1>1. \A o \in outputs : pc'[o.by] # "unused" /\ jobOf'[o.by] = o.job
  BY CleanupJobsAreFixed DEF OutputsAreOwn, TypeOK, Output
<1>2. CASE outputs' = outputs
  BY <1>1, <1>2 DEF OutputsAreOwn
<1>3. CASE outputs' = {}
  BY <1>3 DEF OutputsAreOwn
<1>4. ASSUME NEW t \in Token, Storing(t), AddOutput(t),
             NextPart(t) \in Fact => [job |-> jobOf[t], by |-> t, part |-> "midi"] \in outputs
      PROVE  OutputsAreOwn'
  <2>1. PICK o : /\ o.job = jobOf[t] /\ o.by = t /\ o.part = NextPart(t)
                 /\ outputs' = outputs \cup {o}
    BY <1>4, AddedOutput
  <2>2. pc'[t] # "unused" /\ jobOf'[t] = jobOf[t]
    BY <1>4, CleanupJobsAreFixed DEF Storing
  <2>3. o.part \in Fact => \E m \in outputs : m.by = o.by /\ m.part = "midi"
    <3>1. ASSUME [job |-> jobOf[t], by |-> t, part |-> "midi"] \in outputs
          PROVE  \E m \in outputs : m.by = t /\ m.part = "midi"
      BY <3>1
    <3> QED
      BY <1>4, <2>1, <3>1
  <2> QED
    BY <1>1, <2>1, <2>2, <2>3 DEF OutputsAreOwn
<1>5. ASSUME NEW t \in Token, outputs' = Without(leftovers[t])
      PROVE  OutputsAreOwn'
  <2>1. outputs' \subseteq outputs
    BY <1>5 DEF Without
  <2>2. ASSUME NEW o \in outputs', o.part \in Fact
        PROVE  \E m \in outputs' : m.by = o.by /\ m.part = "midi"
    <3>1. PICK m \in outputs : m.by = o.by /\ m.part = "midi"
      BY <2>1, <2>2 DEF OutputsAreOwn
    <3>2. m \in outputs'
      BY <1>5, <2>2, <3>1 DEF Without, Fact
    <3> QED
      BY <3>1, <3>2
  <2> QED
    BY <1>1, <2>1, <2>2 DEF OutputsAreOwn
<1> QED
  BY <1>2, <1>3, <1>4, <1>5, HowOutputsChange

\* A clean-up plans to delete rows of the Jobs it is for, and they keep their Job.
LEMMA LeftoversAreOldIsInductive ==
    ASSUME TypeOK, Ownership, [Next]_vars
    PROVE  LeftoversAreOld'
<1> USE DEF Ownership
<1>1. ASSUME NEW t \in Token, NEW g \in leftovers[t]
      PROVE  /\ pc'[t] # "unused" /\ pc'[g.by] # "unused"
             /\ jobOf'[g.by] = g.job /\ g.job \in CleanupJobs(t)' /\ g.part \notin Fact
  BY <1>1, CleanupJobsAreFixed DEF LeftoversAreOld, TypeOK, Output
<1>2. CASE leftovers' = leftovers
  BY <1>1, <1>2 DEF LeftoversAreOld
<1>3. ASSUME NEW t \in Token, ReadLeftovers(t) PROVE LeftoversAreOld'
  <2> DEFINE found == {o \in VersionsIn(outputs) : o.job \in CleanupJobs(t)}
  <2>1. leftovers' = [leftovers EXCEPT ![t] = found] /\ pc[t] # "unused"
    BY <1>3 DEF ReadLeftovers
  <2>2. ASSUME NEW g \in found
        PROVE  /\ pc'[t] # "unused" /\ pc'[g.by] # "unused"
               /\ jobOf'[g.by] = g.job /\ g.job \in CleanupJobs(t)' /\ g.part \notin Fact
    BY <2>1, CleanupJobsAreFixed DEF OutputsAreOwn, VersionsIn, TypeOK, Output
  <2> HIDE DEF found
  <2>3. \A u \in Token : leftovers'[u] = IF u = t THEN found ELSE leftovers[u]
    BY <2>1 DEF TypeOK
  <2> QED
    BY <1>1, <2>2, <2>3 DEF LeftoversAreOld
<1>4. CASE ~\E t \in Token : ReadLeftovers(t)
  BY <1>2, <1>4
  DEF Next, Step, Create, Cancel, Retry, DeleteProject, Receive, Begin, DeleteLeftovers,
      Upload, Publish, InsertFacts, Raise, Return, Die, Finish, threadVars, vars
<1> QED
  BY <1>3, <1>4

\* Every row and every planned deletion belongs to the Job it is accounted to,
\* and what a Job retries stays unsuccessful.
THEOREM OwnershipHolds == Spec => []Ownership
<1>1. Init => Ownership
  BY UnderstandAssumption
  DEF Init, Jobs!Init, Ownership, Granted, HolderIsGranted, RetriedWithoutSuccess,
      OutputsAreOwn, LeftoversAreOld
<1>2. TypeOK /\ Ownership /\ [Next]_vars => Ownership'
  <2> SUFFICES ASSUME TypeOK, Ownership, [Next]_vars PROVE Ownership'
    OBVIOUS
  <2>1. Granted' /\ HolderIsGranted' /\ RetriedWithoutSuccess'
    BY GrantedIsInductive, HolderIsGrantedIsInductive, RetriedIsInductive DEF Ownership
  <2>2. OutputsAreOwn' /\ LeftoversAreOld'
    BY OutputsAreOwnIsInductive, LeftoversAreOldIsInductive
  <2> QED
    BY <2>1, <2>2 DEF Ownership
<1> QED
  BY <1>1, <1>2, HandlerTypesCorrect, PTL DEF Spec

----------------------------------------------------------------------------
(* What a clean-up finds and leaves. *)

\* Only its own begin makes an execution the holder of a running Job.
LEMMA HoldersBegin ==
    ASSUME TypeOK, Ownership, [Next]_vars, NEW t \in Token, pc[t] # "unused",
           Holds(t)', ~Begin(t)
    PROVE  Holds(t)
<1> USE DEF TypeOK, Holds, Jobs!SetStage
<1>1. jobOf[t] \in Job /\ jobOf'[t] = jobOf[t]
  BY CleanupJobsAreFixed DEF Ownership
<1>2. ASSUME \/ \E j \in Job : Create(j) \/ Cancel(j)
             \/ \E j, k \in Job : Retry(j, k)
             \/ DeleteProject
             \/ \E u \in Token, j \in Job : Receive(u, j)
      PROVE  Holds(t)
  BY <1>1, <1>2
  DEF Create, Cancel, Retry, DeleteProject, Receive, Jobs!Submit, Jobs!Cancel, Jobs!Delete,
      Jobs!Grant, threadVars
<1>3. ASSUME NEW u \in Token, u # t, Begin(u) PROVE Holds(t)
  <2>1. CASE UNCHANGED jobVars
    BY <1>1, <1>3, <2>1 DEF jobVars
  <2>2. CASE token[jobOf[u]] = u /\ Jobs!Start(jobOf[u])
    BY <1>1, <1>3, <2>2 DEF Jobs!Start
  <2> QED
    BY <1>3, <2>1, <2>2 DEF Begin
<1>4. ASSUME NEW u \in Token, Finish(u) PROVE Holds(t)
  <2>1. CASE UNCHANGED jobVars
    BY <1>1, <2>1 DEF jobVars
  <2>2. CASE Jobs!Succeed(jobOf[u]) \/ Jobs!Fail(jobOf[u]) \/ Jobs!Requeue(jobOf[u])
    BY <1>1, <2>2 DEF Jobs!Succeed, Jobs!Fail, Jobs!Requeue
  <2> QED
    BY <1>4, <2>1, <2>2 DEF Finish
<1>5. ASSUME \/ \E u \in Token : \/ ReadLeftovers(u) \/ DeleteLeftovers(u) \/ Upload(u)
                                  \/ Publish(u) \/ InsertFacts(u) \/ Raise(u)
                                  \/ Return(u) \/ Die(u)
             \/ UNCHANGED vars
      PROVE  Holds(t)
  BY <1>1, <1>5
  DEF ReadLeftovers, DeleteLeftovers, Upload, Publish, InsertFacts, Raise, Return, Die,
      Jobs!Publish, jobVars, vars
<1> QED
  BY <1>2, <1>3, <1>4, <1>5 DEF Next, Step

\* The Jobs that a holder clears away are not running under anybody else.
LEMMA CleanupJobsAreIdle ==
    ASSUME TypeOK, Ownership, NEW t \in Token, pc[t] # "unused", Holds(t),
           NEW j \in Job, j \in CleanupJobs(t)
    PROVE  \/ j = jobOf[t] /\ failures[t] > 0
           \/ j # jobOf[t] /\ stage[j] \in Dead
BY DEF TypeOK, Ownership, RetriedWithoutSuccess, CleanupJobs, Holds, Dead

\* While an execution that holds its Job is about to delete, what it read is
\* still all that there is to clear away.
NothingNewToClear ==
    \A t \in Token : pc[t] = "delete" /\ Holds(t) =>
        \A o \in VersionsIn(outputs) : o.job \in CleanupJobs(t) => o \in leftovers[t]

\* A new row is stored by the execution that holds its Job.
LEMMA NewRowsAreTheHolders ==
    ASSUME TypeOK, Ownership, [Next]_vars, NEW o \in outputs', o \notin outputs
    PROVE  \E u \in Token : pc[u] = "store" /\ Holds(u) /\ o.job = jobOf[u] /\ o.by = u
<1>1. PICK u \in Token : Storing(u) /\ Holds(u) /\ AddOutput(u)
  BY HowOutputsChange DEF Without
<1> QED
  BY <1>1, AddedOutput DEF Storing

\* Between the read and the deletion of a holder nobody adds a row to clear: the
\* Jobs it clears are its own and one that is over.
LEMMA NothingNewIsInductive ==
    ASSUME TypeOK, Ownership, NothingNewToClear, [Next]_vars
    PROVE  NothingNewToClear'
<1> SUFFICES ASSUME NEW t \in Token, pc'[t] = "delete", Holds(t)',
                    NEW o \in outputs', o.part \notin Fact, o.job \in CleanupJobs(t)'
             PROVE  o \in leftovers'[t]
  BY DEF NothingNewToClear, VersionsIn
<1>1. CASE ReadLeftovers(t)
  <2>1. outputs' = outputs /\ CleanupJobs(t)' = CleanupJobs(t)
    BY <1>1, CleanupJobsAreFixed DEF ReadLeftovers, Ownership
  <2>2. leftovers'[t] = {p \in VersionsIn(outputs) : p.job \in CleanupJobs(t)}
    BY <1>1 DEF ReadLeftovers, TypeOK
  <2> QED
    BY <2>1, <2>2 DEF VersionsIn
<1>2. CASE ~ReadLeftovers(t)
  <2>1. pc[t] = "delete" /\ leftovers'[t] = leftovers[t]
    <3>1. ASSUME NEW u \in Token, Step(u) PROVE pc[t] = "delete" /\ leftovers'[t] = leftovers[t]
      BY <1>2, <3>1
      DEF TypeOK, Step, Begin, ReadLeftovers, DeleteLeftovers, Upload, Publish, InsertFacts,
          Raise, Return, Die, Finish, Goto, threadVars
    <3>2. ASSUME NEW u \in Token, NEW j \in Job, Receive(u, j)
          PROVE  pc[t] = "delete" /\ leftovers'[t] = leftovers[t]
      BY <3>2 DEF TypeOK, Receive, Goto
    <3> QED
      BY <3>1, <3>2 DEF Next, Create, Cancel, Retry, DeleteProject, threadVars, vars
  <2>2. Holds(t)
    BY <2>1, HoldersBegin DEF Begin
  <2>3. o.job \in CleanupJobs(t)
    BY <2>1, CleanupJobsAreFixed DEF Ownership
  <2>4. o \in outputs
    <3>1. ASSUME o \notin outputs PROVE FALSE
      <4>1. PICK u \in Token : pc[u] = "store" /\ Holds(u) /\ o.job = jobOf[u]
        BY <3>1, NewRowsAreTheHolders
      <4>2. jobOf[u] \in Job
        BY <4>1 DEF TypeOK
      <4> QED
        BY <2>1, <2>2, <2>3, <4>1, <4>2, CleanupJobsAreIdle DEF Holds, Dead
    <3> QED
      BY <3>1
  <2> QED
    BY <2>1, <2>2, <2>3, <2>4 DEF NothingNewToClear, VersionsIn
<1> QED
  BY <1>1, <1>2

\* A deletion under the fence takes every leftover, facts included.
LEMMA DeletionClears ==
    ASSUME TypeOK, Ownership, NothingNewToClear, NEW t \in Token,
           pc[t] = "delete", Holds(t), NEW o \in Without(leftovers[t])
    PROVE  o \in outputs /\ o.job \notin CleanupJobs(t)
<1>1. o \in outputs
  BY DEF Without
<1>2. ASSUME o.job \in CleanupJobs(t) PROVE FALSE
  <2>1. CASE o.part \notin Fact
    <3>1. o \in leftovers[t]
      BY <1>1, <1>2, <2>1 DEF NothingNewToClear, VersionsIn
    <3> QED
      BY <3>1 DEF Without
  <2>2. CASE o.part \in Fact
    <3>1. PICK m \in outputs : m.by = o.by /\ m.part = "midi"
      BY <1>1, <2>2 DEF Ownership, OutputsAreOwn
    <3>2. m.job = o.job
      BY <1>1, <3>1 DEF Ownership, OutputsAreOwn
    <3>3. m \in leftovers[t]
      BY <1>2, <3>1, <3>2 DEF NothingNewToClear, VersionsIn, Fact
    <3> QED
      BY <2>2, <3>1, <3>3 DEF Without
  <2> QED
    BY <2>1, <2>2
<1> QED
  BY <1>1, <1>2

\* With nothing to clear there are no facts either: they hang on a Version.
LEMMA NothingFound ==
    ASSUME TypeOK, Ownership, NEW C,
           {o \in VersionsIn(outputs) : o.job \in C} = {}, NEW o \in outputs
    PROVE  o.job \notin C
<1>1. ASSUME o.job \in C PROVE FALSE
  <2>1. o.part \in Fact
    BY <1>1 DEF VersionsIn
  <2>2. PICK m \in outputs : m.by = o.by /\ m.part = "midi"
    BY <2>1 DEF Ownership, OutputsAreOwn
  <2>3. m.job = o.job
    BY <2>2 DEF Ownership, OutputsAreOwn
  <2> QED
    BY <1>1, <2>2, <2>3 DEF VersionsIn, Fact
<1> QED
  BY <1>1

\* An execution comes to store its parts by a clean-up that found nothing or
\* deleted what it found, and goes on from part to part.
LEMMA StoresAfterClearing ==
    ASSUME TypeOK, [Next]_vars, NEW t \in Token, pc'[t] \in {"store", "returned"}
    PROVE  \/ pc[t] \in {"store", "returned"}
           \/ /\ ReadLeftovers(t) /\ outputs' = outputs
              /\ {o \in VersionsIn(outputs) : o.job \in CleanupJobs(t)} = {}
           \/ DeleteLeftovers(t) /\ pc[t] = "delete" /\ outputs' = Without(leftovers[t])
<1> USE DEF TypeOK, Goto
<1>1. ASSUME ReadLeftovers(t)
      PROVE  /\ outputs' = outputs
             /\ {o \in VersionsIn(outputs) : o.job \in CleanupJobs(t)} = {}
  BY <1>1 DEF ReadLeftovers
<1>2. ASSUME DeleteLeftovers(t)
      PROVE  pc[t] = "delete" /\ outputs' = Without(leftovers[t])
  BY <1>2 DEF DeleteLeftovers
<1>3. ASSUME NEW u \in Token, Step(u), ~ReadLeftovers(t), ~DeleteLeftovers(t)
      PROVE  pc[t] \in {"store", "returned"}
  BY <1>3
  DEF Step, Begin, ReadLeftovers, DeleteLeftovers, Upload, Publish, InsertFacts, Raise,
      Return, Die, Finish, threadVars
<1>4. ASSUME NEW u \in Token, NEW j \in Job, Receive(u, j)
      PROVE  pc[t] \in {"store", "returned"}
  BY <1>4 DEF Receive
<1> QED
  BY <1>1, <1>2, <1>3, <1>4 DEF Next, Create, Cancel, Retry, DeleteProject, threadVars, vars

\* A run comes to store on a clean slate, and only it adds rows to its Job.
LEMMA StartsCleanIsInductive ==
    ASSUME TypeOK, Ownership, NothingNewToClear, RetriesStartClean, [Next]_vars
    PROVE  RetriesStartClean'
<1> SUFFICES ASSUME NEW t \in Token, pc'[t] \in {"store", "returned"}, Holds(t)',
                    NEW o \in outputs'
             PROVE  /\ o.job = jobOf'[t] /\ failures'[t] > 0 => o.by = t
                    /\ o.job # retryOf'[jobOf'[t]]
  BY DEF RetriesStartClean
<1>1. pc[t] # "unused" /\ ~Begin(t)
  BY StoresAfterClearing DEF ReadLeftovers, Begin
<1>2. /\ Holds(t) /\ jobOf'[t] = jobOf[t] /\ jobOf[t] \in Job
      /\ failures'[t] = failures[t] /\ retryOf'[jobOf[t]] = retryOf[jobOf[t]]
  BY <1>1, HoldersBegin, CleanupJobsAreFixed DEF Ownership, TypeOK
<1>3. o.job \in Job
  BY NewRowsAreTheHolders DEF TypeOK, Output
<1>4. ASSUME o.job \notin CleanupJobs(t)
      PROVE  /\ o.job = jobOf[t] /\ failures[t] > 0 => o.by = t
             /\ o.job # retryOf[jobOf[t]]
  BY <1>3, <1>4, UnderstandAssumption DEF CleanupJobs
<1>5. CASE /\ outputs' = outputs
           /\ {p \in VersionsIn(outputs) : p.job \in CleanupJobs(t)} = {}
  BY <1>2, <1>4, <1>5, NothingFound
<1>6. CASE pc[t] = "delete" /\ outputs' = Without(leftovers[t])
  BY <1>2, <1>4, <1>6, DeletionClears
<1>7. CASE pc[t] \in {"store", "returned"}
  <2>1. CASE o \in outputs
    BY <1>2, <1>7, <2>1 DEF RetriesStartClean
  <2>2. CASE o \notin outputs
    <3>1. PICK u \in Token : Holds(u) /\ o.job = jobOf[u] /\ o.by = u
      BY <2>2, NewRowsAreTheHolders
    <3>2. o.job # retryOf[jobOf[t]]
      BY <1>2, <1>3, <3>1 DEF Ownership, RetriedWithoutSuccess, Holds, Dead
    <3> QED
      BY <1>2, <3>1, <3>2 DEF Holds
  <2> QED
    BY <2>1, <2>2
<1> QED
  BY <1>5, <1>6, <1>7, StoresAfterClearing

\* What a holder is about to delete is all there is to clear away.
LEMMA NothingNew == Spec => []NothingNewToClear
<1>1. Init => NothingNewToClear
  BY DEF Init, NothingNewToClear
<1>2. TypeOK /\ Ownership /\ NothingNewToClear /\ [Next]_vars => NothingNewToClear'
  BY NothingNewIsInductive
<1> QED
  BY <1>1, <1>2, HandlerTypesCorrect, OwnershipHolds, PTL DEF Spec

\* A run that follows a failure stores its parts on a clean slate: what its
\* unfenced read saw is all there is until its fenced deletion, because only it
\* can add rows to its Job, and the Job it retries gets none any more.
THEOREM RetriesStartOnACleanSlate == Spec => []RetriesStartClean
<1>1. Init => RetriesStartClean
  BY DEF Init, RetriesStartClean
<1>2. TypeOK /\ Ownership /\ NothingNewToClear /\ RetriesStartClean /\ [Next]_vars
      => RetriesStartClean'
  BY StartsCleanIsInductive
<1> QED
  BY <1>1, <1>2, HandlerTypesCorrect, OwnershipHolds, NothingNew, PTL DEF Spec

----------------------------------------------------------------------------
(* What a complete run leaves. *)

\* An execution has stored nothing before its clean-up is over and everything
\* when it returns; as long as it holds the Job, what it stored is there.
StoredIsThere ==
    \A t \in Token :
        /\ pc[t] \in {"unused", "granted", "read", "delete"} => stored[t] = 0
        /\ pc[t] = "returned" => stored[t] = Len(Parts)
        /\ pc[t] \in {"store", "returned"} /\ Holds(t) =>
              \A i \in 1..stored[t] :
                  [job |-> jobOf[t], by |-> t, part |-> Parts[i]] \in outputs

\* A complete run stores five parts, and they are all there are.
LEMMA EveryPartIsStored ==
    /\ Len(Parts) = 5
    /\ \A p \in Part : \E i \in 1..5 : p = Parts[i]
BY DEF Parts, Part

\* Rows of a Job that runs, or has succeeded, are taken by nobody but its holder.
LEMMA OthersSpareRows ==
    ASSUME TypeOK, Ownership, [Next]_vars, NEW o \in outputs, o \notin outputs'
    PROVE  \/ DeleteProject
           \/ stage[o.job] \in Dead
           \/ \E u \in Token : pc[u] = "delete" /\ Holds(u) /\ o.job = jobOf[u]
<1>1. CASE \E t \in Token : AddOutput(t)
  BY <1>1 DEF AddOutput
<1>2. ASSUME NEW u \in Token, DeleteLeftovers(u), Holds(u), outputs' = Without(leftovers[u])
      PROVE  \/ stage[o.job] \in Dead
             \/ \E v \in Token : pc[v] = "delete" /\ Holds(v) /\ o.job = jobOf[v]
  <2>1. PICK g \in leftovers[u] : g.by = o.by
    BY <1>2 DEF Without
  <2>2. o.job \in Job /\ o.job \in CleanupJobs(u)
    BY <2>1 DEF Ownership, LeftoversAreOld, OutputsAreOwn, TypeOK, Output
  <2>3. pc[u] = "delete"
    BY <1>2 DEF DeleteLeftovers
  <2> QED
    BY <1>2, <2>2, <2>3, CleanupJobsAreIdle
<1> QED
  BY <1>1, <1>2, HowOutputsChange

\* A part is counted when it is added, and only then.
LEMMA HowStoredChanges ==
    ASSUME TypeOK, [Next]_vars, NEW t \in Token
    PROVE  \/ stored'[t] = stored[t] /\ pc'[t] \in {pc[t], "raised", "over"}
           \/ stored'[t] = stored[t] /\ pc[t] = "unused" /\ pc'[t] = "granted"
           \/ stored'[t] = stored[t] /\ pc[t] = "granted" /\ pc'[t] = "read"
           \/ stored'[t] = stored[t] /\ pc[t] = "read" /\ pc'[t] \in {"delete", "store"}
           \/ stored'[t] = stored[t] /\ pc[t] = "delete" /\ pc'[t] = "store"
           \/ stored'[t] = stored[t] /\ Return(t)
           \/ /\ Storing(t) /\ AddOutput(t) /\ pc'[t] = pc[t] /\ jobOf' = jobOf
              /\ Holds(t) /\ stored'[t] = stored[t] + 1
<1> USE DEF TypeOK, Goto
<1>1. ASSUME NEW u \in Token, Publish(u) \/ InsertFacts(u)
      PROVE  \/ stored'[t] = stored[t] /\ pc'[t] \in {pc[t], "raised"}
             \/ /\ Storing(t) /\ AddOutput(t) /\ pc'[t] = pc[t] /\ jobOf' = jobOf
                /\ Holds(t) /\ stored'[t] = stored[t] + 1
  BY <1>1 DEF Publish, InsertFacts, Count
<1>2. ASSUME NEW u \in Token, NEW j \in Job, Receive(u, j)
      PROVE  /\ stored'[t] = stored[t]
             /\ \/ pc'[t] = pc[t]
                \/ pc[t] = "unused" /\ pc'[t] = "granted"
  BY <1>2 DEF Receive
<1>3. ASSUME NEW u \in Token,
             Begin(u) \/ ReadLeftovers(u) \/ DeleteLeftovers(u) \/ Upload(u) \/ Raise(u)
             \/ Return(u) \/ Finish(u) \/ Die(u)
      PROVE  /\ stored'[t] = stored[t]
             /\ \/ pc'[t] \in {pc[t], "raised", "over"}
                \/ pc[t] = "granted" /\ pc'[t] = "read"
                \/ pc[t] = "read" /\ pc'[t] \in {"delete", "store"}
                \/ pc[t] = "delete" /\ pc'[t] = "store"
                \/ Return(t)
  BY <1>3
  DEF Begin, ReadLeftovers, DeleteLeftovers, Upload, Raise, Return, Finish, Die, threadVars
<1>4. ASSUME \/ \E j \in Job : Create(j) \/ Cancel(j)
             \/ \E j, k \in Job : Retry(j, k)
             \/ DeleteProject \/ UNCHANGED vars
      PROVE  stored' = stored /\ pc' = pc
  BY <1>4 DEF Create, Cancel, Retry, DeleteProject, threadVars, vars
<1> QED
  BY <1>1, <1>2, <1>3, <1>4 DEF Next, Step

\* Every part counted is a row of the holder, and nobody takes it while it holds.
LEMMA StoredIsInductive ==
    ASSUME TypeOK, Ownership, StoredIsThere, [Next]_vars
    PROVE  StoredIsThere'
<1> SUFFICES ASSUME NEW t \in Token
             PROVE  /\ pc'[t] \in {"unused", "granted", "read", "delete"} => stored'[t] = 0
                    /\ pc'[t] = "returned" => stored'[t] = Len(Parts)
                    /\ pc'[t] \in {"store", "returned"} /\ Holds(t)' =>
                          \A i \in 1..stored'[t] :
                              [job |-> jobOf'[t], by |-> t, part |-> Parts[i]] \in outputs'
  BY DEF StoredIsThere
<1>1. pc'[t] \in {"unused", "granted", "read", "delete"} => stored'[t] = 0
  BY HowStoredChanges DEF StoredIsThere, Storing, Return, Goto, TypeOK
<1>2. pc'[t] = "returned" => stored'[t] = Len(Parts)
  BY HowStoredChanges DEF StoredIsThere, Storing, Return
<1>3. ASSUME pc'[t] \in {"store", "returned"}, Holds(t)', NEW i \in 1..stored'[t]
      PROVE  [job |-> jobOf'[t], by |-> t, part |-> Parts[i]] \in outputs'
  <2>1. pc[t] # "unused" /\ ~Begin(t)
    BY <1>3, StoresAfterClearing DEF ReadLeftovers, Begin
  <2>2. Holds(t) /\ jobOf'[t] = jobOf[t] /\ jobOf[t] \in Job
    BY <1>3, <2>1, HoldersBegin, CleanupJobsAreFixed DEF Ownership, TypeOK
  <2>3. pc[t] \in {"store", "returned"}
    <3>1. stored'[t] # 0
      BY <1>3
    <3>2. pc[t] \notin {"unused", "granted", "read", "delete"}
          \/ stored'[t] # stored[t]
      BY <3>1 DEF StoredIsThere
    <3> QED
      BY <1>3, <3>2, HowStoredChanges DEF Storing, Return
  <2>4. ASSUME [job |-> jobOf[t], by |-> t, part |-> Parts[i]] \in outputs
        PROVE  [job |-> jobOf[t], by |-> t, part |-> Parts[i]] \in outputs'
    <3>1. PICK o \in outputs : o = [job |-> jobOf[t], by |-> t, part |-> Parts[i]]
      BY <2>4
    <3>2. o.job = jobOf[t]
      BY <3>1
    <3>3. ~DeleteProject /\ stage[o.job] \notin Dead
      BY <1>3, <2>2, <3>2, DeletedProjectsAreStill DEF Holds, Dead
    <3>4. ~\E u \in Token : pc[u] = "delete" /\ Holds(u) /\ o.job = jobOf[u]
      BY <2>2, <2>3, <3>2 DEF Holds
    <3> QED
      BY <3>1, <3>3, <3>4, OthersSpareRows
  <2>5. CASE stored'[t] = stored[t]
    BY <2>2, <2>3, <2>4, <2>5 DEF StoredIsThere
  <2>6. CASE Storing(t) /\ AddOutput(t) /\ stored'[t] = stored[t] + 1
    <3>1. CASE i = stored[t] + 1
      BY <2>2, <2>6, <3>1, AddedOutput DEF NextPart
    <3>2. CASE i # stored[t] + 1
      <4>1. i \in 1..stored[t]
        BY <2>6, <3>2 DEF TypeOK
      <4> QED
        BY <2>2, <2>3, <2>4, <4>1 DEF StoredIsThere
    <3> QED
      BY <3>1, <3>2
  <2> QED
    BY <2>5, <2>6, HowStoredChanges
<1> QED
  BY <1>1, <1>2, <1>3

\* Only the holder's finish makes a Job a success, with all its parts stored.
LEMMA SuccessIsTheHolders ==
    ASSUME TypeOK, StoredIsThere, [Next]_vars, NEW j \in Job, stage'[j] = "succeeded"
    PROVE  \/ stage[j] = "succeeded" /\ result'[j] = result[j]
           \/ \E t \in Token :
                 /\ pc[t] = "returned" /\ Holds(t) /\ jobOf[t] = j
                 /\ result'[j] = t /\ outputs' = outputs
<1> USE DEF TypeOK, Jobs!SetStage
<1>1. ASSUME NEW t \in Token, Finish(t)
      PROVE  \/ stage[j] = "succeeded" /\ result'[j] = result[j]
             \/ /\ pc[t] = "returned" /\ Holds(t) /\ jobOf[t] = j
                /\ result'[j] = t /\ outputs' = outputs
  <2>1. CASE UNCHANGED <<jobVars, result>>
    BY <2>1 DEF jobVars
  <2>2. CASE UNCHANGED result /\ (Jobs!Fail(jobOf[t]) \/ Jobs!Requeue(jobOf[t]))
    BY <2>2 DEF Jobs!Fail, Jobs!Requeue
  <2>3. CASE /\ pc[t] = "returned" /\ Holds(t)
             /\ result' = [result EXCEPT ![jobOf[t]] = t] /\ Jobs!Succeed(jobOf[t])
    BY <1>1, <2>3 DEF Finish, Jobs!Succeed
  <2> QED
    BY <1>1, <2>1, <2>2, <2>3 DEF Finish
<1>2. ASSUME NEW t \in Token, Step(t), ~Finish(t)
      PROVE  stage[j] = "succeeded" /\ result'[j] = result[j]
  BY <1>2
  DEF Step, Begin, ReadLeftovers, DeleteLeftovers, Upload, Publish, InsertFacts, Raise,
      Return, Die, Jobs!Start, Jobs!Publish, jobVars
<1>3. ASSUME \/ \E i \in Job : Create(i) \/ Cancel(i)
             \/ \E i, k \in Job : Retry(i, k)
             \/ DeleteProject
             \/ \E t \in Token, i \in Job : Receive(t, i)
             \/ UNCHANGED vars
      PROVE  stage[j] = "succeeded" /\ result'[j] = result[j]
  BY <1>3
  DEF Create, Cancel, Retry, DeleteProject, Receive, Jobs!Submit, Jobs!Cancel, Jobs!Delete,
      Jobs!Grant, jobVars, vars
<1> QED
  BY <1>1, <1>2, <1>3 DEF Next

\* The holder's parts are complete when it succeeds, and nobody takes them after.
LEMMA CompleteIsInductive ==
    ASSUME TypeOK, Ownership, StoredIsThere, SucceededIsComplete, [Next]_vars
    PROVE  SucceededIsComplete'
<1> SUFFICES ASSUME NEW j \in Job, stage'[j] = "succeeded", NEW p \in Part
             PROVE  [job |-> j, by |-> result'[j], part |-> p] \in outputs'
  BY DEF SucceededIsComplete
<1>1. CASE stage[j] = "succeeded" /\ result'[j] = result[j]
  <2>1. PICK o \in outputs : o = [job |-> j, by |-> result[j], part |-> p]
    BY <1>1 DEF SucceededIsComplete
  <2>2. o.job = j
    BY <2>1
  <2>3. ~DeleteProject /\ stage[o.job] \notin Dead
    BY <1>1, <2>2, DeletedProjectsAreStill DEF Dead
  <2>4. ~\E u \in Token : Holds(u) /\ o.job = jobOf[u]
    BY <1>1, <2>2 DEF Holds
  <2> QED
    BY <1>1, <2>1, <2>3, <2>4, OthersSpareRows
<1>2. ASSUME NEW t \in Token, pc[t] = "returned", Holds(t), jobOf[t] = j,
             result'[j] = t, outputs' = outputs
      PROVE  [job |-> j, by |-> result'[j], part |-> p] \in outputs'
  <2>1. PICK i \in 1..stored[t] : p = Parts[i]
    BY <1>2, EveryPartIsStored DEF StoredIsThere
  <2> QED
    BY <1>2, <2>1 DEF StoredIsThere
<1> QED
  BY <1>1, <1>2, SuccessIsTheHolders

\* A succeeded Job has all its parts: they were there when the holder returned,
\* and from then on no deletion is meant for them.
THEOREM SuccessIsComplete == Spec => []SucceededIsComplete
<1>1. Init => StoredIsThere /\ SucceededIsComplete
  BY DEF Init, Jobs!Init, StoredIsThere, SucceededIsComplete
<1>2. /\ TypeOK /\ Ownership /\ StoredIsThere /\ SucceededIsComplete /\ [Next]_vars
      => StoredIsThere' /\ SucceededIsComplete'
  BY StoredIsInductive, CompleteIsInductive
<1> QED
  BY <1>1, <1>2, HandlerTypesCorrect, OwnershipHolds, PTL DEF Spec

----------------------------------------------------------------------------
(* The refinement of JobLifecycle. *)

\* The deletion withdraws all Versions of the Jobs it clears, and no others.
LEMMA DeletionWithdraws ==
    ASSUME TypeOK, Ownership, NothingNewToClear, NEW t \in Token,
           DeleteLeftovers(t), Holds(t), outputs' = Without(leftovers[t])
    PROVE  Jobs!Next
<1>1. PICK D \in SUBSET Job : D = CleanupJobs(t) \cap Job
  OBVIOUS
<1>2. PICK j \in Job : j = jobOf[t]
  BY DEF DeleteLeftovers, TypeOK
<1>3. pc[t] = "delete" /\ stage[j] = "running" /\ UNCHANGED <<stage, token, retries, issued>>
  BY <1>2 DEF DeleteLeftovers, Holds, jobVars
<1>4. ASSUME NEW i \in D PROVE i = j \/ stage[i] \in {"failed", "cancelled"}
  BY <1>1, <1>2, <1>3
  DEF Ownership, RetriedWithoutSuccess, CleanupJobs, Dead, TypeOK
<1>5. VersionsIn(outputs') = {o \in VersionsIn(outputs) : o.job \notin D}
  <2>1. ASSUME NEW o \in VersionsIn(outputs') PROVE o \in VersionsIn(outputs) /\ o.job \notin D
    BY <1>1, <1>3, <2>1, DeletionClears DEF VersionsIn
  <2>2. ASSUME NEW o \in VersionsIn(outputs), o.job \notin D PROVE o \in VersionsIn(outputs')
    <3>1. o \in outputs /\ o.part \notin Fact /\ o.job \in Job
      BY DEF VersionsIn, TypeOK, Output
    <3>2. ASSUME NEW g \in leftovers[t], g.by = o.by PROVE FALSE
      BY <1>1, <2>2, <3>1, <3>2 DEF Ownership, LeftoversAreOld, OutputsAreOwn
    <3> QED
      BY <3>1, <3>2 DEF Without, VersionsIn
  <2> HIDE DEF VersionsIn
  <2> QED
    BY <2>1, <2>2
<1>6. {[job |-> o.job, key |-> o.by] : o \in VersionsIn(outputs')}
      = {v \in {[job |-> o.job, key |-> o.by] : o \in VersionsIn(outputs)} : v.job \notin D}
  BY <1>5
<1>7. Jobs!Withdraw(j, D)
  BY <1>3, <1>4, <1>6 DEF Jobs!Withdraw
<1> QED
  BY <1>7 DEF Jobs!Next

\* The handler stays within the lifecycle: what it does to rows in two steps, a
\* read without the fence and a deletion under it, is one withdrawal.
THEOREM HandlerImplementsLifecycle == Spec => ImplementsLifecycle
<1>1. Init => Jobs!Init
  BY DEF Init
<1>2. TypeOK /\ Ownership /\ NothingNewToClear /\ [Next]_vars
      => [Jobs!Next]_(Jobs!lifecycleVars)
  <2> SUFFICES ASSUME TypeOK, Ownership, NothingNewToClear, [Next]_vars
               PROVE  Jobs!Next \/ UNCHANGED Jobs!lifecycleVars
    OBVIOUS
  <2>1. ASSUME UNCHANGED <<jobVars, VersionsIn(outputs)>>
        PROVE  UNCHANGED Jobs!lifecycleVars
    BY <2>1 DEF Jobs!lifecycleVars, jobVars
  <2>2. ASSUME UNCHANGED <<jobVars, outputs>> PROVE UNCHANGED Jobs!lifecycleVars
    BY <2>1, <2>2
  <2>3. ASSUME NEW j \in Job, Create(j) \/ Cancel(j) PROVE Jobs!Next
    BY <2>3 DEF Create, Cancel, Jobs!Next
  <2>4. ASSUME NEW j \in Job, NEW k \in Job, Retry(j, k) PROVE Jobs!Next
    BY <2>4 DEF Retry, Jobs!Next
  <2>5. ASSUME DeleteProject PROVE Jobs!Next
    <3>1. PICK D \in SUBSET Job : D = {j \in Job : stage[j] \notin {"absent", "deleted"}}
      OBVIOUS
    <3>2. Jobs!Delete(D)
      BY <2>5, <3>1 DEF DeleteProject, Jobs!Delete
    <3> QED
      BY <3>1, <3>2 DEF Jobs!Next
  <2>6. ASSUME NEW t \in Token, NEW j \in Job, Receive(t, j) PROVE Jobs!Next
    BY <2>6 DEF Receive, Jobs!Next
  <2>7. ASSUME NEW t \in Token, Begin(t)
        PROVE  Jobs!Next \/ UNCHANGED Jobs!lifecycleVars
    BY <2>2, <2>7 DEF Begin, TypeOK, Jobs!Next
  <2>8. ASSUME NEW t \in Token, DeleteLeftovers(t)
        PROVE  Jobs!Next \/ UNCHANGED Jobs!lifecycleVars
    BY <2>2, <2>8, DeletionWithdraws DEF DeleteLeftovers, MayDelete
  <2>9. ASSUME NEW t \in Token, Publish(t)
        PROVE  Jobs!Next \/ UNCHANGED Jobs!lifecycleVars
    <3>1. PICK j \in Job : j = jobOf[t]
      BY <2>9 DEF Publish, Storing, TypeOK
    <3>2. Jobs!Publish(j) \/ UNCHANGED <<jobVars, outputs>>
      BY <2>9, <3>1 DEF Publish, Jobs!Publish
    <3> QED
      BY <2>2, <3>1, <3>2 DEF Jobs!Next
  <2>10. ASSUME NEW t \in Token, InsertFacts(t) PROVE UNCHANGED Jobs!lifecycleVars
    <3>1. CASE UNCHANGED outputs
      BY <2>2, <2>10, <3>1 DEF InsertFacts
    <3>2. CASE AddOutput(t)
      <4>1. VersionsIn(outputs') = VersionsIn(outputs)
        BY <2>10, <3>2, AddedOutput DEF InsertFacts, VersionsIn
      <4> QED
        BY <2>1, <2>10, <4>1 DEF InsertFacts
    <3> QED
      BY <2>10, <3>1, <3>2 DEF InsertFacts
  <2>11. ASSUME NEW t \in Token, Finish(t)
         PROVE  Jobs!Next \/ UNCHANGED Jobs!lifecycleVars
    BY <2>2, <2>11 DEF Finish, TypeOK, Jobs!Next
  <2>12. ASSUME \/ \E t \in Token : \/ ReadLeftovers(t) \/ Upload(t) \/ Raise(t)
                                     \/ Return(t) \/ Die(t)
                \/ UNCHANGED vars
         PROVE  UNCHANGED Jobs!lifecycleVars
    BY <2>2, <2>12 DEF ReadLeftovers, Upload, Raise, Return, Die, vars
  <2> QED
    BY <2>3, <2>4, <2>5, <2>6, <2>7, <2>8, <2>9, <2>10, <2>11, <2>12 DEF Next, Step
<1> QED
  BY <1>1, <1>2, HandlerTypesCorrect, OwnershipHolds, NothingNew, PTL
  DEF Spec, ImplementsLifecycle, Jobs!Spec
=============================================================================
