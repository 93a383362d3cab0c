------------------------- MODULE JobDelivery_proofs -------------------------
(***************************************************************************)
(* Proofs about JobDelivery, for every set of Jobs, workers and tokens and *)
(* every value of the bounds.                                              *)
(***************************************************************************)
EXTENDS JobDeliveryProps, TLAPS

\* What can be chosen as a fresh token is an unused one.
LEMMA FreshTokenIsUnused ==
    ASSUME \E t \in Token : At(t, "unused")
    PROVE  FreshToken \in Token /\ At(FreshToken, "unused")
BY DEF FreshToken

\* An attempt whose token was granted has a row to work on.
LEMMA GrantIsTyped ==
    ASSUME TypeOK, NEW t \in Token, pc[t] # "unused"
    PROVE  JobOf(t) \in Job /\ WorkerOf(t) \in Worker /\ grant[t].failures \in Nat
BY DEF TypeOK, Grant, JobOf, WorkerOf

\* TypeOK is inductive by itself: every value a step writes is of its type.
THEOREM TypeCorrect == Spec => []TypeOK
<1> USE DeliveryAssumption DEF Active, Terminal, Stage, Live, Executing, Holding, Pc,
        Grant, Version, rowVars, productVars, localVars, attemptVars
<1>1. Init => TypeOK
  BY DEF Init, TypeOK, NoGrant
<1>2. TypeOK /\ [Next]_vars => TypeOK'
  <2> SUFFICES ASSUME TypeOK, [Next]_vars PROVE TypeOK'
    OBVIOUS
  <2> USE DEF TypeOK, At, JobOf, WorkerOf, Goto, Fault, NoFault
  <2>1. ASSUME NEW j \in Job, Create(j) PROVE TypeOK'
    BY <2>1 DEF Create, InsertQueued
  <2>2. ASSUME NEW j \in Job, Cancel(j) PROVE TypeOK'
    BY <2>2 DEF Cancel
  <2>3. ASSUME NEW j \in Job, DeleteProject(j) PROVE TypeOK'
    BY <2>3 DEF DeleteProject
  <2>4. ASSUME NEW j \in Job, NEW k \in Job, UserRetry(j, k) PROVE TypeOK'
    BY <2>4 DEF UserRetry, InsertQueued
  <2>5. ASSUME NEW j \in Job, VisibilityExpires(j) PROVE TypeOK'
    BY <2>5 DEF VisibilityExpires
  <2>6. ASSUME NEW w \in Worker, ReceiveNothing(w) PROVE TypeOK'
    BY <2>6 DEF ReceiveNothing, PassOver, Hide, Archive
  <2>7. ASSUME NEW w \in Worker, NEW j \in Job, NEW S \in SUBSET PassedOver(w),
               Receive(w, j, S)
        PROVE  TypeOK'
    <3>1. FreshToken \in Token
      BY <2>7, FreshTokenIsUnused DEF Receive
    <3>2. Received(w, j) \in Grant
      BY DEF Received
    <3>3. /\ pc' \in [Token -> Pc]
          /\ grant' \in [Token -> Grant \cup {NoGrant}]
          /\ \A t \in Token : pc'[t] # "unused" => grant'[t] \in Grant
      BY <2>7, <3>1, <3>2 DEF Receive
    <3>4. message' \in [Job -> Live \cup {"none", "archived"}]
      BY <2>7 DEF Receive, Taken, PassOver, Hide, Archive
    <3>5. inFlight' \in [Worker -> SUBSET Job]
      <4>1. \/ inFlight' = [inFlight EXCEPT ![w] = @ \cup {j}]
            \/ inFlight' = inFlight
        BY <2>7, Zenon DEF Receive
      <4> QED
        BY <4>1
    <3>7. execToken' \in [Worker -> [Job -> Token \cup {NoToken}]]
      <4>1. \/ execToken' = [execToken EXCEPT ![w][j] = FreshToken]
            \/ execToken' = execToken
        BY <2>7, Zenon DEF Receive
      <4>2. execToken \in [Worker -> [Job -> Token \cup {NoToken}]]
        OBVIOUS
      <4>3. [execToken EXCEPT ![w][j] = FreshToken] \in [Worker -> [Job -> Token \cup {NoToken}]]
        BY ONLY <3>1, <4>2
      <4> QED
        BY ONLY <4>1, <4>2, <4>3
    <3>6. /\ stage' \in [Job -> Stage]
          /\ worker' \in [Job -> Worker \cup {NoWorker}]
          /\ token' \in [Job -> Token \cup {NoToken}]
          /\ faults' \in Nat
      BY <2>7, <3>1 DEF Receive
    <3> QED
      BY <2>7, <3>3, <3>4, <3>5, <3>6, <3>7 DEF Receive
  <2>8. ASSUME NEW t \in Token, MarkRunning(t) PROVE TypeOK'
    <3>1. JobOf(t) \in Job /\ WorkerOf(t) \in Worker
      BY <2>8, GrantIsTyped DEF MarkRunning
    <3>2. ownToken' \in [Token -> Token \cup {NoToken}]
      BY <2>8, <3>1 DEF MarkRunning, MappedToken
    <3>3. stage' \in [Job -> Stage]
      BY <2>8 DEF MarkRunning
    <3>4. pc[t] # "unused" /\ \E s \in {"running", "finish"} : pc' = [pc EXCEPT ![t] = s]
      BY <2>8 DEF MarkRunning
    <3>5. /\ pc' \in [Token -> Pc]
          /\ \A u \in Token : pc'[u] # "unused" => grant[u] \in Grant
      BY <3>4
    <3> QED
      BY <2>8, <3>2, <3>3, <3>5 DEF MarkRunning
  <2>9. ASSUME NEW t \in Token, Publish(t) PROVE TypeOK'
    <3>1. JobOf(t) \in Job
      BY <2>9, GrantIsTyped DEF Publish
    <3>2. versions' \subseteq Version
      BY <2>9, <3>1 DEF Publish
    <3> QED
      BY <2>9, <3>2 DEF Publish
  <2>24. ASSUME NEW t \in Token, Withdraw(t) PROVE TypeOK'
    <3>1. versions' \subseteq Version
      BY <2>24 DEF Withdraw
    <3> QED
      BY <2>24, <3>1 DEF Withdraw
  <2>10. ASSUME NEW t \in Token, HandlerRaises(t) PROVE TypeOK'
    BY <2>10 DEF HandlerRaises
  <2>11. ASSUME NEW t \in Token, HandlerReturns(t) PROVE TypeOK'
    BY <2>11 DEF HandlerReturns, CheckCancelled
  <2>12. ASSUME NEW t \in Token, MarkSucceeded(t) PROVE TypeOK'
    BY <2>12 DEF MarkSucceeded, Update
  <2>13. ASSUME NEW t \in Token, HandleError(t) PROVE TypeOK'
    BY <2>13 DEF HandleError, CheckCancelled
  <2>14. ASSUME NEW t \in Token, Requeue(t) PROVE TypeOK'
    <3>1. grant[t].failures \in Nat
      BY <2>14, GrantIsTyped DEF Requeue, Update
    <3>2. retries' \in [Job -> Nat]
      BY <2>14, <3>1 DEF Requeue, Update
    <3>3. /\ stage' \in [Job -> Stage]
          /\ worker' \in [Job -> Worker \cup {NoWorker}]
          /\ UNCHANGED <<token, result>>
      BY <2>14 DEF Requeue, Update
    <3> QED
      BY <2>14, <3>2, <3>3 DEF Requeue, Update
  <2>15. ASSUME NEW t \in Token, MarkFailed(t) PROVE TypeOK'
    <3>1. stage' \in [Job -> Stage] /\ UNCHANGED <<worker, token, retries, result>>
      BY <2>15 DEF MarkFailed, FailRow, Update
    <3> QED
      BY <2>15, <3>1 DEF MarkFailed, Update
  <2>16. ASSUME NEW t \in Token, RejectUnsupported(t) PROVE TypeOK'
    <3>1. stage' \in [Job -> Stage] /\ UNCHANGED <<worker, token, retries, result>>
      BY <2>16 DEF RejectUnsupported, FailRow, Update
    <3> QED
      BY <2>16, <3>1 DEF RejectUnsupported, Update
  <2>17. ASSUME NEW t \in Token, FinishDelivery(t) PROVE TypeOK'
    <3>1. execToken' \in [Worker -> [Job -> Token \cup {NoToken}]]
      BY <2>17 DEF FinishDelivery, ForgetToken
    <3>2. message' \in [Job -> Live \cup {"none", "archived"}]
      BY <2>17 DEF FinishDelivery, Disposition
    <3> QED
      BY <2>17, <3>1, <3>2 DEF FinishDelivery
  <2>18. ASSUME NEW t \in Token, ReleaseSlot(t) PROVE TypeOK'
    BY <2>18 DEF ReleaseSlot, FreeSlot
  <2>19. ASSUME NEW t \in Token, HeartbeatCheck(t) PROVE TypeOK'
    BY <2>19 DEF HeartbeatCheck
  <2>20. ASSUME NEW t \in Token, HeartbeatExtend(t) PROVE TypeOK'
    BY <2>20 DEF HeartbeatExtend
  <2>21. ASSUME NEW w \in Worker, Stop(w) PROVE TypeOK'
    BY <2>21 DEF Stop
  <2>22. ASSUME NEW w \in Worker, Crash(w) PROVE TypeOK'
    BY <2>22 DEF Crash
  <2>23. CASE UNCHANGED vars
    BY <2>23 DEF vars
  <2> QED
    BY <2>1, <2>2, <2>3, <2>4, <2>5, <2>6, <2>7, <2>8, <2>9, <2>10, <2>11, <2>12,
       <2>13, <2>14, <2>15, <2>16, <2>17, <2>18, <2>19, <2>20, <2>21, <2>22, <2>23, <2>24
    DEF Next, Product, Queue, Step, Heartbeat
<1> QED
  BY <1>1, <1>2, PTL DEF Spec

\* TypeOK /\ NoLostJob is inductive: a message is archived only for a Job
\* whose row is finished or gone, and no step makes such a Job unfinished.
THEOREM NoJobIsLost == Spec => []NoLostJob
<1> USE DEF Active, Terminal, Stage, Live, rowVars, productVars, localVars, attemptVars
<1>1. Init => NoLostJob
  BY DEF Init, NoLostJob
<1>2. TypeOK /\ NoLostJob /\ [Next]_vars => NoLostJob'
  <2> SUFFICES ASSUME TypeOK, NoLostJob, [Next]_vars PROVE NoLostJob'
    OBVIOUS
  <2> USE DEF TypeOK, NoLostJob
  \* Most steps leave the messages alone and revive no Job.
  <2>1. ASSUME UNCHANGED message,
               \A j \in Job : stage'[j] \in Active => stage[j] \in Active
        PROVE  NoLostJob'
    BY <2>1
  <2>2. ASSUME NEW j \in Job, Create(j) PROVE NoLostJob'
    BY <2>2 DEF Create, InsertQueued
  <2>3. ASSUME NEW j \in Job, NEW k \in Job, UserRetry(j, k) PROVE NoLostJob'
    BY <2>3 DEF UserRetry, InsertQueued
  <2>4. ASSUME NEW j \in Job, Cancel(j) \/ DeleteProject(j) PROVE NoLostJob'
    BY <2>4, <2>1 DEF Cancel, DeleteProject
  <2>5. ASSUME NEW j \in Job, VisibilityExpires(j) PROVE NoLostJob'
    BY <2>5 DEF VisibilityExpires
  <2>6. ASSUME NEW w \in Worker, ReceiveNothing(w) PROVE NoLostJob'
    BY <2>6 DEF ReceiveNothing, PassOver, PassedOver, Visible, Hide, Archive
  <2>7. ASSUME NEW w \in Worker, NEW j \in Job, NEW S \in SUBSET PassedOver(w),
               Receive(w, j, S)
        PROVE  NoLostJob'
    <3>1. /\ j \notin PassedOver(w) /\ j \in Visible
          /\ stage' = [stage EXCEPT ![j] = "claimed"]
          /\ message' = Taken(w, S, j)
      BY <2>7 DEF Receive
    <3> QED
      BY <3>1 DEF Taken, PassOver, PassedOver, Visible, Hide, Archive
  <2>8. ASSUME NEW t \in Token, MarkRunning(t) PROVE NoLostJob'
    BY <2>8, <2>1 DEF MarkRunning, Matches
  <2>9. ASSUME NEW t \in Token, \/ Publish(t) \/ Withdraw(t) \/ HandlerRaises(t)
                                \/ HandlerReturns(t) \/ HandleError(t)
                                \/ ReleaseSlot(t) \/ HeartbeatCheck(t)
        PROVE  NoLostJob'
    <3>1. UNCHANGED <<stage, message>>
      BY <2>9 DEF Publish, Withdraw, HandlerRaises, HandlerReturns, HandleError, ReleaseSlot,
                  HeartbeatCheck
    <3> QED
      BY <3>1, <2>1
  <2>10. ASSUME NEW t \in Token, MarkSucceeded(t) PROVE NoLostJob'
    BY <2>10, <2>1 DEF MarkSucceeded, Update
  <2>11. ASSUME NEW t \in Token, Requeue(t) PROVE NoLostJob'
    BY <2>11, <2>1 DEF Requeue, Update, Owns, Matches
  <2>12. ASSUME NEW t \in Token, MarkFailed(t) \/ RejectUnsupported(t) PROVE NoLostJob'
    BY <2>12, <2>1 DEF MarkFailed, RejectUnsupported, Update, FailRow
  <2>13. ASSUME NEW t \in Token, FinishDelivery(t) PROVE NoLostJob'
    BY <2>13 DEF FinishDelivery, Disposition
  <2>14. ASSUME NEW t \in Token, HeartbeatExtend(t) PROVE NoLostJob'
    BY <2>14 DEF HeartbeatExtend
  <2>15. ASSUME NEW w \in Worker, Stop(w) \/ Crash(w) PROVE NoLostJob'
    BY <2>15, <2>1 DEF Stop, Crash
  <2>16. CASE UNCHANGED vars
    BY <2>16, <2>1 DEF vars
  <2> QED
    BY <2>2, <2>3, <2>4, <2>5, <2>6, <2>7, <2>8, <2>9, <2>10, <2>11, <2>12, <2>13,
       <2>14, <2>15, <2>16
    DEF Next, Product, Queue, Step, Heartbeat
<1> QED
  BY <1>1, <1>2, TypeCorrect, PTL DEF Spec

\* A user retry is of a Job that ended without success, and is deleted with it.
RetryChain ==
    \A k \in Job : retryOf[k] # NoJob =>
        LET j == retryOf[k]
        IN  /\ stage[j] \in {"failed", "cancelled", "deleted"}
            /\ root[j] = root[k] /\ stage[k] # "absent"
            /\ stage[j] = "deleted" => stage[k] = "deleted"

\* JobRepo.retry checks the stage, finished Jobs stay finished, and a Workflow's
\* Jobs are deleted together.
THEOREM RetriesFollowFailure == Spec => []RetryChain
<1> USE DEF rowVars, productVars
<1>1. Init => RetryChain
  BY DEF Init, RetryChain
<1>2. TypeOK /\ RetryChain /\ [Next]_vars => RetryChain'
  <2> SUFFICES ASSUME TypeOK, RetryChain, [Next]_vars PROVE RetryChain'
    OBVIOUS
  <2> USE DEF TypeOK
  \* Outside the product no row is made, and only unfinished ones change.
  <2>1. ASSUME UNCHANGED productVars,
               \A j \in Job : stage'[j] # stage[j] =>
                  stage[j] \in Active /\ stage'[j] \in Active \cup Terminal
        PROVE  RetryChain'
    BY <2>1 DEF RetryChain, Active, Terminal
  <2>2. ASSUME NEW j \in Job, Create(j) PROVE RetryChain'
    BY <2>2 DEF Create, InsertQueued, RetryChain
  <2>3. ASSUME NEW j \in Job, NEW k \in Job, UserRetry(j, k) PROVE RetryChain'
    <3>1. /\ stage[j] \in {"failed", "cancelled"} /\ stage[k] = "absent"
          /\ stage' = [stage EXCEPT ![k] = "queued"]
          /\ root' = [root EXCEPT ![k] = root[j]]
          /\ retryOf' = [retryOf EXCEPT ![k] = j]
      BY <2>3 DEF UserRetry, InsertQueued
    <3> QED
      BY <3>1, DeliveryAssumption DEF RetryChain
  <2>4. ASSUME NEW j \in Job, DeleteProject(j) PROVE RetryChain'
    BY <2>4 DEF DeleteProject, RetryChain
  <2>5. ASSUME NEW j \in Job, Cancel(j) PROVE RetryChain'
    BY <2>5, <2>1 DEF Cancel, Terminal, Active
  <2>6. ASSUME NEW w \in Worker, NEW j \in Job, NEW S \in SUBSET PassedOver(w),
               Receive(w, j, S)
        PROVE  RetryChain'
    BY <2>6, <2>1 DEF Receive, PassedOver, Active
  <2>7. ASSUME NEW t \in Token, MarkRunning(t) PROVE RetryChain'
    BY <2>7, <2>1 DEF MarkRunning, Matches, Active
  <2>8. ASSUME NEW t \in Token, \/ MarkSucceeded(t) \/ Requeue(t) \/ MarkFailed(t)
                                \/ RejectUnsupported(t)
        PROVE  RetryChain'
    BY <2>8, <2>1
    DEF MarkSucceeded, Requeue, MarkFailed, RejectUnsupported, FailRow, Update, Owns,
        Matches, Active, Terminal
  <2>9. ASSUME \/ \E j \in Job : VisibilityExpires(j)
               \/ \E w \in Worker : ReceiveNothing(w) \/ Stop(w) \/ Crash(w)
               \/ \E t \in Token : \/ Heartbeat(t) \/ Publish(t) \/ Withdraw(t)
                                    \/ HandlerRaises(t) \/ HandlerReturns(t)
                                    \/ HandleError(t) \/ FinishDelivery(t) \/ ReleaseSlot(t)
               \/ UNCHANGED vars
        PROVE  UNCHANGED <<stage, productVars>>
    BY <2>9
    DEF VisibilityExpires, ReceiveNothing, Stop, Crash, Heartbeat, HeartbeatCheck,
        HeartbeatExtend, Publish, Withdraw, HandlerRaises, HandlerReturns, HandleError,
        FinishDelivery, ReleaseSlot, vars
  <2> QED
    BY <2>1, <2>2, <2>3, <2>4, <2>5, <2>6, <2>7, <2>8, <2>9
    DEF Next, Product, Queue, Step
<1> QED
  BY <1>1, <1>2, TypeCorrect, PTL DEF Spec

\* No step takes up, changes or publishes for a finished Job: a receive
\* passes it over, every conditional update names an unfinished stage, and a
\* retry's clean-up can only reach a Job that did not succeed.
THEOREM FinishedIsFinal == Spec => FinishedStaysFinished
<1> DEFINE Kept(j) ==
              stage[j] \in Terminal /\ stage'[j] # "deleted" =>
                /\ stage'[j] = stage[j] /\ token'[j] = token[j] /\ result'[j] = result[j]
                /\ \A v \in versions' : v.job = j => v \in versions
                /\ stage[j] = "succeeded" => \A v \in versions : v.job = j => v \in versions'
<1>1. TypeOK /\ RetryChain /\ [Next]_vars => [\A j \in Job : Kept(j)]_vars
  <2> SUFFICES ASSUME TypeOK, RetryChain, Next, NEW i \in Job,
                      stage[i] \in Terminal, stage'[i] # "deleted"
               PROVE  Kept(i)
    OBVIOUS
  <2> USE DEF TypeOK, Active, Terminal, rowVars, productVars, localVars, attemptVars
  <2>1. ASSUME UNCHANGED <<stage, token, result, versions>> PROVE Kept(i)
    BY <2>1
  <2>2. ASSUME NEW j \in Job, Create(j) PROVE Kept(i)
    BY <2>2 DEF Create, InsertQueued
  <2>3. ASSUME NEW j \in Job, NEW k \in Job, UserRetry(j, k) PROVE Kept(i)
    BY <2>3 DEF UserRetry, InsertQueued
  <2>4. ASSUME NEW j \in Job, Cancel(j) PROVE Kept(i)
    BY <2>4 DEF Cancel
  <2>5. ASSUME NEW j \in Job, DeleteProject(j) PROVE Kept(i)
    BY <2>5 DEF DeleteProject
  <2>6. ASSUME NEW w \in Worker, NEW j \in Job, NEW S \in SUBSET PassedOver(w),
               Receive(w, j, S)
        PROVE  Kept(i)
    BY <2>6 DEF Receive, PassedOver, Visible
  <2>7. ASSUME NEW t \in Token, MarkRunning(t) PROVE Kept(i)
    BY <2>7 DEF MarkRunning, Matches
  <2>8. ASSUME NEW t \in Token, Publish(t) PROVE Kept(i)
    BY <2>8 DEF Publish, MayPublish
  <2>15. ASSUME NEW t \in Token, Withdraw(t) PROVE Kept(i)
    <3>1. JobOf(t) \in Job /\ UNCHANGED <<stage, token, result>>
      BY <2>15, GrantIsTyped DEF Withdraw, At
    <3>2. versions' = versions \/ \E C \in SUBSET {JobOf(t), retryOf[JobOf(t)]} :
             /\ stage[JobOf(t)] = "running"
             /\ versions' = {v \in versions : v.job \notin C}
      BY <2>15 DEF Withdraw, MayPublish
    <3>3. stage[i] = "succeeded" => retryOf[JobOf(t)] # i
      BY <3>1, DeliveryAssumption DEF RetryChain
    <3> QED
      BY <3>1, <3>2, <3>3
  <2>9. ASSUME NEW t \in Token, MarkSucceeded(t) PROVE Kept(i)
    BY <2>9 DEF MarkSucceeded, Update, Owns, Matches
  <2>10. ASSUME NEW t \in Token, Requeue(t) PROVE Kept(i)
    BY <2>10 DEF Requeue, Update, Owns, Matches
  <2>11. ASSUME NEW t \in Token, MarkFailed(t) \/ RejectUnsupported(t) PROVE Kept(i)
    BY <2>11 DEF MarkFailed, RejectUnsupported, Update, Owns, Matches, FailRow
  <2>12. ASSUME NEW t \in Token, \/ HandlerRaises(t) \/ HandlerReturns(t)
                                 \/ HandleError(t) \/ FinishDelivery(t)
                                 \/ ReleaseSlot(t) \/ Heartbeat(t)
         PROVE  Kept(i)
    BY <2>12, <2>1
    DEF HandlerRaises, HandlerReturns, HandleError, FinishDelivery, ReleaseSlot,
        Heartbeat, HeartbeatCheck, HeartbeatExtend
  <2>13. ASSUME NEW j \in Job, VisibilityExpires(j) PROVE Kept(i)
    BY <2>13, <2>1 DEF VisibilityExpires
  <2>14. ASSUME NEW w \in Worker, ReceiveNothing(w) \/ Stop(w) \/ Crash(w)
         PROVE  Kept(i)
    BY <2>14, <2>1 DEF ReceiveNothing, Stop, Crash
  <2> QED
    BY <2>2, <2>3, <2>4, <2>5, <2>6, <2>7, <2>8, <2>9, <2>10, <2>11, <2>12, <2>13, <2>14,
       <2>15
    DEF Next, Product, Queue, Step
<1> QED
  BY <1>1, TypeCorrect, RetriesFollowFailure, PTL DEF Spec, FinishedStaysFinished

\* A step that moves no thread into Holding or Executing, and leaves what
\* identifies the threads alone, keeps every attempt's identity.
LEMMA IdentityKept ==
    ASSUME OwnIdentity, UNCHANGED <<inFlight, execToken, grant, ownToken>>,
           \A u \in Token : /\ pc'[u] \in Holding => pc[u] \in Holding
                            /\ pc'[u] \in Executing => pc[u] \in Executing
                            /\ pc[u] = "release" => pc'[u] \notin Holding \ {"release"}
    PROVE  OwnIdentity'
BY DEF OwnIdentity, MappedToken, JobOf, WorkerOf, Holding, Executing

\* TypeOK /\ OwnIdentity is inductive: a receive never takes up a Job its
\* process has in flight, and a slot and a map entry are given up by the one
\* attempt that they belong to.
THEOREM AttemptsKeepTheirIdentity == Spec => []OwnIdentity
<1> USE DEF Executing, Holding, Pc, rowVars, productVars, localVars, attemptVars
<1>1. Init => OwnIdentity
  BY DEF Init, OwnIdentity
<1>2. TypeOK /\ OwnIdentity /\ [Next]_vars => OwnIdentity'
  <2> SUFFICES ASSUME TypeOK, OwnIdentity, [Next]_vars PROVE OwnIdentity'
    OBVIOUS
  <2>1. ASSUME UNCHANGED <<inFlight, execToken, attemptVars>> PROVE OwnIdentity'
    BY <2>1, IdentityKept
  <2>2. ASSUME NEW t \in Token, NEW pcs \in Pc,
               pc[t] \in Executing, pc' = [pc EXCEPT ![t] = pcs], pcs # "received",
               UNCHANGED <<inFlight, execToken, grant, ownToken>>
        PROVE  OwnIdentity'
    BY <2>2, IdentityKept DEF TypeOK
  <2>3. ASSUME NEW w \in Worker, NEW j \in Job, NEW S \in SUBSET PassedOver(w),
               Receive(w, j, S)
        PROVE  OwnIdentity'
    <3>1. PICK t \in Token : t = FreshToken /\ pc[t] = "unused"
      BY <2>3, FreshTokenIsUnused DEF Receive, At
    <3>2. j \notin inFlight[w]
      BY <2>3 DEF Receive, PassedOver
    <3>3. grant' = [grant EXCEPT ![t] = Received(w, j)] /\ ownToken' = ownToken
      BY <2>3, <3>1 DEF Receive
    <3>4. \A u \in Token \ {t} : JobOf(u)' = JobOf(u) /\ WorkerOf(u)' = WorkerOf(u)
      BY <3>1, <3>3 DEF JobOf, WorkerOf, TypeOK
    <3>5. JobOf(t)' = j /\ WorkerOf(t)' = w
      BY <3>1, <3>3 DEF JobOf, WorkerOf, TypeOK, Received
    <3>6. CASE /\ pc' = [pc EXCEPT ![t] = "received"]
               /\ execToken' = [execToken EXCEPT ![w][j] = t]
               /\ inFlight' = [inFlight EXCEPT ![w] = @ \cup {j}]
      BY <3>1, <3>2, <3>3, <3>4, <3>5, <3>6, GrantIsTyped
      DEF OwnIdentity, MappedToken, TypeOK
    <3>7. CASE /\ pc' = [pc EXCEPT ![t] = "lost"]
               /\ UNCHANGED <<execToken, inFlight>>
      BY <3>1, <3>3, <3>4, <3>7 DEF OwnIdentity, MappedToken, TypeOK
    <3> QED
      BY <2>3, <3>1, <3>6, <3>7 DEF Receive, Goto
  <2>4. ASSUME NEW t \in Token, MarkRunning(t) PROVE OwnIdentity'
    <3>1. /\ pc[t] = "received"
          /\ ownToken' = [ownToken EXCEPT ![t] = MappedToken(t)]
          /\ UNCHANGED <<inFlight, execToken, grant>>
          /\ \/ pc' = [pc EXCEPT ![t] = "running"]
             \/ pc' = [pc EXCEPT ![t] = "finish"]
      BY <2>4 DEF MarkRunning, At, Goto
    <3> QED
      BY <3>1 DEF OwnIdentity, MappedToken, JobOf, WorkerOf, TypeOK
  <2>5. ASSUME NEW t \in Token, \/ Publish(t) \/ Withdraw(t) \/ HandlerRaises(t)
                                \/ HandlerReturns(t) \/ HandleError(t)
        PROVE  OwnIdentity'
    BY <2>5, <2>1, <2>2
    DEF Publish, Withdraw, HandlerRaises, HandlerReturns, HandleError, CheckCancelled, At, Goto
  <2>6. ASSUME NEW t \in Token, \/ MarkSucceeded(t) \/ Requeue(t) \/ MarkFailed(t)
                                \/ RejectUnsupported(t)
        PROVE  OwnIdentity'
    BY <2>6, <2>2
    DEF MarkSucceeded, Requeue, MarkFailed, RejectUnsupported, Update, At, Goto
  <2>7. ASSUME NEW t \in Token, FinishDelivery(t) PROVE OwnIdentity'
    <3>1. /\ pc[t] = "finish" /\ pc' = [pc EXCEPT ![t] = "release"]
          /\ UNCHANGED <<inFlight, grant, ownToken>>
      BY <2>7 DEF FinishDelivery, At, Goto
    <3>2. \A u \in Token \ {t} : pc[u] \in Holding =>
             execToken'[WorkerOf(u)][JobOf(u)] = MappedToken(u)
      BY <2>7, <3>1, GrantIsTyped
      DEF FinishDelivery, ForgetToken, OwnIdentity, MappedToken, TypeOK
    <3> QED
      BY <3>1, <3>2 DEF OwnIdentity, MappedToken, JobOf, WorkerOf, TypeOK
  <2>8. ASSUME NEW t \in Token, ReleaseSlot(t) PROVE OwnIdentity'
    <3>1. /\ pc[t] = "release" /\ pc' = [pc EXCEPT ![t] = "done"]
          /\ inFlight' = [inFlight EXCEPT ![WorkerOf(t)] = @ \ {JobOf(t)}]
          /\ UNCHANGED <<execToken, grant, ownToken>>
      BY <2>8 DEF ReleaseSlot, FreeSlot, At, Goto
    <3>2. \A u \in Token \ {t} : pc[u] \in Holding =>
             JobOf(u) \in inFlight'[WorkerOf(u)]
      BY <3>1, GrantIsTyped DEF OwnIdentity, TypeOK
    <3> QED
      BY <3>1, <3>2 DEF OwnIdentity, MappedToken, JobOf, WorkerOf, TypeOK
  <2>9. ASSUME NEW w \in Worker, Crash(w) PROVE OwnIdentity'
    <3>1. \A u \in Token : pc'[u] \in Holding =>
             pc[u] \in Holding /\ pc'[u] = pc[u] /\ WorkerOf(u) # w
      BY <2>9 DEF Crash, TypeOK
    <3>2. \A v \in Worker \ {w} : inFlight'[v] = inFlight[v] /\ execToken'[v] = execToken[v]
      BY <2>9 DEF Crash, TypeOK
    <3>3. UNCHANGED <<grant, ownToken>>
      BY <2>9 DEF Crash
    <3> QED
      BY <3>1, <3>2, <3>3, GrantIsTyped DEF OwnIdentity, MappedToken, JobOf, WorkerOf
  <2>10. ASSUME NEW j \in Job, \/ Create(j) \/ Cancel(j) \/ DeleteProject(j)
                               \/ VisibilityExpires(j) \/ \E k \in Job : UserRetry(j, k)
         PROVE  OwnIdentity'
    BY <2>10, <2>1 DEF Create, Cancel, DeleteProject, VisibilityExpires, UserRetry
  <2>11. ASSUME NEW w \in Worker, ReceiveNothing(w) \/ Stop(w) PROVE OwnIdentity'
    BY <2>11, <2>1 DEF ReceiveNothing, Stop
  <2>12. ASSUME NEW t \in Token, Heartbeat(t) PROVE OwnIdentity'
    BY <2>12, <2>1 DEF Heartbeat, HeartbeatCheck, HeartbeatExtend
  <2>13. CASE UNCHANGED vars
    BY <2>13, <2>1 DEF vars
  <2> QED
    BY <2>3, <2>4, <2>5, <2>6, <2>7, <2>8, <2>9, <2>10, <2>11, <2>12, <2>13
    DEF Next, Product, Queue, Step
<1> QED
  BY <1>1, <1>2, TypeCorrect, PTL DEF Spec

----------------------------------------------------------------------------
(* Fencing: what is recorded for a Job comes from the execution that holds it, *)
(* and JobDelivery implements JobLifecycle.                                    *)

\* No step changes the grant of a token that was granted before.
LEMMA GrantsAreFinal ==
    ASSUME TypeOK, [Next]_vars, NEW i \in Token, pc[i] # "unused"
    PROVE  pc'[i] # "unused" /\ grant'[i] = grant[i]
<1> USE DEF TypeOK, Pc, Holding, Executing, At, Goto, localVars, attemptVars
<1>1. ASSUME NEW w \in Worker, NEW j \in Job, NEW S \in SUBSET PassedOver(w),
             Receive(w, j, S)
      PROVE  pc'[i] # "unused" /\ grant'[i] = grant[i]
  BY <1>1, FreshTokenIsUnused DEF Receive
<1>2. ASSUME NEW t \in Token, \/ MarkRunning(t) \/ Publish(t) \/ Withdraw(t)
                              \/ HandlerRaises(t)
      PROVE  pc'[i] # "unused" /\ grant'[i] = grant[i]
  BY <1>2 DEF MarkRunning, Publish, Withdraw, HandlerRaises
<1>3. ASSUME NEW t \in Token, HandlerReturns(t) \/ HandleError(t)
      PROVE  pc'[i] # "unused" /\ grant'[i] = grant[i]
  BY <1>3 DEF HandlerReturns, HandleError, CheckCancelled
<1>4. ASSUME NEW t \in Token, \/ MarkSucceeded(t) \/ Requeue(t) \/ MarkFailed(t)
                              \/ RejectUnsupported(t)
      PROVE  pc'[i] # "unused" /\ grant'[i] = grant[i]
  BY <1>4 DEF MarkSucceeded, Requeue, MarkFailed, RejectUnsupported, Update
<1>5. ASSUME NEW t \in Token, FinishDelivery(t) \/ ReleaseSlot(t)
      PROVE  pc'[i] # "unused" /\ grant'[i] = grant[i]
  BY <1>5 DEF FinishDelivery, ReleaseSlot
<1>6. ASSUME NEW w \in Worker, Stop(w) \/ Crash(w)
      PROVE  pc'[i] # "unused" /\ grant'[i] = grant[i]
  BY <1>6 DEF Stop, Crash
<1>7. ASSUME \/ Product
             \/ \E j \in Job : VisibilityExpires(j)
             \/ \E w \in Worker : ReceiveNothing(w)
             \/ \E t \in Token : Heartbeat(t)
             \/ UNCHANGED vars
      PROVE  pc'[i] # "unused" /\ grant'[i] = grant[i]
  BY <1>7
  DEF Product, Create, Cancel, DeleteProject, UserRetry, VisibilityExpires,
      ReceiveNothing, Heartbeat, HeartbeatCheck, HeartbeatExtend, vars
<1> QED
  BY <1>1, <1>2, <1>3, <1>4, <1>5, <1>6, <1>7 DEF Next, Queue, Step

\* A Version stays that of its execution once published, and Publish writes
\* the thread's own token, in which OwnIdentity says its namespace is.
PublishedByGranted == \A v \in versions : pc[v.by] # "unused"

\* Whoever publishes, fenced_job_publish_version's key check and the worker's
\* token map together put a Version's bytes in its own execution's namespace.
THEOREM VersionsBelongToExecution == Spec => []VersionsOfTheirExecution
<1>1. Init => VersionsOfTheirExecution /\ PublishedByGranted
  BY DEF Init, VersionsOfTheirExecution, PublishedByGranted
<1>2. TypeOK /\ OwnIdentity /\ VersionsOfTheirExecution /\ PublishedByGranted /\ [Next]_vars
      => VersionsOfTheirExecution' /\ PublishedByGranted'
  <2> SUFFICES ASSUME TypeOK, OwnIdentity, VersionsOfTheirExecution,
                      PublishedByGranted, [Next]_vars
               PROVE  VersionsOfTheirExecution' /\ PublishedByGranted'
    OBVIOUS
  <2>1. \A v \in versions :
           v.key = v.by /\ grant'[v.by].job = v.job /\ pc'[v.by] # "unused"
    BY GrantsAreFinal
    DEF VersionsOfTheirExecution, PublishedByGranted, TypeOK, Version, JobOf
  <2>2. ASSUME versions' \subseteq versions
        PROVE  VersionsOfTheirExecution' /\ PublishedByGranted'
    BY <2>1, <2>2 DEF VersionsOfTheirExecution, PublishedByGranted, JobOf
  <2>3. ASSUME NEW t \in Token, Publish(t)
        PROVE  VersionsOfTheirExecution' /\ PublishedByGranted'
    <3>1. pc[t] = "running" /\ ownToken[t] = t
      BY <2>3 DEF Publish, At, OwnIdentity, Holding, Executing
    <3>2. grant'[t].job = JobOf(t) /\ pc'[t] # "unused"
      BY <3>1, GrantsAreFinal DEF JobOf
    <3>3. \/ versions' = versions \cup {[job |-> JobOf(t), by |-> t, key |-> t]}
          \/ versions' = versions
      BY <2>3, <3>1 DEF Publish
    <3> QED
      BY <2>1, <3>2, <3>3 DEF VersionsOfTheirExecution, PublishedByGranted, JobOf
  <2>4. ASSUME (\E j \in Job : DeleteProject(j)) \/ (\E t \in Token : Withdraw(t))
        PROVE  VersionsOfTheirExecution' /\ PublishedByGranted'
    BY <2>4, <2>2 DEF DeleteProject, Withdraw
  <2>5. ASSUME NEW j \in Job, \/ Create(j) \/ Cancel(j) \/ VisibilityExpires(j)
                              \/ \E k \in Job : UserRetry(j, k)
        PROVE  versions' = versions
    BY <2>5 DEF Create, InsertQueued, Cancel, VisibilityExpires, UserRetry
  <2>6. ASSUME NEW w \in Worker, \/ ReceiveNothing(w) \/ Stop(w) \/ Crash(w)
                                 \/ \E j \in Job, S \in SUBSET PassedOver(w) : Receive(w, j, S)
        PROVE  versions' = versions
    BY <2>6 DEF ReceiveNothing, Receive, Stop, Crash
  <2>7. ASSUME NEW t \in Token, Step(t) \/ Heartbeat(t), ~Publish(t), ~Withdraw(t)
        PROVE  versions' = versions
    BY <2>7
    DEF Step, Heartbeat, MarkRunning, HandlerRaises, HandlerReturns, MarkSucceeded,
        HandleError, Requeue, MarkFailed, RejectUnsupported, Update, FinishDelivery,
        ReleaseSlot, HeartbeatCheck, HeartbeatExtend
  <2>8. CASE UNCHANGED vars
    BY <2>8, <2>2 DEF vars
  <2> QED
    BY <2>2, <2>3, <2>4, <2>5, <2>6, <2>7, <2>8 DEF Next, Product, Queue
<1> QED
  BY <1>1, <1>2, TypeCorrect, AttemptsKeepTheirIdentity, PTL DEF Spec

\* A lifecycle update whose filter matches is made by the execution that the
\* row's token names.
LEMMA OwnerIsHolder ==
    ASSUME TypeOK, OwnIdentity, NEW t \in Token, NEW s,
           pc[t] \in Executing, Owns(t, s)
    PROVE  JobOf(t) \in Job /\ stage[JobOf(t)] = s /\ token[JobOf(t)] = t
BY GrantIsTyped DEF Owns, Matches, OwnIdentity, Executing, Holding

\* Once another execution was granted the Job, an attempt's thread changes
\* nothing the Job consists of: every one of its writes, publications and
\* deletions of Versions included, names its own token.
THEOREM StaleAttemptsAreInert == Spec => StaleAttemptIsInert
<1> DEFINE Inert(t) ==
              /\ pc[t] \in Holding
              /\ token[JobOf(t)] # t
              /\ stage[JobOf(t)] # "deleted"
              /\ Step(t)
              => UNCHANGED <<rowVars, versions, message>>
<1>1. TypeOK /\ OwnIdentity => \A t \in Token : Inert(t)
  <2> SUFFICES ASSUME TypeOK, OwnIdentity, NEW i \in Token,
                      pc[i] \in Holding, token[JobOf(i)] # i,
                      stage[JobOf(i)] # "deleted", Step(i)
               PROVE  UNCHANGED <<rowVars, versions, message>>
    OBVIOUS
  <2> USE DEF At, Goto
  <2>1. CASE MarkRunning(i)
    <3>1. MappedToken(i) = i
      BY <2>1 DEF MarkRunning, OwnIdentity, Holding
    <3>2. ~Matches(i, MappedToken(i), "claimed")
      BY <3>1 DEF Matches
    <3> QED
      BY <2>1, <3>2 DEF MarkRunning, rowVars
  <2>2. CASE Publish(i) \/ Withdraw(i)
    <3>1. ownToken[i] = i
      BY <2>2 DEF Publish, Withdraw, OwnIdentity, Holding, Executing
    <3>2. ~MayPublish(i)
      BY <3>1 DEF MayPublish
    <3> QED
      BY <2>2, <3>2 DEF Publish, Withdraw
  <2>3. CASE \/ HandlerRaises(i) \/ HandlerReturns(i) \/ HandleError(i) \/ ReleaseSlot(i)
    BY <2>3 DEF HandlerRaises, HandlerReturns, HandleError, ReleaseSlot
  <2>4. CASE MarkSucceeded(i) \/ Requeue(i) \/ MarkFailed(i) \/ RejectUnsupported(i)
    <3>1. ~Owns(i, "running") /\ pc[i] \in Executing
      BY <2>4, OwnerIsHolder
      DEF MarkSucceeded, Requeue, MarkFailed, RejectUnsupported, Update, Executing
    <3> QED
      BY <2>4, <3>1 DEF MarkSucceeded, Requeue, MarkFailed, RejectUnsupported, Update
  <2>5. CASE FinishDelivery(i)
    BY <2>5 DEF FinishDelivery, Disposition
  <2> QED
    BY <2>1, <2>2, <2>3, <2>4, <2>5 DEF Step
<1>2. TypeOK /\ OwnIdentity /\ [Next]_vars => [\A t \in Token : Inert(t)]_vars
  BY <1>1
<1> QED
  BY <1>2, TypeCorrect, AttemptsKeepTheirIdentity, PTL DEF Spec, StaleAttemptIsInert

\* Only the execution the row's token names can record its outputs, and no
\* token is granted for a Job that has succeeded.
THEOREM SuccessIsTheLastHolders == Spec => []SucceededByLastHolder
<1> DEFINE Unmoved(j) == stage'[j] = "succeeded" =>
              stage[j] = "succeeded" /\ result'[j] = result[j] /\ token'[j] = token[j]
<1>1. Init => SucceededByLastHolder
  BY DEF Init, SucceededByLastHolder
<1>2. TypeOK /\ OwnIdentity /\ SucceededByLastHolder /\ [Next]_vars
      => SucceededByLastHolder'
  <2> SUFFICES ASSUME TypeOK, OwnIdentity, SucceededByLastHolder, [Next]_vars
               PROVE  SucceededByLastHolder'
    OBVIOUS
  <2>1. ASSUME \A j \in Job : Unmoved(j) PROVE SucceededByLastHolder'
    BY <2>1 DEF SucceededByLastHolder
  <2> USE DEF TypeOK, rowVars
  <2>2. ASSUME NEW t \in Token, MarkSucceeded(t) PROVE SucceededByLastHolder'
    <3>1. CASE Owns(t, "running") /\ ~UNCHANGED rowVars
      <4>1. JobOf(t) \in Job /\ token[JobOf(t)] = t
        BY <2>2, <3>1, OwnerIsHolder DEF MarkSucceeded, Update, At, Executing
      <4> QED
        BY <2>2, <3>1, <4>1 DEF MarkSucceeded, Update, SucceededByLastHolder
    <3>2. CASE UNCHANGED rowVars
      BY <3>2, <2>1
    <3> QED
      BY <2>2, <3>1, <3>2 DEF MarkSucceeded, Update
  <2>3. ASSUME NEW t \in Token, Requeue(t) \/ MarkFailed(t) \/ RejectUnsupported(t)
        PROVE  SucceededByLastHolder'
    BY <2>3, <2>1 DEF Requeue, MarkFailed, RejectUnsupported, Update, FailRow, Owns, Matches
  <2>4. ASSUME NEW t \in Token, MarkRunning(t) PROVE SucceededByLastHolder'
    BY <2>4, <2>1 DEF MarkRunning
  <2>5. ASSUME NEW w \in Worker, NEW j \in Job, NEW S \in SUBSET PassedOver(w),
               Receive(w, j, S)
        PROVE  SucceededByLastHolder'
    BY <2>5, <2>1 DEF Receive
  <2>6. ASSUME NEW j \in Job, \/ Create(j) \/ Cancel(j) \/ DeleteProject(j)
                              \/ \E k \in Job : UserRetry(j, k)
        PROVE  SucceededByLastHolder'
    BY <2>6, <2>1 DEF Create, InsertQueued, Cancel, DeleteProject, UserRetry
  <2>7. ASSUME \/ \E j \in Job : VisibilityExpires(j)
               \/ \E w \in Worker : ReceiveNothing(w) \/ Stop(w) \/ Crash(w)
               \/ \E t \in Token : \/ Heartbeat(t) \/ Publish(t) \/ Withdraw(t)
                                    \/ HandlerRaises(t) \/ HandlerReturns(t)
                                    \/ HandleError(t) \/ FinishDelivery(t) \/ ReleaseSlot(t)
               \/ UNCHANGED vars
        PROVE  UNCHANGED rowVars
    BY <2>7
    DEF VisibilityExpires, ReceiveNothing, Stop, Crash, Heartbeat, HeartbeatCheck,
        HeartbeatExtend, Publish, Withdraw, HandlerRaises, HandlerReturns, HandleError,
        FinishDelivery, ReleaseSlot, vars
  <2> QED
    BY <2>1, <2>2, <2>3, <2>4, <2>5, <2>6, <2>7 DEF Next, Product, Queue, Step
<1> QED
  BY <1>1, <1>2, TypeCorrect, AttemptsKeepTheirIdentity, PTL DEF Spec

\* The token in a row was granted for that row's Job, and a Job is claimed or
\* running only under a token.
HolderIsGranted ==
    \A j \in Job :
        /\ token[j] # NoToken => pc[token[j]] # "unused" /\ JobOf(token[j]) = j
        /\ stage[j] \in {"claimed", "running"} => token[j] # NoToken

\* execution_token is written by receive_job_delivery alone, for the row it
\* claims, and no other update takes it away.
THEOREM HoldersAreGranted == Spec => []HolderIsGranted
<1>1. Init => HolderIsGranted
  BY DeliveryAssumption DEF Init, HolderIsGranted
<1>2. TypeOK /\ HolderIsGranted /\ [Next]_vars => HolderIsGranted'
  <2> SUFFICES ASSUME TypeOK, HolderIsGranted, [Next]_vars PROVE HolderIsGranted'
    OBVIOUS
  <2> USE DEF rowVars
  \* Steps that grant nothing only have to leave the tokens and unclaimed
  \* stages as they are, for grants are final.
  <2>1. ASSUME token' = token,
               \A j \in Job : stage'[j] \in {"claimed", "running"}
                                => stage[j] \in {"claimed", "running"}
        PROVE  HolderIsGranted'
    <3>1. \A j \in Job : token[j] # NoToken =>
             pc'[token[j]] # "unused" /\ grant'[token[j]].job = j
      BY GrantsAreFinal DEF HolderIsGranted, JobOf, TypeOK
    <3> QED
      BY <2>1, <3>1 DEF HolderIsGranted, JobOf
  <2>2. ASSUME NEW w \in Worker, NEW j \in Job, NEW S \in SUBSET PassedOver(w),
               Receive(w, j, S)
        PROVE  HolderIsGranted'
    <3>1. PICK t \in Token : t = FreshToken /\ pc[t] = "unused"
      BY <2>2, FreshTokenIsUnused DEF Receive, At
    <3>2. /\ stage' = [stage EXCEPT ![j] = "claimed"]
          /\ token' = [token EXCEPT ![j] = t]
          /\ pc'[t] # "unused" /\ grant'[t] = Received(w, j)
      BY <2>2, <3>1 DEF Receive, Goto, TypeOK
    <3>3. pc'[t] # "unused" /\ grant'[t].job = j
      BY <3>2 DEF Received
    <3>4. \A k \in Job : token[k] # NoToken =>
             pc'[token[k]] # "unused" /\ grant'[token[k]].job = k
      BY GrantsAreFinal DEF HolderIsGranted, JobOf, TypeOK
    <3> QED
      BY <3>1, <3>2, <3>3, <3>4, DeliveryAssumption DEF HolderIsGranted, JobOf, TypeOK
  <2>3. ASSUME NEW t \in Token, MarkRunning(t) PROVE HolderIsGranted'
    BY <2>3, <2>1 DEF MarkRunning, Matches, TypeOK
  <2>4. ASSUME NEW t \in Token, \/ MarkSucceeded(t) \/ Requeue(t) \/ MarkFailed(t)
                                \/ RejectUnsupported(t)
        PROVE  HolderIsGranted'
    BY <2>4, <2>1
    DEF MarkSucceeded, Requeue, MarkFailed, RejectUnsupported, FailRow, Update, TypeOK
  <2>5. ASSUME NEW j \in Job, \/ Create(j) \/ Cancel(j) \/ DeleteProject(j)
                              \/ \E k \in Job : UserRetry(j, k)
        PROVE  HolderIsGranted'
    BY <2>5, <2>1 DEF Create, InsertQueued, Cancel, DeleteProject, UserRetry, TypeOK
  <2>6. ASSUME \/ \E j \in Job : VisibilityExpires(j)
               \/ \E w \in Worker : ReceiveNothing(w) \/ Stop(w) \/ Crash(w)
               \/ \E t \in Token : \/ Heartbeat(t) \/ Publish(t) \/ Withdraw(t)
                                    \/ HandlerRaises(t) \/ HandlerReturns(t)
                                    \/ HandleError(t) \/ FinishDelivery(t) \/ ReleaseSlot(t)
               \/ UNCHANGED vars
        PROVE  UNCHANGED rowVars
    BY <2>6
    DEF VisibilityExpires, ReceiveNothing, Stop, Crash, Heartbeat, HeartbeatCheck,
        HeartbeatExtend, Publish, Withdraw, HandlerRaises, HandlerReturns, HandleError,
        FinishDelivery, ReleaseSlot, vars
  <2> QED
    BY <2>1, <2>2, <2>3, <2>4, <2>5, <2>6 DEF Next, Product, Queue, Step
<1> QED
  BY <1>1, <1>2, TypeCorrect, PTL DEF Spec

\* What an attempt decided in its except clause, it carries out: it requeues
\* only with retries left and fails the Job only without.
RetryDecided ==
    \A t \in Token :
        /\ pc[t] = "backoff" => grant[t].failures + 1 <= MaxRetries
        /\ pc[t] = "exhausted" => MaxRetries <= grant[t].failures

\* MayRetry is decided before the backoff, on a count that does not change.
THEOREM RetryDecisionsHold == Spec => []RetryDecided
<1>1. Init => RetryDecided
  BY DEF Init, RetryDecided
<1>2. TypeOK /\ RetryDecided /\ [Next]_vars => RetryDecided'
  <2> SUFFICES ASSUME TypeOK, RetryDecided, [Next]_vars, NEW i \in Token,
                      pc'[i] \in {"backoff", "exhausted"}
               PROVE  \/ pc'[i] = "backoff" /\ grant'[i].failures + 1 <= MaxRetries
                      \/ pc'[i] = "exhausted" /\ MaxRetries <= grant'[i].failures
    BY DEF RetryDecided
  <2> USE DEF At, Goto
  <2>1. CASE pc[i] = pc'[i]
    BY <2>1, GrantsAreFinal DEF RetryDecided
  <2>2. ASSUME NEW t \in Token, HandleError(t), pc'[i] # pc[i]
        PROVE  \/ pc'[i] = "backoff" /\ grant'[i].failures + 1 <= MaxRetries
               \/ pc'[i] = "exhausted" /\ MaxRetries <= grant'[i].failures
    <3>1. /\ t = i /\ pc[i] = "raised" /\ grant' = grant
          /\ pc'[i] = IF MayRetry(i) THEN "backoff" ELSE "exhausted"
      BY <2>2 DEF HandleError, CheckCancelled, TypeOK
    <3>2. grant[i].failures \in Nat
      BY <3>1, GrantIsTyped
    <3> QED
      BY <3>1, <3>2, DeliveryAssumption DEF MayRetry
  <2>3. ASSUME NEW w \in Worker, NEW j \in Job, NEW S \in SUBSET PassedOver(w),
               Receive(w, j, S)
        PROVE  pc'[i] = pc[i]
    BY <2>3, FreshTokenIsUnused DEF Receive, TypeOK
  <2>4. ASSUME NEW t \in Token, Step(t), ~HandleError(t) PROVE pc'[i] = pc[i]
    BY <2>4
    DEF Step, MarkRunning, Publish, Withdraw, HandlerRaises, HandlerReturns, CheckCancelled,
        MarkSucceeded, Requeue, MarkFailed, RejectUnsupported, Update, FinishDelivery,
        ReleaseSlot, TypeOK, attemptVars
  <2>5. ASSUME NEW w \in Worker, Crash(w) PROVE pc'[i] = pc[i]
    BY <2>5 DEF Crash, TypeOK
  <2>6. ASSUME \/ Product
               \/ \E j \in Job : VisibilityExpires(j)
               \/ \E w \in Worker : ReceiveNothing(w) \/ Stop(w)
               \/ \E t \in Token : Heartbeat(t)
               \/ UNCHANGED vars
        PROVE  pc'[i] = pc[i]
    BY <2>6
    DEF Product, Create, Cancel, DeleteProject, UserRetry, VisibilityExpires,
        ReceiveNothing, Stop, Heartbeat, HeartbeatCheck, HeartbeatExtend, attemptVars, vars
  <2> QED
    BY <2>1, <2>2, <2>3, <2>4, <2>5, <2>6 DEF Next, Queue
<1> QED
  BY <1>1, <1>2, TypeCorrect, PTL DEF Spec

\* retry_count is written from a count taken at the receive.  It is right
\* because the writer still holds the row, so nothing was counted in between.
THEOREM RetriesAreCountedRight == Spec => []RetriesAreCounted
<1>1. Init => RetriesAreCounted
  BY DeliveryAssumption DEF Init, RetriesAreCounted
<1>2. /\ TypeOK /\ OwnIdentity /\ HolderIsGranted /\ RetryDecided /\ RetriesAreCounted
      /\ [Next]_vars
      => RetriesAreCounted'
  <2> SUFFICES ASSUME TypeOK, OwnIdentity, HolderIsGranted, RetryDecided,
                      RetriesAreCounted, [Next]_vars
               PROVE  RetriesAreCounted'
    OBVIOUS
  <2> USE DEF rowVars
  \* Without a grant, a requeue or a failure there is nothing to count.
  <2>1. ASSUME token' = token, retries' = retries,
               \A j \in Job : /\ stage'[j] = "failed" => stage[j] = "failed"
                              /\ stage'[j] \in {"claimed", "running"}
                                 => stage[j] \in {"claimed", "running"}
        PROVE  RetriesAreCounted'
    <3>1. \A j \in Job : stage[j] \in {"claimed", "running"} =>
             grant'[token[j]] = grant[token[j]]
      BY GrantsAreFinal DEF HolderIsGranted, TypeOK
    <3> QED
      BY <2>1, <3>1 DEF RetriesAreCounted
  <2>2. ASSUME NEW w \in Worker, NEW j \in Job, NEW S \in SUBSET PassedOver(w),
               Receive(w, j, S)
        PROVE  RetriesAreCounted'
    <3>1. PICK t \in Token : t = FreshToken /\ pc[t] = "unused"
      BY <2>2, FreshTokenIsUnused DEF Receive, At
    <3>2. /\ stage' = [stage EXCEPT ![j] = "claimed"]
          /\ token' = [token EXCEPT ![j] = t]
          /\ retries' = retries /\ grant'[t] = Received(w, j)
      BY <2>2, <3>1 DEF Receive, TypeOK
    <3>3. grant'[t].failures = retries[j]
      BY <3>2 DEF Received
    <3>4. \A k \in Job : stage[k] \in {"claimed", "running"} =>
             grant'[token[k]] = grant[token[k]]
      BY GrantsAreFinal DEF HolderIsGranted, TypeOK
    <3> QED
      BY <3>2, <3>3, <3>4 DEF RetriesAreCounted, TypeOK
  <2>3. ASSUME NEW t \in Token, Requeue(t) PROVE RetriesAreCounted'
    <3>1. pc[t] = "backoff" /\ grant' = grant /\ token' = token
      BY <2>3 DEF Requeue, Update, At
    <3>2. CASE UNCHANGED rowVars
      BY <3>2, <2>1
    <3>3. CASE /\ Owns(t, "running")
               /\ stage' = [stage EXCEPT ![JobOf(t)] = "queued"]
               /\ retries' = [retries EXCEPT ![JobOf(t)] = grant[t].failures + 1]
      <4>1. grant[t].failures + 1 <= MaxRetries
        BY <3>1 DEF RetryDecided
      <4>2. \A k \in Job : k # JobOf(t) => retries'[k] = retries[k] /\ stage'[k] = stage[k]
        BY <3>3 DEF TypeOK
      <4>3. JobOf(t) \in Job => /\ retries'[JobOf(t)] = grant[t].failures + 1
                                /\ stage'[JobOf(t)] = "queued"
        BY <3>3 DEF TypeOK
      <4> QED
        BY <3>1, <4>1, <4>2, <4>3 DEF RetriesAreCounted
    <3> QED
      BY <2>3, <3>2, <3>3 DEF Requeue, Update
  <2>4. ASSUME NEW t \in Token, MarkFailed(t) \/ RejectUnsupported(t)
        PROVE  RetriesAreCounted'
    <3>1. CASE UNCHANGED rowVars
      BY <3>1, <2>1
    <3>2. CASE Owns(t, "running") /\ FailRow(t)
      <4>1. pc[t] \in Executing
        BY <2>4 DEF MarkFailed, RejectUnsupported, Update, At, Executing
      <4>2. JobOf(t) \in Job /\ stage[JobOf(t)] = "running" /\ token[JobOf(t)] = t
        BY <3>2, <4>1, OwnerIsHolder
      <4>3. retries[JobOf(t)] = MaxRetries \/ JobOf(t) \in Unsupported
        <5>1. CASE JobOf(t) \in Unsupported
          BY <5>1
        <5>2. CASE pc[t] = "exhausted"
          <6>1. /\ grant[t].failures = retries[JobOf(t)]
                /\ retries[JobOf(t)] <= MaxRetries /\ retries[JobOf(t)] \in Nat
            BY <4>2 DEF RetriesAreCounted, TypeOK
          <6>2. MaxRetries <= grant[t].failures
            BY <5>2 DEF RetryDecided
          <6> QED
            BY <6>1, <6>2, DeliveryAssumption
        <5> QED
          BY <2>4, <5>1, <5>2 DEF MarkFailed, RejectUnsupported, Update, At
      <4>4. /\ stage' = [stage EXCEPT ![JobOf(t)] = "failed"]
            /\ UNCHANGED <<token, retries, grant>>
        BY <2>4, <3>2 DEF FailRow, MarkFailed, RejectUnsupported, Update
      <4> QED
        BY <4>2, <4>3, <4>4 DEF RetriesAreCounted, TypeOK
    <3> QED
      BY <2>4, <3>1, <3>2 DEF MarkFailed, RejectUnsupported, Update
  <2>5. ASSUME NEW t \in Token, MarkRunning(t) PROVE RetriesAreCounted'
    BY <2>5, <2>1 DEF MarkRunning, Matches, TypeOK
  <2>6. ASSUME NEW t \in Token, MarkSucceeded(t) PROVE RetriesAreCounted'
    BY <2>6, <2>1 DEF MarkSucceeded, Update, TypeOK
  <2>7. ASSUME NEW j \in Job, \/ Create(j) \/ Cancel(j) \/ DeleteProject(j)
                              \/ \E k \in Job : UserRetry(j, k)
        PROVE  RetriesAreCounted'
    BY <2>7, <2>1 DEF Create, InsertQueued, Cancel, DeleteProject, UserRetry, TypeOK
  <2>8. ASSUME \/ \E j \in Job : VisibilityExpires(j)
               \/ \E w \in Worker : ReceiveNothing(w) \/ Stop(w) \/ Crash(w)
               \/ \E t \in Token : \/ Heartbeat(t) \/ Publish(t) \/ Withdraw(t)
                                    \/ HandlerRaises(t) \/ HandlerReturns(t)
                                    \/ HandleError(t) \/ FinishDelivery(t) \/ ReleaseSlot(t)
               \/ UNCHANGED vars
        PROVE  UNCHANGED rowVars
    BY <2>8
    DEF VisibilityExpires, ReceiveNothing, Stop, Crash, Heartbeat, HeartbeatCheck,
        HeartbeatExtend, Publish, Withdraw, HandlerRaises, HandlerReturns, HandleError,
        FinishDelivery, ReleaseSlot, vars
  <2> QED
    BY <2>1, <2>2, <2>3, <2>4, <2>5, <2>6, <2>7, <2>8 DEF Next, Product, Queue, Step
<1> QED
  BY <1>1, <1>2, TypeCorrect, AttemptsKeepTheirIdentity, HoldersAreGranted,
     RetryDecisionsHold, PTL DEF Spec

\* Only a receive grants a token.
LEMMA OnlyReceiveGrants ==
    ASSUME TypeOK, [Next]_vars,
           ~\E w \in Worker, j \in Job : \E S \in SUBSET PassedOver(w) : Receive(w, j, S)
    PROVE  {t \in Token : pc'[t] # "unused"} = {t \in Token : pc[t] # "unused"}
<1> SUFFICES ASSUME NEW i \in Token, pc[i] = "unused" PROVE pc'[i] = "unused"
  BY GrantsAreFinal
<1> USE DEF At, Goto
<1>1. ASSUME NEW t \in Token, Step(t) PROVE pc'[i] = "unused"
  BY <1>1
  DEF Step, MarkRunning, Publish, Withdraw, HandlerRaises, HandlerReturns, CheckCancelled,
      MarkSucceeded, HandleError, Requeue, MarkFailed, RejectUnsupported, Update,
      FinishDelivery, ReleaseSlot, TypeOK, attemptVars
<1>2. ASSUME NEW w \in Worker, Crash(w) PROVE pc'[i] = "unused"
  BY <1>2 DEF Crash, TypeOK, Holding, Executing
<1>3. ASSUME \/ Product
             \/ \E j \in Job : VisibilityExpires(j)
             \/ \E w \in Worker : ReceiveNothing(w) \/ Stop(w)
             \/ \E t \in Token : Heartbeat(t)
             \/ UNCHANGED vars
      PROVE  pc' = pc
  BY <1>3
  DEF Product, Create, Cancel, DeleteProject, UserRetry, VisibilityExpires,
      ReceiveNothing, Stop, Heartbeat, HeartbeatCheck, HeartbeatExtend, attemptVars, vars
<1> QED
  BY <1>1, <1>2, <1>3 DEF Next, Queue

\* Every step is a step of the abstract lifecycle, or leaves it as it is.
\* Publications and failures map to steps of the Job's holder because the
\* thread's token is the row's and its count the row's retry_count.
THEOREM DeliveryImplementsLifecycle == Spec => ImplementsLifecycle
<1> USE DEF Active, Terminal, Lifecycle!Active, Lifecycle!Terminal
<1>1. Init => Lifecycle!Init
  BY DEF Init, Lifecycle!Init
<1>2. /\ TypeOK /\ OwnIdentity /\ RetriesAreCounted /\ RetryDecided /\ RetryChain
      /\ [Next]_vars
      => [Lifecycle!Next]_(Lifecycle!lifecycleVars)
  <2> SUFFICES ASSUME TypeOK, OwnIdentity, RetriesAreCounted, RetryDecided,
                      RetryChain, [Next]_vars
               PROVE  Lifecycle!Next \/ UNCHANGED Lifecycle!lifecycleVars
    OBVIOUS
  <2> DEFINE Issued == {t \in Token : pc[t] # "unused"}
             Keys == {[job |-> v.job, key |-> v.key] : v \in versions}
  <2>1. ASSUME UNCHANGED <<stage, token, retries, versions>>, Issued' = Issued
        PROVE  UNCHANGED Lifecycle!lifecycleVars
    BY <2>1 DEF Lifecycle!lifecycleVars
  <2>2. ASSUME ~\E w \in Worker, j \in Job : \E S \in SUBSET PassedOver(w) : Receive(w, j, S)
        PROVE  Issued' = Issued
    BY <2>2, OnlyReceiveGrants
  <2> USE DEF rowVars
  <2>3. ASSUME NEW w \in Worker, NEW j \in Job, NEW S \in SUBSET PassedOver(w),
               Receive(w, j, S)
        PROVE  Lifecycle!Next
    <3>1. PICK t \in Token : t = FreshToken /\ pc[t] = "unused"
      BY <2>3, FreshTokenIsUnused DEF Receive, At
    <3>2. /\ stage[j] \in Active
          /\ stage' = [stage EXCEPT ![j] = "claimed"]
          /\ token' = [token EXCEPT ![j] = t]
          /\ UNCHANGED <<retries, versions>>
      BY <2>3, <3>1 DEF Receive, PassedOver
    <3>3. /\ \A u \in Token \ {t} : pc'[u] = pc[u]
          /\ pc'[t] # "unused"
      BY <2>3, <3>1 DEF Receive, Goto, TypeOK
    <3>4. t \notin Issued /\ Issued' = Issued \cup {t}
      BY <3>1, <3>3
    <3>5. Lifecycle!Grant(j, t)
      BY <3>2, <3>4 DEF Lifecycle!Grant, Lifecycle!SetStage
    <3> QED
      BY <3>5 DEF Lifecycle!Next
  <2>4. ASSUME NEW j \in Job, InsertQueued(j), Issued' = Issued PROVE Lifecycle!Next
    <3>1. Lifecycle!Submit(j)
      BY <2>4 DEF InsertQueued, Lifecycle!Submit, Lifecycle!SetStage
    <3> QED
      BY <3>1 DEF Lifecycle!Next
  <2>5. ASSUME NEW j \in Job, Cancel(j), Issued' = Issued PROVE Lifecycle!Next
    <3>1. Lifecycle!Cancel(j)
      BY <2>5 DEF Cancel, Lifecycle!Cancel, Lifecycle!SetStage
    <3> QED
      BY <3>1 DEF Lifecycle!Next
  <2>6. ASSUME NEW j \in Job, DeleteProject(j), Issued' = Issued PROVE Lifecycle!Next
    <3>1. PICK D \in SUBSET Job :
             /\ j \in D /\ \A k \in D : stage[k] \notin {"absent", "deleted"}
             /\ stage' = [k \in Job |-> IF k \in D THEN "deleted" ELSE stage[k]]
             /\ versions' = {v \in versions : v.job \notin D}
             /\ UNCHANGED <<token, retries>>
      <4> DEFINE G == {k \in Job : root[k] = root[j] /\ stage[k] \notin {"absent", "deleted"}}
      <4>1. /\ G \in SUBSET Job
            /\ j \in G /\ \A k \in G : stage[k] \notin {"absent", "deleted"}
            /\ stage' = [k \in Job |-> IF k \in G THEN "deleted" ELSE stage[k]]
            /\ versions' = {v \in versions : v.job \notin G}
            /\ UNCHANGED <<token, retries>>
        BY <2>6 DEF DeleteProject
      <4> HIDE DEF G
      <4> QED
        BY <4>1
    <3>2. Keys' = {x \in Keys : x.job \notin D}
      BY <3>1
    <3>3. \A k \in D : stage[k] \in Active \cup Terminal
      BY <3>1 DEF TypeOK, Stage
    <3>4. Lifecycle!Delete(D)
      BY <2>6, <3>1, <3>2, <3>3 DEF Lifecycle!Delete
    <3> QED
      BY <3>4 DEF Lifecycle!Next
  <2>7. ASSUME NEW t \in Token, MarkRunning(t), Issued' = Issued
        PROVE  Lifecycle!Next \/ UNCHANGED Lifecycle!lifecycleVars
    <3>1. JobOf(t) \in Job
      BY <2>7, GrantIsTyped DEF MarkRunning, At
    <3>2. CASE stage[JobOf(t)] = "claimed" /\ stage' = [stage EXCEPT ![JobOf(t)] = "running"]
      <4>1. Lifecycle!Start(JobOf(t))
        BY <2>7, <3>2 DEF MarkRunning, Lifecycle!Start, Lifecycle!SetStage
      <4> QED
        BY <3>1, <4>1 DEF Lifecycle!Next
    <3>3. CASE UNCHANGED stage
      BY <2>7, <3>3, <2>1 DEF MarkRunning
    <3> QED
      BY <2>7, <3>2, <3>3 DEF MarkRunning, Matches
  <2>8. ASSUME NEW t \in Token, Publish(t), Issued' = Issued
        PROVE  Lifecycle!Next \/ UNCHANGED Lifecycle!lifecycleVars
    <3>1. PICK j \in Job : j = JobOf(t) /\ UNCHANGED <<stage, token, retries>>
      BY <2>8, GrantIsTyped DEF Publish, At
    <3>2. CASE /\ stage[j] = "running" /\ token[j] = ownToken[t]
               /\ versions' = versions \cup {[job |-> j, by |-> t, key |-> ownToken[t]]}
      <4>1. Keys' = Keys \cup {[job |-> j, key |-> token[j]]}
        <5>1. PICK p : p.job = j /\ p.key = token[j] /\ versions' = versions \cup {p}
          BY <3>2
        <5>2. Keys' = Keys \cup {[job |-> p.job, key |-> p.key]}
          BY <5>1, Zenon
        <5> QED
          BY <5>1, <5>2
      <4>2. Lifecycle!Publish(j)
        BY <2>8, <3>1, <3>2, <4>1 DEF Lifecycle!Publish
      <4> QED
        BY <3>1, <4>2 DEF Lifecycle!Next
    <3>3. CASE UNCHANGED versions
      BY <2>8, <3>1, <3>3, <2>1
    <3> QED
      BY <2>8, <3>1, <3>2, <3>3 DEF Publish, MayPublish
  <2>12. ASSUME NEW t \in Token, Withdraw(t), Issued' = Issued
         PROVE  Lifecycle!Next \/ UNCHANGED Lifecycle!lifecycleVars
    <3>1. PICK j \in Job : j = JobOf(t) /\ UNCHANGED <<stage, token, retries>>
      BY <2>12, GrantIsTyped DEF Withdraw, At
    <3>2. CASE UNCHANGED versions
      BY <2>12, <3>1, <3>2, <2>1
    <3>3. ASSUME ~UNCHANGED versions PROVE Lifecycle!Next
      <4>1. PICK C \in SUBSET {j, retryOf[j]} :
               stage[j] = "running" /\ versions' = {v \in versions : v.job \notin C}
        BY <2>12, <3>1, <3>3 DEF Withdraw, MayPublish
      <4>2. PICK D \in SUBSET Job : D = C \cap Job
        OBVIOUS
      <4>3. versions' = {v \in versions : v.job \notin D}
        BY <4>1, <4>2 DEF TypeOK, Version
      <4>4. Keys' = {x \in Keys : x.job \notin D}
        BY <4>3
      <4>5. \A i \in D : i = j \/ stage[i] \in {"failed", "cancelled"}
        BY <4>1, <4>2, DeliveryAssumption DEF RetryChain
      <4>6. Lifecycle!Withdraw(j, D)
        BY <2>12, <3>1, <4>1, <4>4, <4>5 DEF Lifecycle!Withdraw
      <4> QED
        BY <4>6 DEF Lifecycle!Next
    <3> QED
      BY <3>2, <3>3
  <2>9. ASSUME NEW t \in Token, Issued' = Issued,
               MarkSucceeded(t) \/ Requeue(t) \/ MarkFailed(t) \/ RejectUnsupported(t)
        PROVE  Lifecycle!Next \/ UNCHANGED Lifecycle!lifecycleVars
    <3> DEFINE j == JobOf(t)
    <3>1. pc[t] \in Executing /\ UNCHANGED versions
      BY <2>9 DEF MarkSucceeded, Requeue, MarkFailed, RejectUnsupported, Update, At, Executing
    <3>2. CASE UNCHANGED rowVars
      BY <2>9, <3>1, <3>2, <2>1
    <3>3. ASSUME Owns(t, "running")
          PROVE  /\ j \in Job /\ stage[j] = "running" /\ retries[j] \in Nat
                 /\ retries[j] <= MaxRetries /\ grant[t].failures = retries[j]
      BY <3>1, <3>3, OwnerIsHolder DEF RetriesAreCounted, TypeOK
    <3>4. CASE MarkSucceeded(t) /\ ~UNCHANGED rowVars
      <4>1. /\ Owns(t, "running") /\ stage' = [stage EXCEPT ![j] = "succeeded"]
            /\ UNCHANGED <<token, retries>>
        BY <3>4 DEF MarkSucceeded, Update
      <4>2. Lifecycle!Succeed(j)
        BY <2>9, <3>1, <3>3, <4>1 DEF Lifecycle!Succeed, Lifecycle!SetStage
      <4> QED
        BY <3>3, <4>1, <4>2 DEF Lifecycle!Next
    <3>5. CASE Requeue(t) /\ ~UNCHANGED rowVars
      <4>1. /\ Owns(t, "running") /\ stage' = [stage EXCEPT ![j] = "queued"]
            /\ retries' = [retries EXCEPT ![j] = grant[t].failures + 1]
            /\ UNCHANGED token /\ pc[t] = "backoff"
        BY <3>5 DEF Requeue, Update, At
      <4>2. retries[j] < MaxRetries /\ retries' = [retries EXCEPT ![j] = retries[j] + 1]
        <5>1. grant[t].failures = retries[j] /\ retries[j] \in Nat
          BY <3>3, <4>1
        <5>2. grant[t].failures + 1 <= MaxRetries
          BY <4>1 DEF RetryDecided
        <5> QED
          BY <4>1, <5>1, <5>2, DeliveryAssumption
      <4>3. Lifecycle!Requeue(j)
        BY <2>9, <3>1, <3>3, <4>1, <4>2 DEF Lifecycle!Requeue, Lifecycle!SetStage
      <4> QED
        BY <3>3, <4>1, <4>3 DEF Lifecycle!Next
    <3>6. CASE (MarkFailed(t) \/ RejectUnsupported(t)) /\ ~UNCHANGED rowVars
      <4>1. /\ Owns(t, "running") /\ stage' = [stage EXCEPT ![j] = "failed"]
            /\ UNCHANGED <<token, retries>>
            /\ pc[t] = "exhausted" \/ j \in Unsupported
        BY <3>6 DEF MarkFailed, RejectUnsupported, Update, FailRow, At
      <4>2. retries[j] = MaxRetries \/ j \in Unsupported
        BY <3>3, <4>1, DeliveryAssumption DEF RetryDecided
      <4>3. Lifecycle!Fail(j)
        BY <2>9, <3>1, <3>3, <4>1, <4>2 DEF Lifecycle!Fail, Lifecycle!SetStage
      <4> QED
        BY <3>3, <4>1, <4>3 DEF Lifecycle!Next
    <3> QED
      BY <2>9, <3>2, <3>4, <3>5, <3>6
  <2>10. ASSUME \/ \E j \in Job : VisibilityExpires(j)
                \/ \E w \in Worker : ReceiveNothing(w) \/ Stop(w) \/ Crash(w)
                \/ \E t \in Token : \/ Heartbeat(t) \/ HandlerRaises(t) \/ HandlerReturns(t)
                                     \/ HandleError(t) \/ FinishDelivery(t) \/ ReleaseSlot(t)
                \/ UNCHANGED vars
         PROVE  UNCHANGED <<stage, token, retries, versions>>
    BY <2>10
    DEF VisibilityExpires, ReceiveNothing, Stop, Crash, Heartbeat, HeartbeatCheck,
        HeartbeatExtend, HandlerRaises, HandlerReturns, HandleError, FinishDelivery,
        ReleaseSlot, vars
  <2>11. CASE ~\E w \in Worker, j \in Job : \E S \in SUBSET PassedOver(w) : Receive(w, j, S)
    <3>1. Issued' = Issued
      BY <2>2, <2>11
    <3>2. CASE Product
      BY <3>1, <3>2, <2>4, <2>5, <2>6 DEF Product, Create, UserRetry
    <3> HIDE DEF Issued
    <3> QED
      BY <3>1, <3>2, <2>1, <2>7, <2>8, <2>9, <2>10, <2>11, <2>12 DEF Next, Queue, Step
  <2> QED
    BY <2>3, <2>11
<1> QED
  BY <1>1, <1>2, TypeCorrect, AttemptsKeepTheirIdentity, RetriesAreCountedRight,
     RetryDecisionsHold, RetriesFollowFailure, PTL DEF Spec, ImplementsLifecycle, Lifecycle!Spec

----------------------------------------------------------------------------
(* Without faults, one execution at a time. *)

Working(t) == pc[t] \in Executing \cup {"received"}

\* As long as nothing went wrong, whoever works on a Job holds it, and nobody
\* else can receive it: its message is hidden while the row is unfinished.
SoleHolder ==
    faults = 0 => \A t \in Token : Working(t) =>
        /\ token[JobOf(t)] = t
        /\ stage[JobOf(t)] \notin {"absent", "queued"}
        /\ stage[JobOf(t)] \in Active => message[JobOf(t)] = "hidden"

\* Nothing repairs a fault, so a history without one has none in its last step.
LEMMA FaultsStay ==
    ASSUME TypeOK, [Next]_vars, faults' = 0
    PROVE  faults = 0
<1> USE DEF TypeOK, Fault, NoFault
<1>1. ASSUME NEW t \in Token, Step(t) PROVE faults = 0
  BY <1>1
  DEF Step, MarkRunning, Publish, Withdraw, HandlerRaises, HandlerReturns, CheckCancelled,
      MarkSucceeded, HandleError, Requeue, MarkFailed, RejectUnsupported, Update,
      FinishDelivery, ReleaseSlot
<1>2. ASSUME NEW w \in Worker, NEW j \in Job, NEW S \in SUBSET PassedOver(w),
             Receive(w, j, S)
      PROVE  faults = 0
  BY <1>2 DEF Receive
<1>3. ASSUME \/ Product
             \/ \E j \in Job : VisibilityExpires(j)
             \/ \E w \in Worker : ReceiveNothing(w) \/ Stop(w) \/ Crash(w)
             \/ \E t \in Token : Heartbeat(t)
             \/ UNCHANGED vars
      PROVE  faults = 0
  BY <1>3
  DEF Product, Create, Cancel, DeleteProject, UserRetry, VisibilityExpires,
      ReceiveNothing, Stop, Crash, Heartbeat, HeartbeatCheck, HeartbeatExtend, vars
<1> QED
  BY <1>1, <1>2, <1>3 DEF Next, Queue, Step

\* SoleHolder is inductive with what is known of tokens and grants: a requeue
\* ends the work, finish_job_delivery compares the token before it releases the
\* message, and while the holder lives its heartbeats keep the message hidden.
THEOREM WorkersAreSoleHolders == Spec => []SoleHolder
<1> USE DEF Executing, Holding, Active, Terminal
<1>1. Init => SoleHolder
  BY DEF Init, SoleHolder, Working
<1>2. TypeOK /\ OwnIdentity /\ HolderIsGranted /\ SoleHolder /\ [Next]_vars => SoleHolder'
  <2> DEFINE Held(t) ==
                /\ token[JobOf(t)] = t
                /\ stage[JobOf(t)] \notin {"absent", "queued"}
                /\ stage[JobOf(t)] \in Active => message[JobOf(t)] = "hidden"
  <2> SUFFICES ASSUME TypeOK, OwnIdentity, HolderIsGranted, SoleHolder, [Next]_vars,
                      faults' = 0, NEW i \in Token, Working(i)'
               PROVE  Held(i)'
    BY DEF SoleHolder
  <2> DEFINE k == JobOf(i)
  <2>1. faults = 0
    BY FaultsStay
  <2>2. ASSUME Working(i)
        PROVE  k \in Job /\ JobOf(i)' = k /\ Held(i) /\ pc[i] \in Holding
    BY <2>1, <2>2, GrantIsTyped, GrantsAreFinal DEF SoleHolder, Working, JobOf
  <2> DEFINE Same == /\ token'[k] = token[k]
                     /\ stage'[k] = stage[k] \/ stage'[k] \in Terminal \cup {"running", "deleted"}
                     /\ \/ stage[k] \in Active /\ message'[k] = message[k]
                        \/ message'[k] = "hidden"
                        \/ stage'[k] \notin Active
  <2>3. ASSUME Working(i), Same PROVE Held(i)'
    BY <2>2, <2>3
  <2> USE DEF rowVars, attemptVars, At, Goto
  <2>4. ASSUME NEW w \in Worker, NEW j \in Job, NEW S \in SUBSET PassedOver(w),
               Receive(w, j, S)
        PROVE  Held(i)'
    <3>1. PICK t \in Token : t = FreshToken /\ pc[t] = "unused"
      BY <2>4, FreshTokenIsUnused DEF Receive
    <3>2. /\ message[j] = "visible" /\ stage[j] \in Active
          /\ stage' = [stage EXCEPT ![j] = "claimed"]
          /\ token' = [token EXCEPT ![j] = t]
          /\ message' = Taken(w, S, j)
          /\ grant' = [grant EXCEPT ![t] = Received(w, j)]
      BY <2>4, <3>1 DEF Receive, PassedOver, Visible
    <3>3. CASE i = t
      <4>1. JobOf(i)' = j
        BY <3>2, <3>3 DEF JobOf, Received, TypeOK
      <4> QED
        BY <3>2, <3>3, <4>1 DEF Taken, Hide, TypeOK
    <3>4. CASE i # t
      <4>1. Working(i)
        BY <2>4, <3>1, <3>4 DEF Receive, Working, TypeOK
      <4>2. k # j
        BY <2>2, <3>2, <4>1
      <4>3. stage[k] \in Active => message'[k] = message[k]
        BY <2>2, <3>2, <4>1, <4>2
        DEF Taken, PassOver, PassedOver, Visible, Hide, Archive, TypeOK
      <4> QED
        BY <2>2, <2>3, <3>2, <4>1, <4>2, <4>3 DEF TypeOK
    <3> QED
      BY <3>3, <3>4
  <2>5. Working(i) \/ \E w \in Worker, j \in Job : \E S \in SUBSET PassedOver(w) : Receive(w, j, S)
    <3>1. ASSUME NEW t \in Token, Step(t) PROVE Working(i)
      BY <3>1
      DEF Step, MarkRunning, Publish, Withdraw, HandlerRaises, HandlerReturns, CheckCancelled,
          MarkSucceeded, HandleError, Requeue, MarkFailed, RejectUnsupported, Update,
          FinishDelivery, ReleaseSlot, TypeOK, Working
    <3>2. ASSUME NEW w \in Worker, Crash(w) PROVE Working(i)
      BY <3>2 DEF Crash, TypeOK, Working
    <3>3. ASSUME \/ Product
                 \/ \E j \in Job : VisibilityExpires(j)
                 \/ \E w \in Worker : ReceiveNothing(w) \/ Stop(w)
                 \/ \E t \in Token : Heartbeat(t)
                 \/ UNCHANGED vars
          PROVE  pc' = pc
      BY <3>3
      DEF Product, Create, Cancel, DeleteProject, UserRetry, VisibilityExpires,
          ReceiveNothing, Stop, Heartbeat, HeartbeatCheck, HeartbeatExtend, vars
    <3> QED
      BY <3>1, <3>2, <3>3 DEF Next, Queue, Working
  <2>6. ASSUME NEW j \in Job, Working(i),
               Create(j) \/ Cancel(j) \/ DeleteProject(j) \/ \E m \in Job : UserRetry(j, m)
        PROVE  Held(i)'
    BY <2>2, <2>3, <2>6 DEF Create, InsertQueued, Cancel, DeleteProject, UserRetry, TypeOK
  <2>7. ASSUME NEW j \in Job, Working(i), VisibilityExpires(j) PROVE Held(i)'
    <3>1. stage[k] \in Active => j # k
      BY <2>1, <2>2, <2>7 DEF VisibilityExpires, HasLiveHolder, Fault, TypeOK, Stage
    <3> QED
      BY <2>2, <2>3, <2>7, <3>1 DEF VisibilityExpires, TypeOK
  <2>8. ASSUME NEW w \in Worker, Working(i), ReceiveNothing(w) PROVE Held(i)'
    BY <2>2, <2>3, <2>8
    DEF ReceiveNothing, PassOver, PassedOver, Visible, Hide, Archive, TypeOK
  <2>9. ASSUME NEW t \in Token, Working(i), MarkRunning(t) PROVE Held(i)'
    <3>1. /\ UNCHANGED <<token, message>>
          /\ stage' = stage \/ stage' = [stage EXCEPT ![JobOf(t)] = "running"]
          /\ stage' # stage => stage[JobOf(t)] = "claimed"
      BY <2>9 DEF MarkRunning, Matches
    <3>2. \/ stage'[k] = stage[k]
          \/ stage[k] = "claimed" /\ stage'[k] = "running"
      BY <2>2, <2>9, <3>1 DEF TypeOK
    <3> QED
      BY <2>2, <2>3, <2>9, <3>1, <3>2
  <2>10. ASSUME NEW t \in Token, Working(i), MarkSucceeded(t) PROVE Held(i)'
    BY <2>2, <2>3, <2>10 DEF MarkSucceeded, Update, TypeOK
  <2>11. ASSUME NEW t \in Token, Working(i), MarkFailed(t) \/ RejectUnsupported(t)
         PROVE  Held(i)'
    BY <2>2, <2>3, <2>11 DEF MarkFailed, RejectUnsupported, FailRow, Update, TypeOK
  <2>12. ASSUME NEW t \in Token, Working(i), Requeue(t) PROVE Held(i)'
    <3>1. t # i
      BY <2>1, <2>12 DEF Requeue, Update, Working, TypeOK
    <3>2. Owns(t, "running") => JobOf(t) # k
      BY <2>2, <2>12, <3>1, OwnerIsHolder DEF Requeue, Update
    <3> QED
      BY <2>2, <2>3, <2>12, <3>2 DEF Requeue, Update, TypeOK
  <2>13. ASSUME NEW t \in Token, Working(i), FinishDelivery(t) PROVE Held(i)'
    <3>1. t # i /\ UNCHANGED rowVars
      BY <2>2, <2>13 DEF FinishDelivery, Working
    <3>2. stage[k] \in Active => message'[k] = message[k]
      BY <2>2, <2>13, <3>1 DEF FinishDelivery, Disposition, TypeOK
    <3> QED
      BY <2>2, <2>3, <2>13, <3>1, <3>2
  <2>14. ASSUME NEW t \in Token, Working(i), HeartbeatExtend(t) PROVE Held(i)'
    BY <2>2, <2>3, <2>14 DEF HeartbeatExtend, Live, TypeOK
  <2>15. ASSUME Working(i),
                \/ \E w \in Worker : Stop(w) \/ Crash(w)
                \/ \E t \in Token : \/ HeartbeatCheck(t) \/ Publish(t) \/ Withdraw(t)
                                     \/ HandlerRaises(t) \/ HandlerReturns(t)
                                     \/ HandleError(t) \/ ReleaseSlot(t)
                \/ UNCHANGED vars
         PROVE  Held(i)'
    <3>1. UNCHANGED <<rowVars, message>>
      BY <2>15
      DEF Stop, Crash, HeartbeatCheck, Publish, Withdraw, HandlerRaises, HandlerReturns,
          HandleError, ReleaseSlot, vars
    <3> QED
      BY <2>2, <2>15, <3>1
  <2> HIDE DEF Held
  <2> QED
    BY <2>4, <2>5, <2>6, <2>7, <2>8, <2>9, <2>10, <2>11, <2>12, <2>13, <2>14, <2>15
    DEF Next, Product, Queue, Step, Heartbeat
<1> QED
  BY <1>1, <1>2, TypeCorrect, AttemptsKeepTheirIdentity, HoldersAreGranted, PTL DEF Spec

\* Two executions of one Job at once are the work of a fault: a lost reply, a
\* crash, or a heartbeat that did not get through.
THEOREM OverlapsNeedAFault == Spec => []OverlapNeedsFault
<1>1. SoleHolder => OverlapNeedsFault
  BY DEF SoleHolder, OverlapNeedsFault, Working
<1> QED
  BY <1>1, WorkersAreSoleHolders, PTL

=============================================================================
