---------------------------- MODULE JobLifecycle ----------------------------
(***************************************************************************)
(* What the product promises about a Job, with the transport left out.     *)
(*                                                                         *)
(* A Job is one row of public.jobs.  It is granted to one execution at a   *)
(* time: every grant installs a fresh execution token and so revokes the   *)
(* one before.  Only the holder of the current token may publish a Version *)
(* and only while the Job runs; a finished Job never moves again, except   *)
(* that deleting its Project removes the row and everything it produced.   *)
(*                                                                         *)
(* Nothing here says how a grant reaches a worker.  JobDelivery does, and  *)
(* implements this module.                                                 *)
(***************************************************************************)
EXTENDS Naturals

CONSTANTS
    Job,          \* identities a row of public.jobs may have
    Token,        \* execution tokens (gen_random_uuid())
    NoToken,      \* execution_token is null
    MaxRetries,   \* jobs.max_retries
    Unsupported   \* Jobs whose capability no worker has registered

VARIABLES
    stage,        \* jobs.stage, or "absent" / "deleted" when there is no row
    token,        \* jobs.execution_token
    retries,      \* jobs.retry_count
    issued,       \* every token that was ever granted
    versions      \* published Versions: the Job, and the token of the
                  \* execution namespace its bytes are stored under

lifecycleVars == <<stage, token, retries, issued, versions>>

Active   == {"queued", "claimed", "running"}
Terminal == {"succeeded", "failed", "cancelled"}
Stage    == Active \cup Terminal \cup {"absent", "deleted"}

Init ==
    /\ stage = [j \in Job |-> "absent"]
    /\ token = [j \in Job |-> NoToken]
    /\ retries = [j \in Job |-> 0]
    /\ issued = {}
    /\ versions = {}

SetStage(j, s) == stage' = [stage EXCEPT ![j] = s]

Submit(j) ==
    /\ stage[j] = "absent"
    /\ SetStage(j, "queued")
    /\ UNCHANGED <<token, retries, issued, versions>>

\* Granting an unfinished Job revokes whatever execution held it before.
Grant(j, t) ==
    /\ stage[j] \in Active
    /\ t \notin issued
    /\ SetStage(j, "claimed")
    /\ token' = [token EXCEPT ![j] = t]
    /\ issued' = issued \cup {t}
    /\ UNCHANGED <<retries, versions>>

Start(j) ==
    /\ stage[j] = "claimed"
    /\ SetStage(j, "running")
    /\ UNCHANGED <<token, retries, issued, versions>>

Publish(j) ==
    /\ stage[j] = "running"
    /\ versions' = versions \cup {[job |-> j, key |-> token[j]]}
    /\ UNCHANGED <<stage, token, retries, issued>>

\* A running Job may clear away its own Versions and those of Jobs that ended
\* without success; those of a succeeded Job stay.
Withdraw(j, D) ==
    /\ stage[j] = "running"
    /\ \A i \in D : i = j \/ stage[i] \in {"failed", "cancelled"}
    /\ versions' = {v \in versions : v.job \notin D}
    /\ UNCHANGED <<stage, token, retries, issued>>

Succeed(j) ==
    /\ stage[j] = "running"
    /\ SetStage(j, "succeeded")
    /\ UNCHANGED <<token, retries, issued, versions>>

\* Every failed run of the handler uses up one retry.
Requeue(j) ==
    /\ stage[j] = "running"
    /\ retries[j] < MaxRetries
    /\ SetStage(j, "queued")
    /\ retries' = [retries EXCEPT ![j] = @ + 1]
    /\ UNCHANGED <<token, issued, versions>>

\* A Job fails only when its retries are used up, or when nothing can run it.
Fail(j) ==
    /\ stage[j] = "running"
    /\ retries[j] = MaxRetries \/ j \in Unsupported
    /\ SetStage(j, "failed")
    /\ UNCHANGED <<token, retries, issued, versions>>

Cancel(j) ==
    /\ stage[j] \in Active
    /\ SetStage(j, "cancelled")
    /\ UNCHANGED <<token, retries, issued, versions>>

\* Deleting a Project takes its Jobs and their Versions with it.
Delete(D) ==
    /\ D # {}
    /\ \A j \in D : stage[j] \in Active \cup Terminal
    /\ stage' = [j \in Job |-> IF j \in D THEN "deleted" ELSE stage[j]]
    /\ versions' = {v \in versions : v.job \notin D}
    /\ UNCHANGED <<token, retries, issued>>

Next ==
    \/ \E j \in Job :
          \/ Submit(j) \/ Start(j) \/ Publish(j) \/ Succeed(j)
          \/ Requeue(j) \/ Fail(j) \/ Cancel(j)
          \/ \E t \in Token : Grant(j, t)
          \/ \E D \in SUBSET Job : Withdraw(j, D)
    \/ \E D \in SUBSET Job : Delete(D)

Spec == Init /\ [][Next]_lifecycleVars
=============================================================================
