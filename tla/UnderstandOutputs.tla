------------------------- MODULE UnderstandOutputs -------------------------
(***************************************************************************)
(* What the `understand' handler leaves behind (domain/capabilities.py).   *)
(*                                                                         *)
(* One Workflow: a first Job and the Jobs that retry it.  An execution     *)
(* clears away what it believes earlier ones left, then stores its parts   *)
(* one after the other, each in transactions of its own: bytes first, then *)
(* the Version, and the facts (notes, insights) that hang on the MIDI      *)
(* Version.  It may lose its Job to a later execution at any point, and    *)
(* goes on until a fenced call refuses it.                                 *)
(*                                                                         *)
(* The Jobs themselves behave as JobLifecycle says; JobDelivery shows that *)
(* queue and workers do behave so.                                         *)
(***************************************************************************)
EXTENDS Naturals, Sequences

CONSTANTS Job, Token, NoToken, NoJob, MaxRetries

ASSUME UnderstandAssumption ==
    /\ NoToken \notin Token
    /\ NoJob \notin Job
    /\ MaxRetries \in Nat

VARIABLES
    stage, token, retries, issued,  \* the Jobs, as in JobLifecycle
    result,     \* the execution whose ids are in jobs.output_version_ids
    retryOf,    \* provenance.retry_of_job_id
    outputs,    \* rows: the Job, the execution that stored them, and the part
    objects,    \* bytes in the bucket: the execution namespace and the part
    pc,         \* where the execution of each token is
    jobOf,      \* the Job it executes
    failures,   \* job.lifecycle.retry_count as it was received
    leftovers,  \* Versions that its clean-up read and is about to delete
    stored      \* how many parts it has stored

jobVars    == <<stage, token, retries, issued>>
threadVars == <<pc, jobOf, failures, leftovers, stored>>
vars == <<jobVars, result, retryOf, outputs, objects, threadVars>>

\* What one complete run stores, in this order.  The many insights of an
\* analysis stand as one part, as do the notes; notation MIDI and its optional
\* playback go with the score.
Parts == <<"midi", "notes", "wav", "insights", "score">>
Part  == {"midi", "notes", "wav", "insights", "score"}
Fact  == {"notes", "insights"}

Output == [job: Job, by: Token, part: Part]
Bytes  == [by: Token, part: Part]

VersionsIn(S) == {o \in S : o.part \notin Fact}

Jobs == INSTANCE JobLifecycle WITH
    Unsupported <- {},
    versions    <- {[job |-> o.job, key |-> o.by] : o \in VersionsIn(outputs)}

Working == {"read", "delete", "store"}
Pc == Working \cup {"unused", "granted", "returned", "raised", "over"}

TypeOK ==
    /\ stage \in [Job -> Jobs!Stage]
    /\ token \in [Job -> Token \cup {NoToken}]
    /\ retries \in [Job -> 0..MaxRetries]
    /\ issued \subseteq Token
    /\ result \in [Job -> Token \cup {NoToken}]
    /\ retryOf \in [Job -> Job \cup {NoJob}]
    /\ outputs \subseteq Output
    /\ objects \subseteq Bytes
    /\ pc \in [Token -> Pc]
    /\ jobOf \in [Token -> Job \cup {NoJob}]
    /\ \A t \in Token : pc[t] # "unused" => jobOf[t] \in Job
    /\ failures \in [Token -> 0..MaxRetries]
    /\ leftovers \in [Token -> SUBSET Output]
    /\ stored \in [Token -> 0..Len(Parts)]

Init ==
    /\ outputs = {}
    /\ Jobs!Init
    /\ result = [j \in Job |-> NoToken]
    /\ retryOf = [j \in Job |-> NoJob]
    /\ objects = {}
    /\ pc = [t \in Token |-> "unused"]
    /\ jobOf = [t \in Token |-> NoJob]
    /\ failures = [t \in Token |-> 0]
    /\ leftovers = [t \in Token |-> {}]
    /\ stored = [t \in Token |-> 0]

Goto(t, s) == pc' = [pc EXCEPT ![t] = s]

\* The fence of every output call.
Holds(t) == stage[jobOf[t]] = "running" /\ token[jobOf[t]] = t

----------------------------------------------------------------------------
(* The user. *)

Create(j) ==
    /\ \A i \in Job : stage[i] = "absent"
    /\ UNCHANGED <<result, retryOf, outputs, objects, threadVars>>
    /\ Jobs!Submit(j)

Retry(j, k) ==
    /\ stage[j] \in {"failed", "cancelled"}
    /\ \A i \in Job : retryOf[i] # j
    /\ retryOf' = [retryOf EXCEPT ![k] = j]
    /\ UNCHANGED <<result, outputs, objects, threadVars>>
    /\ Jobs!Submit(k)

Cancel(j) ==
    /\ UNCHANGED <<result, retryOf, outputs, objects, threadVars>>
    /\ Jobs!Cancel(j)

\* The rows go in one cascade; the bytes are for the caller to remove.
DeleteProject ==
    /\ outputs' = {}
    /\ UNCHANGED <<result, retryOf, objects, threadVars>>
    /\ Jobs!Delete({j \in Job : stage[j] \notin {"absent", "deleted"}})

----------------------------------------------------------------------------
(* One execution. *)

Receive(t, j) ==
    /\ pc[t] = "unused"
    /\ Goto(t, "granted")
    /\ jobOf' = [jobOf EXCEPT ![t] = j]
    /\ failures' = [failures EXCEPT ![t] = retries[j]]
    /\ UNCHANGED <<result, retryOf, outputs, objects, leftovers, stored>>
    /\ Jobs!Grant(j, t)

Begin(t) ==
    LET j == jobOf[t]
    IN  /\ pc[t] = "granted"
        /\ UNCHANGED <<result, retryOf, outputs, objects, jobOf, failures, leftovers, stored>>
        /\ \/ token[j] = t /\ Goto(t, "read") /\ Jobs!Start(j)
           \/ ~(token[j] = t /\ stage[j] = "claimed") /\ Goto(t, "over") /\ UNCHANGED jobVars

\* Mutant of CleanupJobs: the Job's own outputs are cleared from the second
\* failure on.
CleanupJobsLate(t) ==
    (IF failures[t] > 1 THEN {jobOf[t]} ELSE {}) \cup ({retryOf[jobOf[t]]} \ {NoJob})

\* The Jobs whose outputs a run clears away: its own after a failed run, and
\* the one it retries.
CleanupJobs(t) ==
    (IF failures[t] > 0 THEN {jobOf[t]} ELSE {}) \cup ({retryOf[jobOf[t]]} \ {NoJob})

\* Mutant of RemoveBytes: bytes go when the clean-up asks for it.
RemoveBytesAtOnce(found) ==
    objects' = objects \ {[by |-> o.by, part |-> o.part] : o \in found}

\* The bucket a handler is given ignores remove(): it could not be fenced.
RemoveBytes(found) == UNCHANGED objects

\* _cleanup_partial_job_outputs up to the deletion: an unfenced read.
ReadLeftovers(t) ==
    LET found == {o \in VersionsIn(outputs) : o.job \in CleanupJobs(t)}
    IN  /\ pc[t] = "read"
        /\ leftovers' = [leftovers EXCEPT ![t] = found]
        /\ RemoveBytes(found)
        /\ Goto(t, IF found = {} THEN "store" ELSE "delete")
        /\ UNCHANGED <<jobVars, result, retryOf, outputs, jobOf, failures, stored>>

\* Deleting an Artifact cascades to its Version and the facts on it.
Without(gone) ==
    {o \in outputs : \A g \in gone :
        g.by = o.by => g.part # o.part /\ (o.part \in Fact => g.part # "midi")}

\* Mutant of MayDelete: the deletion is not fenced.
MayDeleteStale(t) == TRUE

MayDelete(t) == Holds(t)

DeleteLeftovers(t) ==
    /\ pc[t] = "delete"
    /\ IF MayDelete(t)
       THEN outputs' = Without(leftovers[t]) /\ Goto(t, "store")
       ELSE UNCHANGED outputs /\ Goto(t, "raised")
    /\ UNCHANGED <<jobVars, result, retryOf, objects, jobOf, failures, leftovers, stored>>

NextPart(t) == Parts[stored[t] + 1]
Storing(t)  == pc[t] = "store" /\ stored[t] < Len(Parts)

\* The namespace is this execution's alone, so the key is always free.
Upload(t) ==
    /\ Storing(t) /\ NextPart(t) \notin Fact
    /\ [by |-> t, part |-> NextPart(t)] \notin objects
    /\ objects' = objects \cup {[by |-> t, part |-> NextPart(t)]}
    /\ UNCHANGED <<jobVars, result, retryOf, outputs, threadVars>>

Count(t) == stored' = [stored EXCEPT ![t] = @ + 1]

AddOutput(t) ==
    outputs' = outputs \cup {[job |-> jobOf[t], by |-> t, part |-> NextPart(t)]}

\* fenced_job_publish_version: the bytes must be there.
Publish(t) ==
    /\ Storing(t) /\ NextPart(t) \notin Fact
    /\ [by |-> t, part |-> NextPart(t)] \in objects
    /\ \/ /\ Holds(t)
          /\ AddOutput(t) /\ Count(t) /\ UNCHANGED pc
          /\ Jobs!Publish(jobOf[t])
       \/ /\ ~Holds(t) /\ Goto(t, "raised")
          /\ UNCHANGED <<jobVars, outputs, stored>>
    /\ UNCHANGED <<result, retryOf, objects, jobOf, failures, leftovers>>

\* fenced_job_insert: the facts must hang on a Version this Job published.
InsertFacts(t) ==
    /\ Storing(t) /\ NextPart(t) \in Fact
    /\ IF Holds(t) /\ [job |-> jobOf[t], by |-> t, part |-> "midi"] \in outputs
       THEN AddOutput(t) /\ Count(t) /\ UNCHANGED pc
       ELSE Goto(t, "raised") /\ UNCHANGED <<outputs, stored>>
    /\ UNCHANGED <<jobVars, result, retryOf, objects, jobOf, failures, leftovers>>

\* A call fails, or a progress update finds the Job no longer running.
Raise(t) ==
    /\ pc[t] \in Working
    /\ Goto(t, "raised")
    /\ UNCHANGED <<jobVars, result, retryOf, outputs, objects, jobOf, failures, leftovers, stored>>

Return(t) ==
    /\ pc[t] = "store" /\ stored[t] = Len(Parts)
    /\ Goto(t, "returned")
    /\ UNCHANGED <<jobVars, result, retryOf, outputs, objects, jobOf, failures, leftovers, stored>>

\* The lifecycle update after the handler; without the Job it does nothing.
Finish(t) ==
    LET j == jobOf[t]
    IN  /\ Goto(t, "over")
        /\ UNCHANGED <<retryOf, outputs, objects, jobOf, failures, leftovers, stored>>
        /\ \/ /\ pc[t] = "returned" /\ Holds(t)
              /\ result' = [result EXCEPT ![j] = t]
              /\ Jobs!Succeed(j)
           \/ /\ pc[t] = "raised" /\ Holds(t)
              /\ UNCHANGED result
              /\ IF failures[t] + 1 <= MaxRetries THEN Jobs!Requeue(j) ELSE Jobs!Fail(j)
           \/ /\ pc[t] \in {"returned", "raised"} /\ ~Holds(t)
              /\ UNCHANGED <<jobVars, result>>

\* The process dies under it.
Die(t) ==
    /\ pc[t] \notin {"unused", "over"}
    /\ Goto(t, "over")
    /\ UNCHANGED <<jobVars, result, retryOf, outputs, objects, jobOf, failures, leftovers, stored>>

Step(t) ==
    \/ Begin(t) \/ ReadLeftovers(t) \/ DeleteLeftovers(t)
    \/ Upload(t) \/ Publish(t) \/ InsertFacts(t)
    \/ Raise(t) \/ Return(t) \/ Finish(t) \/ Die(t)

Next ==
    \/ \E j \in Job : Create(j) \/ Cancel(j)
    \/ \E j, k \in Job : Retry(j, k)
    \/ DeleteProject
    \/ \E t \in Token : Step(t) \/ \E j \in Job : Receive(t, j)

Spec == Init /\ [][Next]_vars

----------------------------------------------------------------------------
(* Properties. *)

\* A succeeded Job has every part its handler promises, stored by the very
\* execution whose ids it records; neither a superseded run's clean-up nor a
\* later retry's has taken any away.
SucceededIsComplete ==
    \A j \in Job : stage[j] = "succeeded" =>
        \A p \in Part : [job |-> j, by |-> result[j], part |-> p] \in outputs

\* Every Version has its bytes, though executions upload without a fence and
\* the clean-up asks for removals on what it read before it lost the Job.
VersionsHaveBytes ==
    \A o \in VersionsIn(outputs) : [by |-> o.by, part |-> o.part] \in objects

\* Once a run that follows a failed one of its Job, or of the Job it retries,
\* stores its own parts, nothing of that one is left: no superseded run got a
\* row in between what the clean-up read and what it deleted.
RetriesStartClean ==
    \A t \in Token : pc[t] \in {"store", "returned"} /\ Holds(t) =>
        \A o \in outputs :
            /\ o.job = jobOf[t] /\ failures[t] > 0 => o.by = t
            /\ o.job # retryOf[jobOf[t]]

\* The handler is one that the lifecycle allows: its clean-up, an unfenced read
\* and a later deletion of what was read, amounts to withdrawing at once all
\* that its own Job or an unsuccessful predecessor published.
ImplementsLifecycle == Jobs!Spec

\* The clean-up's purpose, "Remove incomplete output graphs before retrying a
\* composite workflow", for the runs of one Job: a succeeded Job has the one
\* output graph that it records.
OneOutputGraph ==
    \A j \in Job : stage[j] = "succeeded" =>
        \A o \in outputs : o.job = j => o.by = result[j]

\* The same along a chain of retries: once one of them succeeds, nothing is
\* left of the failed and cancelled Jobs it stands in for.
ChainLeavesOneGraph ==
    \A j \in Job : stage[j] = "succeeded" => \A o \in outputs : o.job = j
=============================================================================
