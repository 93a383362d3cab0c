# A TLA+ verification of ListenCloser

ListenCloser turns a recording into durable musical evidence: a browser uploads audio, the API
creates *Jobs*, worker processes execute them, and every result is an immutable *Version* (a row
plus bytes in a bucket) that the workspace shows, plays, compares and lets the user correct. This
directory models the parts of the program where things happen concurrently and may fail, checks
them with TLC on small instances, and proves the central ones with TLAPS for every instance.

## 1. The system

| Component | State it keeps | Operations | Hard behaviour |
| --- | --- | --- | --- |
| **Job rows** (`supabase/migrations`, `domain/repositories/workflows_jobs.py`) | `stage`, `worker_id`, `execution_token`, `retry_count`, `output_version_ids`, provenance | create, cancel, retry, conditional lifecycle updates | every writer acts on what it read earlier |
| **Job queue** (PGMQ, `*_job_delivery` functions) | one message per Job: visible, hidden until `vt`, archived | send on insert, `receive_`, `extend_`, `finish_job_delivery` | at-least-once delivery, takeover of running Jobs |
| **Worker process** (`job_worker.py`, `fenced_job_worker.py`, `pgmq_job_worker.py`) | in-flight set, token map, delivery map, threads | receive, execute, heartbeat, retry with backoff, finish, stop | crash anywhere, lost replies, a thread that outlives its claim |
| **Fenced side effects** (`fenced_job_publish_version`, `_insert`, `_delete`) | Artifacts, Versions, Entities, Insights | one transaction each, refused unless the row runs under the caller's token | stale executions |
| **Handlers** (`domain/capabilities.py`, `correction_entity_sync.py`, ...) | none of their own; Versions, facts, bytes | `understand`, `transcribe`, `analyze`, `score`, `correct`, ... | many transactions per run, clean-up before a retry |
| **Workflow/Job API** (`domain/api/workflows_jobs.py` and three routes beside it) | Workflows, Jobs | idempotent creation, cancel, retry | check-then-create, unique keys |
| **Upload** (`domain/upload_api.py`, `api/artifacts_versions.py`) | pending objects, Works, Artifacts, Versions | intent, finalize, upload through the server, compensation | repeated and concurrent finalization, failures half-way |
| **Work deletion** (`domain/api/projects_works.py`) | rows, then bytes | delete with best-effort clean-up | snapshot outdated by a running Job or upload |
| **Storage re-home** (`domain/storage_locator_*.py`, two migrations) | replacement Versions | copy, verify, publish, take back | unknown outcome, stale latestness, overlapping runs |
| **Workspace session** (`WorkspaceSession.tsx`, `LibraryPanel.tsx`, `lib/stores/workspace.tsx`, `lib/api-client.ts`) | open Work, its bundle cache, the Job on the panel | open, import, delete, retry, cancel, rebuild, refresh | late answers, revisioned cache, handlers that outlive their Work |
| **Player** (`lib/stores/transport.tsx`) | one audio element, sources, loop, comparison | switch, play, seek, compare | listeners that outlive a source |
| **Job tracking** (`lib/job-tracking.ts`) | one shared query per Job | wait, poll, give up, abort | budgets, watchers that share a request |
| **Corrections** (`piano-roll-correction.ts`, `PianoRollCorrectionCoordinator.tsx`, `correction_entity_sync.py`) | draft, requested action, coordinator, corrected Versions and notes | edit, save, follow the Job, fill in the notes | a coordinator that comes and goes with the roll, partial notes |
| Engines, notation, Ask, queries, shell | none shared | pure or numerical | none a model checker reaches |

How they interact. The API inserts a Job row; a trigger sends its one message in the same
transaction. A worker calls `receive_job_delivery`, which hides the message, claims the row for the
worker under a fresh execution token and returns it. The worker's thread marks the row running,
calls the handler through a client that adds the token to every write, extends the message's
visibility from a heartbeat thread, writes the outcome with an update conditional on stage, worker
and token, and calls `finish_job_delivery`, which archives, releases or keeps the message according
to the row. Nothing else looks for abandoned Jobs: a message that becomes visible again is the only
recovery, and the token is the only thing that keeps an execution that lost its Job from doing harm.

Uploads and Job outputs put bytes into the bucket first and a row second; the deletion of a Work
removes rows first and bytes second, from what it read before; a re-home adds a Version whose bytes
it copied. The browser knows Jobs by polling and Works by bundles it caches under a revision; when a
Job is seen to end, or anything is written, the revision moves on. A correction is a Job like any
other, sent by a component that lives as long as the Piano Roll it sits on.

What makes each component correct:

* *queue and workers*: no unfinished Job loses its message; a superseded execution changes nothing;
  a finished Job stays finished; retries are counted exactly; every Job is settled eventually;
* *fenced side effects and handlers*: a Version's bytes exist and are its own execution's; a
  succeeded Job has everything its handler promises; clean-up removes what an unsuccessful run left
  and nothing else;
* *creation routes*: one Job per idempotency key, whatever requests interleave, and no Workflow
  without a Job;
* *upload and deletion*: no Version without bytes; a failed upload is taken back; bytes nobody will
  remove only where the deletion could not know them;
* *re-home*: a published copy is verified and hides nothing newer than its source; runs that are
  repeated converge;
* *workspace*: what is shown and heard is of the open Work; the end of a Job and of a Work is
  noticed; every wait ends;
* *corrections*: what is saved is what was drafted, once, with all its notes.

## 2. Modules

| Module | Role |
| --- | --- |
| `JobLifecycle` | abstract specification: what the product promises about a Job, without transport |
| `JobDelivery` | rows, queue, worker processes, threads, faults |
| `JobDeliveryProps` | its properties, the refinement of `JobLifecycle`, fairness and liveness |
| `JobDelivery_proofs` | theorems about `JobDelivery` and its refinement |
| `UnderstandOutputs`, `UnderstandOutputs_proofs` | the `understand` handler's rows and bytes, composed with `JobLifecycle` |
| `WorkflowCreation`, `WorkflowCreation_proofs` | the routes that create Workflows and Jobs |
| `Uploads`, `Uploads_proofs` | uploads, publishing Jobs and the deletion of Works |
| `StorageRehome`, `StorageRehome_proofs` | re-homing legacy Versions |
| `WorkspaceSession`, `WorkspaceSession_proofs` | the open Work, its loads, the bundle cache and the handlers |
| `TransportStore` | the player |
| `JobTracking` | `waitForJob` |
| `CorrectionNotes` | what a correction says and does, as operators on notes |
| `Corrections`, `Corrections_proofs` | editor, coordinator, loads and the `correct` handler; uses `CorrectionNotes` |
| `MCJobDelivery`, `MCUnderstandOutputs`, `MCUploads` | symmetry and model values for TLC |
| `MCBrowser` | the composition of `TransportStore`, `JobTracking` and `Corrections`, checked in one instance |
| `Browser_proofs` | theorems about that composition: the player and the wait for a Job |

`JobLifecycle` is the interface between the two detailed Job modules: `JobDelivery` implements it,
and `UnderstandOutputs` uses its actions (`Jobs!Grant`, `Jobs!Publish`, ...) for the rows, adds the
handler's own state, and is shown to stay within it although its clean-up is not one transaction.
What is established in one module is assumed in another: `Uploads` and `Corrections` have one
execution per Job because `StaleAttemptIsInert` holds in `JobDelivery`; `Corrections` lets its wait
for a Job end because `EveryWaitSettles` holds in `JobTracking`.

In a module, a mutant (an operator named for what it gets wrong, before the definition it replaces)
is a plausible bug of the code that the property it belongs to finds.

### JobDelivery

Every RPC and every PostgREST statement is one transaction in the database and one action here.

| State | In the code |
| --- | --- |
| `stage`, `worker`, `token`, `retries`, `result` | columns of `public.jobs`; `absent`/`deleted` when there is no row |
| `root`, `retryOf` | the Workflow a retry shares with its original; `provenance.retry_of_job_id` |
| `message` | the Job's PGMQ message; `hidden` means its `vt` lies in the future |
| `versions` | rows with the execution that published them and the execution namespace of their key |
| `process`, `inFlight`, `execToken` | a worker process, `_in_flight`, `_execution_tokens` |
| `pc`, `grant`, `ownToken` | one thread: where it is, the row it was given, the token its client adds |
| `beat` | heartbeats between the check and the `set_vt` of `extend_job_delivery` |
| `faults` | how much of the fault budget is spent |

Threads are named by the execution token they were granted, since each receive draws a fresh one.
`pc` follows `_execute_job`: `received`, `running` (the handler), `returned`, `raised`, `backoff`,
`exhausted`, `finish` (about to call `finish_job_delivery`), `release` (slot still taken), `done`;
`lost` if the reply to the receive never arrived, `dead` if the process died.

Faults: a call fails before or after it committed; a process dies between two calls; `stop()`;
heartbeats do not get through, so that a message held by a live thread becomes visible. A message
that nobody keeps hidden (crashed holder, cancelled Job) becomes visible without a fault.

Left out: time itself, progress and status texts, tracing, the worker's own heartbeat row, and
malformed messages, which no code sends. The cache-hit branch of `_execute_job` can act on no row:
`cache_key` is unique, so the succeeded Job it looks for could only be the same Job, finished under
a later token, and then the update matches nothing. The row locks of `receive` and `finish`
are taken in opposite orders, so Postgres may abort one of the calls; that is a call that failed.

### UnderstandOutputs

One Workflow: a first Job and the Jobs that retry it, each executed by any number of executions that
may overlap. `outputs` are rows (Versions, and the facts on the MIDI Version), `objects` the bytes.
An execution reads leftovers, deletes them, and stores five parts in order, each Version as upload
then publication. Notes and insights stand as one part each, notation MIDI and score playback go with
the score. A progress update that finds the Job no longer running is the same as any other failed
call (`Raise`). Bytes are never removed by a handler: the bucket it is given ignores `remove`.

### WorkflowCreation

All requests are about one source Version. A route of kind `idempotent` derives the ids of Workflow
and Job from a key (uuid5), looks for the Job, inserts the Workflow, inserts the Job, and on a
conflict looks again; `Shielded` keys are those of the routes that also look for a concurrent Job
when the insert of the Workflow fails (`understand`, `score`, lyrics alignment). `plain` routes look
for nothing, `correct` meets the unique `cache_key`, `retry` is `JobRepo.retry` with its derived id.
`pc[r]` is where a request is between two statements. Who may ask, the parameters of Jobs and the
read-only routes are left out.

### Uploads

`finalize_upload` and the upload through the server are one action per remote call
(`Check`, `Lookup`, `Resolve`, `Find`, `Validate`, `Reject`, `CreateWork`, `CreateArtifact`, `Put`,
`CreateVersion`) and the `Undo...` steps of their compensations; a call may fail, commit without a
reply, or be the last of its process. Beside them a Job stores and publishes one output, and
`delete_work` reads Artifacts, Versions and Jobs in three queries, deletes the Work with its cascade,
and removes the bytes it had read of and trusts (`storage_locator_policy.py`). `object` says of each
key what is there: nothing, sound bytes, bytes that are not MusicXML, or of another size.

### StorageRehome

One Artifact with the rows of its Versions in the order they went in (`chain`). A run of the tool selects a
Version from its snapshot, reads source and destination, uploads, verifies, publishes through
`publish_storage_rehome_version` and interprets a lost reply by reading back. The key of a copy and
the id of its Version derive from the source, so that runs meet. Another Version may be added and the
Work deleted at any time.

The latest Version is the one with the greatest `created_at`, which is fixed when the object is built
and not when its row goes in. The one assumption is that legacy Versions are older than all others,
which is all that `Latest` needs; how copies and others sort among each other is left open, and
`CopiesAreOfTheLatest` does not depend on it: it is about what was in the table when a copy went in.
The refusal of a `created_at` from the future is a failed publication. No route of today appends a
second Version to an Artifact, but `VersionRepo.create` and the publication function are written
for it.
The audit is the snapshot a run starts from; its report is not modelled.

### WorkspaceSession

JavaScript runs to its next await, so a step is what runs between two awaits. `server` has the newest
Job of each Work, `entry` the cache under the Work's current key (epoch and revision are one thing:
a key is current, or old and never asked for again), `load` the newest `loadWork`, whose older ones
change nothing any more, `op` the handlers (import, start, retry, cancel, the two rebuilds, delete)
and where between their awaits they are, `panel` the Job the panel speaks of. Jobs are cancelled by
this session only; elsewhere they succeed or fail (`JobEnds`). Attaching a score, the Jobs of the
evidence panels and the ageing of cache entries are left out.

### TransportStore

The element is given a source and is at 0 and paused until its metadata is there; `waiting` are the
once-listeners a switch leaves, which hear the next such event whatever its source. `pair` is
`compareRef`, `compare` what the controls show. `position` is `positionRef`, which follows the element
at its next "timeupdate" (`Tick`, `TimeUpdate`): neither a listener nor the jump back of a loop sets
it. `RefreshSources` reads it where `setActiveSource` reads the element; a refresh that leaves no
source gives the place up, since there is none to go back to. History variables say where the listener
has got to (`wanted`), whether playing was asked for (`asked`), and (`hurried`) whether a source was
replaced or a control used before a listener ran, or a source lost to a refresh before a "timeupdate"
had told the place; the last is described in section 5.

### JobTracking

Watchers of one Job share one TanStack query: a request under way serves those who come later, the
watcher that started it decides whether a failure is repeated, and repeating stops when the last
watcher leaves. The library is modelled from how `waitForJob` uses it and marked external.

### CorrectionNotes and Corrections

`Replacement` is `buildCorrectionReplacement` (a span and the notes it shall hold), `Replaced` what
`handle_correct` makes of a file, `Encoded` what the notes are after being written as MIDI and read
again: overlapping notes of one pitch end together. Times are ticks, all notes are of one instrument,
equal notes count once. Notes carry entity ids: those of a file read afresh differ from those a
handler made one by one, which is how a draft and a roll can disagree.

`Corrections` follows a correction from the draft (`Edit`, `Change`, `Save`) through the coordinator
(`Handle`, `FindProject`, `Post`, `Observe`) to the handler (`Publish`, `AddRow`, `Clear`, `Fill`,
`Succeed`) and back by a load (`LoadBundle`, `LoadRows`). A load that finds another Version than the
roll's takes the roll away, and draft and coordinator with it (`Unmount`); a request that was under
way goes on as a stray; the coordinator that is mounted next knows nothing of what the last one
handled (`Mounted`). Faults: lost requests and observations, Jobs that are executed again or stop.
Abstracted: bundles and notes are read afresh (their cache is in `WorkspaceSession`), failures of
loads are left to `WorkspaceSession`, the Work has an uploaded source, so that its waveform stays
when the roll goes; a user's retry of a failed `correct` Job is `WorkflowCreation`'s.

## 3. Runs

| Run | Instance | Shows |
| --- | --- | --- |
| `delivery_one_job` | 1 Job, 2 processes, 4 tokens, 2 slots, 2 faults, heartbeats in progress | fencing, counting, finality: `VersionsOfTheirExecution`, `RetriesAreCounted`, `SucceededByLastHolder`, `OverlapNeedsFault`, `FinishedStaysFinished`, `StaleAttemptIsInert` |
| `delivery_refines` | 3 Jobs (one unsupported, one may retry another), 1 process, 2 tokens, 2 slots, 1 fault | `JobDelivery` implements `JobLifecycle`; `NoLostJob` and `OwnIdentity` where Jobs share queue and process |
| `delivery_liveness` | 1 Job, 2 processes, 3 tokens, 1 fault, fair | `EveryJobSettles`, `SettledMessagesLeave`, `SlotsComeBack` |
| `understand` | a Job and its retry, 3 executions, 1 automatic retry | `SucceededIsComplete`, `VersionsHaveBytes`, `RetriesStartClean`, `ImplementsLifecycle` |
| `understand_redelivery` | 1 Job, 2 executions | **violated**: finding 1 |
| `understand_chain` | 3 Jobs, 2 executions | **violated**: finding 2 |
| `creation` | 3 requests, 2 keys (one shielded), 1 span, 1 retry, 1 fault | `IdempotentRoutesSucceed`, `AnswersAgree`, `NoOrphanWorkflows`, `RetriesAreEarned` |
| `uploads` | 2 uploads, possibly of one pending object, 1 Job, 1 deletion, 2 faults | `VersionsKeepBytes`, `FailedUploadsLeaveNothing`, `OrphansWereUnseen` |
| `rehome` | 2 operators, 2 legacy Versions, 1 later Version, a deletion, 2 faults, fair | `CopiesHaveBytes`, `CopiesAreOfTheLatest`, `ReportsAreTrue`, `RerunsConverge` |
| `session` | 2 Works (one to be imported), 2 gestures, 1 failure, fair | `ContentIsOfActiveWork`, `RunningIsLookedAfter`, `DeletedWorksLeave`, `EndsAreNoticed` |
| `browser` | player: 2 Works, 3 sources of length 2, 2 listeners; wait: 2 watchers, 3 requests, 2 failures in a row; correction: a long and a short note, 2 saves, 2 moves, 1 fault; fair | `ShownSourceIsHeard`, `CompareIsCoherent`, `SwitchesKeepThePlace`; `EveryWaitSettles`, `LossIsEarned`; `SavedIsTheDraft`, `SucceededIsWhole`, `OneJobPerSave`, `SavesSettle` |
| `correction_told` | correction: 1 save, no fault | **violated**: finding 3 |

`MCBrowser` starts three machines that share no state and then runs one of them (`running`): the
state space is the sum of the three, and a property of one holds of the others at rest.

**Bounds and why they are enough.**

*Delivery.* Two executions of one Job in different processes, and a third after both, need three
tokens; four allow a takeover of a takeover followed by a retry. Two processes are what distinguishes
the in-flight guard (one process) from the fence (several). One retry (`MaxRetries = 1`) reaches both
outcomes of the except clause. Two faults allow a lost reply followed by a crash, or a takeover whose
successor fails. `delivery_refines` needs several Jobs and no second process: what two processes do
to one Job is in `delivery_one_job`, and the refinement is proved for every instance (section 6).
`ScanLimit` is 1, so that a receive does run out of scans in `delivery_refines`; that is for safety
only, as the liveness run has one Job, whose message can hide behind no other. In the liveness run one process may be
stopped by the one fault and the other goes on; a second fault could stop both, and then nothing is
owed.

*Understand.* Three executions let a superseded run overlap a clean-up that overlaps a third run.

*Creation, uploads, re-home.* Conflicts are between two requests; the third request of `creation`
finds what they left, or retries it. Two uploads of one object are what the check-then-create of
`finalize_upload` lets through, a deletion and a Job are the others that touch its bytes. Two faults
distinguish a failure from a failed compensation and a lost reply from a crash; the properties that
tolerate one say `faults <= 1`, and the runs go beyond it. Two operators overlap on one source or
work on two, one of which is then no longer the latest Version.

*Browser.* Two Works suffice for an answer about the wrong one, and two gestures for any two of the
handlers to overlap with one request that fails. `MaxWaiting = 2` listeners are those of a switch
during a switch. Three requests with two failures in a row separate the two ways a wait is lost. A
correction's cases are told apart by where notes lie against the span: within, across its border and
outside; one long note and one added inside it give all three, and two saves give a second
correction of the same and of another span.

`MaxBeats`, `MaxMoves`, `MaxSaves`, `MaxGestures`, `MaxFailures`, `MaxWaiting`, `MaxFaults`, `Token`
and the sets of processes bound what the environment does; `MaxRetries` (Jobs), `Slots`, `ScanLimit`,
`MaxAttempts` and `JobTracking!MaxFailures` are the code's own limits, at small values.

Deadlock is not checked: in every module the system rests when everything asked for is done or the
bounds are used up.

**Fairness.**

* *Delivery* (`JobDeliveryProps!Fairness`): weak fairness of each thread's next step, because a
  thread of the executor is scheduled and its HTTP calls return or raise; of leaving the handler,
  because handlers are finite computations, which the code relies on but does not enforce; of a
  hidden message that no live holder keeps hidden becoming visible, which is what `vt` is; of a
  receive for each visible message and of receives that only pass messages over, because each process
  polls and `pgmq.read` goes by message id. Crashes and failed calls are bounded by `MaxFaults`: a Job
  that kills its worker each time is redelivered without end, which is a property of the code, not
  of the model. Receives range over all workers: at least one of the two is up.
* *Re-home*: a run goes on (weak), and each source is selected with `--apply` again and again
  (strong): convergence is promised to an operator who repeats the run, since the tool runs by hand.
* *Session*: weak fairness of `Step`: effects and timers run, requests are answered, requests about a
  Work that is gone fail, Jobs end. Nothing is owed by the user or by failures.
* *Job tracking*: weak fairness of the query's next step; the Job itself need not end.
* *Corrections*: weak fairness of loads, of the coordinator and of the worker, each on its own. The
  player has no fairness: its steps are the user's or the browser's.

**Types.** Every module of a component has a `TypeOK`. They are theorems (section 6), checked on the
instances above before they were proved, and not repeated in the runs. `JobLifecycle` states none: it
is what the others implement, and `CorrectionNotes` has no state.

## 4. Findings

1. `understand_redelivery`: the clean-up of partial outputs runs only when `retry_count > 0` or for a
   user's retry. An execution that starts because its predecessor's process died has neither, so the
   predecessor's Versions stay beside the complete set. The docstring
   (`backend/domain/capabilities.py:302`) says "Remove incomplete output graphs before retrying a
   composite workflow."
2. `understand_chain`: a retry clears only the Job it directly retries. If that one was cancelled
   before its own clean-up, the outputs of the Job before it are never removed, against the same
   docstring.
3. `correction_told`: the coordinator's guard against sending an action twice is a ref of the mounted
   component. A saved correction makes a load that takes the roll, and the coordinator, away; the one
   that comes back finds the action in the store and sends it again. The unique `cache_key` refuses
   it, so nothing is saved twice (`OneJobPerSave` rests on that index alone), but "Couldn’t save
   correction" replaces the message of success, an empty Workflow stays behind, and the same happens
   at each later switch of the roll's source
   (`components/workspace/PianoRollCorrectionCoordinator.tsx:22-29`).

## 5. Observations

Behaviour that the models show and no run states as violated, because no document promises otherwise
in words a run could check, or because a property names it as its exception.

*Routes.* The `cache_key` of a correction leaves out the corrected notes
(`api/workflows_jobs.py:423`): a second, different correction of one span of one Version is refused
by the index, after its Workflow was committed, although ADR-003 says "every transformation,
correction, or generation creates a new version" (`docs/adr/ADR-003.md:13`). `NoOrphanWorkflows` has
it as its exception.

*Uploads.* Two finalizations of one pending object may both publish it; when one of them fails or its
Work is deleted, its compensation takes the other's bytes (exception of `VersionsKeepBytes`). A Work or
Artifact whose creation committed without a reply is not taken back (exception of
`FailedUploadsLeaveNothing`).

*Re-home.* Bytes that are not the source's, left under the derived key by an upload that raised
half-way, stop every later run; the comment at `storage_locator_rehome.py:150` calls the destination
"safe to leave for a later retry/GC".

A fence that looks at rows knows nothing of a Version that is built and not yet inserted: built before a
copy and inserted after its publication, it sorts behind the copy by `created_at` (`models.py:73`), and
`get_latest` answers with the bytes of the older source. The publication keeps the `created_at` it is
given (`20260903195100_storage_rehome_publish_fence.sql:130`). The tool's own check speaks of a source
that "is not latest and would resurrect historical state" (`storage_locator_rehome.py:329`).

*Session.*
* The answer that starts or retries a Job sets `activeJobId` even when the user has opened another
  Work meanwhile (`WorkspaceSession.tsx:749`, `:787`, `:816`), and the Cancel of the notice then
  cancels the other Work's Job. `loadWork` guards against exactly this kind of late completion
  (`:115`), the handlers do not.
* An import that races a deletion may close the Work just imported; a failed deletion calls
  `setActiveWorkId` (`LibraryPanel.tsx:197`) for a user who has moved on; its `onError` restores the
  list as the deletion found it, without what was added since.
* A deleted Work stays open, shown as finished, when the list could not be read and a load of it settles
  later (exception of `EndsAreNoticed`).
* `retryJob` clears the cache before its request only (`api-client.ts:616`), and
  `mutateVersionWorks` advances nothing of a Version whose Work it does not know, though its comment
  promises a second advance after the commit (`api-client.ts:374-377`). The refresh of an active Job
  makes up for both.

*Player.* A second switch, a seek or a pause while a source is loading is lost or overridden by the
once-listeners of the first (`transport.tsx:121`, `:182`), beyond the single switch that
`tests/components/TransportStore.test.tsx:181` tries; `SwitchesKeepThePlace` is about unhurried ones.
`replaceSources` takes the place from `positionRef` (`:161`), which the listener of a switch does not
set: a refresh that loses the active source after the listener ran, and before the next "timeupdate",
starts the next source at the 0 of the load; one during a loop's jump back goes on at the loop's end.

*Job tracking.* A watcher may be told "timeout" because the budget of another watcher of the same Job
was spent (`LossIsEarned` says "of someone who waited").

*Corrections.*
* The corrected Version is listed as "Corrected transcription" as soon as it is published: a Job that
  is still at work, failed or was executed again leaves it with some or none of its notes. The
  comment at `correction_entity_sync.py:56` is about unreadable files only.
* A correction drafted on such a partial roll, or on one of more notes than a page holds, removes the
  notes its author did not see: hence the `whole` of `SavedIsTheDraft`.
* Removing all notes leaves a Version without a roll, and with it no place to choose another source
  (exception of `SavesSettle`).
* More than 500 notes are several inserts (`EntityRepo.create_many`); the model has one. Nothing
  between them is seen by the properties but a roll read in the middle, which the `whole` of a draft
  covers, and an execution that ends there, which is a `Restart` or a `Stop`.
* While a Job adds notes, the refresh invalidates the entities of the default MIDI Version only
  (`api-client.ts:446`), so that a partial answer for another Version may be kept.
* Notes of one pitch that overlap are cut short by the round trip through MIDI (`Encoded`); corrected
  notes go to the first instrument; a `correct` Job counts as the Work's latest Job; "Edit
  transcription" sets the operation to idle although a save may be running.

## 6. Proofs

All from the named assumptions on the constants (null values are not members of the sets they stand
beside; bounds are natural numbers), for any number of Jobs, workers, tokens, requests, operators,
Works, gestures, sources, watchers, notes and faults.

`LoadsAreServed` and `NobodyAsksInVain` held on the instances of the runs `session` and `browser`
before they were proved, and like the `TypeOK`s are no longer repeated there.

| Theorem | Property | Argument |
| --- | --- | --- |
| `TypeCorrect` | `JobDelivery!TypeOK` | inductive by itself |
| `NoJobIsLost` | `NoLostJob` | a message is archived only by a receive or finish that finds the row terminal or gone, and such rows do not come back |
| `RetriesFollowFailure` | | `RetryChain`: a retried Job failed or was cancelled, stays so, and is deleted with its retry |
| `FinishedIsFinal` | `FinishedStaysFinished` | from types and `RetryChain`: every update's filter names an active stage |
| `AttemptsKeepTheirIdentity` | `OwnIdentity` | inductive: a receive passes over what is in flight, so the map entry of a live thread is its own |
| `VersionsBelongToExecution` | `VersionsOfTheirExecution` | the fence admits the token of the row, identity makes it the thread's own |
| `StaleAttemptsAreInert` | `StaleAttemptIsInert` | each step of a thread, publications and deletions of Versions included, changes shared state only under its own token |
| `SuccessIsTheLastHolders` | `SucceededByLastHolder` | success is written under the row's token, and no token is granted for a succeeded Job |
| `HoldersAreGranted`, `RetryDecisionsHold` | | the strengthening that counting needs |
| `RetriesAreCountedRight` | `RetriesAreCounted` | the count in the holder's row equals the row's as long as it holds it |
| `DeliveryImplementsLifecycle` | `ImplementsLifecycle` | step by step, using all of the above |
| `WorkersAreSoleHolders` | | without faults, whoever works on a Job holds its row, and its message is hidden while the row is unfinished |
| `OverlapsNeedAFault` | `OverlapNeedsFault` | two executions that both hold the row are one |
| `HandlerTypesCorrect` | `UnderstandOutputs!TypeOK` | inductive by itself |
| `PublishedVersionsHaveBytes` | `VersionsHaveBytes` | inductive by itself: bytes come first and are never removed |
| `OwnershipHolds` | | rows and leftovers are of the Job their execution works on; a retried Job is over |
| `RetriesStartOnACleanSlate` | `RetriesStartClean` | `NothingNewToClear`: between a holder's read and its deletion nobody adds a row it would have to clear |
| `SuccessIsComplete` | `SucceededIsComplete` | `StoredIsThere`: what a holder has counted is there; every deletion is for other Jobs |
| `HandlerImplementsLifecycle` | `UnderstandOutputs!ImplementsLifecycle` | the deletion is one `Withdraw`, by `NothingNewToClear` |
| `CreationTypesCorrect` | `WorkflowCreation!TypeOK` | with `Formed`: what a request is about is known as far as its state needs it |
| `IdempotentRoutesReachTheirJob` | `IdempotentRoutesSucceed` | `Reached`: a request that met a conflict finds the rows of its own key |
| `AnswersAreAboutOneJob` | `AnswersAgree` | `Grounded`, `Answered`: Jobs come after their Workflow, and an answer is the Job the key stands for |
| `WorkflowsGetTheirJob` | `NoOrphanWorkflows` | between the two inserts the request that made the first is still there |
| `RetriesAreOfEndedJobs` | `RetriesAreEarned` | `Retriable`, `EarnedIn`: ended Jobs stay ended, so what was looked at before the insert still holds |
| `RehomeTypesCorrect` | `StorageRehome!TypeOK` | inductive by itself |
| `PublishedCopiesHaveBytes` | `CopiesHaveBytes` | `BytesAreKnown`: a run about to publish has verified its copy, one about to take it back has found it corrupt, and only one run at a time made it |
| `CopiesComeFromTheLatest` | `CopiesAreOfTheLatest` | the publication checks the latest Version in its own transaction, rows only go with all others, and each goes in at the end of `chain` |
| `ReportsHold` | `ReportsAreTrue` | what is found published or published stays so until the Work goes |
| `UploadTypesCorrect` | `Uploads!TypeOK` | inductive by itself |
| `FailedUploadsAreUndone` | `FailedUploadsLeaveNothing` | `FormInv`: in each state of a compensation, what is still there is what later states undo |
| `StoredVersionsKeepBytes` | `VersionsKeepBytes` | with keys (`KeyInv`), calm (`CalmInv`), rows, snapshots and the faults paid for so far (`PaidInv`): each removal of bytes is of a key whose Version is gone or being taken back |
| `OrphansArePublishedLate` | `OrphansWereUnseen` | `OrphanInv` (`Linked`, `JobRow`, `KeyKnown`, `Read`, `Traced`): a Version is followed from its publication through the three reads to the removal of its bytes |
| `ReplacementMakesTheDraft` | | applying the span and notes of a draft to its file gives the notes of the draft: a note outside the span was not changed, a note within it is sent |
| `CorrectionTypesCorrect` | `Corrections!TypeOK` | with the rest of the invariant: a correction's source is a Version there is |
| `SavedCorrectionsAreTheirDrafts` | `SavedIsTheDraft` | `Sound`: every correction under way carries a replacement whose effect on its source is its draft; files never change |
| `SucceededCorrectionsAreWhole` | `SucceededIsWhole` | `Filled`: an execution in its last state has filled its own Version, and Versions of two Jobs differ |
| `CorrectionsMakeOneJob` | `OneJobPerSave` | `Numbered`: two corrections known anywhere under one id are the same, so that the unique index refuses the second Job of it |
| `SessionIsFine`, `SessionTypesCorrect` | `WorkspaceSession!TypeOK` | Jobs and what is owed to gestures stay within the gestures made (`BudgetOK`), and nothing in the browser is ahead of the server (`Honest`, `Real`) |
| `ShownIsOfTheOpenWork` | `ContentIsOfActiveWork` | the sources are those of the Work loaded last, which is the open one once the effect has run |
| `NoJobIsMadeUp` | | a Job that a handler or a notice names is in range of what the server has made, and Jobs only become more |
| `LoadsWaitForRequests` | `LoadsAreServed` | a cleared key hands its request to the load that shares it; an answer that goes past a load was for a Work that was left, and coming back makes the effect due |
| `DeletedWorksAreUnlisted` | `DeletedWorksLeave` | `ReadBefore`: a reading that still has a deleted Work was begun before the deletion was served, whose answer has the list read again |
| `NobodyIsLeftRunning` | `RunningIsLookedAfter` | `Strays`: the processed Work is the open one except where a load or the import will say so anew, so that a handler looks at the open Work |
| `MachinesRunAlone` | | no machine of the composition takes a step its own specification does not have |
| `BrowserTypesCorrect` | the `TypeOK` of player and wait | with the invariants below |
| `ShownIsHeard`, `ComparisonsAgree` | `ShownSourceIsHeard`, `CompareIsCoherent` | a Work with sources has an active one, so a comparison begins with a source |
| `PlaceIsKept` | `SwitchesKeepThePlace` | `PlaceOK`: until the element is ready there is one listener, which knows the place and whether to play on; nothing is said of `positionRef`, which a refresh may only trust when it agrees with the element |
| `OnlyEarnedLosses` | `LossIsEarned` | `QueryOK`: the failures of a request were all missed in a row, its owner is known and has asked |
| `RequestsAreWanted` | `NobodyAsksInVain` | `QueryOK`: a request is marked cancelled exactly when nobody waits, and is not repeated then |

`RetriesAreCounted` and the refinement are not inductive alone: that writing `failures + 1` adds one
needs the holder to still own the row (`OwnIdentity`), the row's token to be one granted for this Job
(`HolderIsGranted`), and the decision taken before the backoff to still be right (`RetryDecided`).
In the handler the difficulty is the clean-up, which reads without the fence and deletes under it:
that the two steps amount to one rests on the token (another execution that could add rows to the
Job would have revoked the reader's) and on the retried Job having ended for good (`Ownership`).

In `Uploads_proofs` most steps leave most processes alone: the frame lemmas `Aside` and `Bystander`
say once what a step of another process, or none, cannot disturb, and each action is then proved for
the process that takes it. `Known`, the whole invariant, adds to types and `FormInv` what is known of
keys, rows and snapshots, and how many faults a state has cost: the properties speak of at most one
failed call, and the invariant shows which states are out of reach with it.

In `Corrections_proofs` a correction is *known* where it may still be sent or be executed: in the
store, in the coordinator, among the strays, in a Job. The invariant says of all known corrections
what the properties say of saved ones, so that no matter which coordinator comes and goes, what it
sends was drafted.

In `WorkspaceSession_proofs` the types are the hard part of the first invariant: a Job number stays in
its range because every Job after a Work's first was asked for by a gesture that asked once, which
`BudgetOK` counts over the handlers that still owe their request. `NobodyIsLeftRunning` is the safety
half of `EndsAreNoticed`: there is always somebody who will look, and fairness makes them do it. Its
invariant has to follow `processingWorkId`, since handlers look at the Work it names and not at the
open one; the two differ after an import that finished while the user was elsewhere.

`Browser_proofs` is about the composition as it is checked. The player turns to the
first of the registered sources (`First`, a `CHOOSE`), so that a nonempty set of them has a least
element has to be proved: `LeastExists`, from the library's theorems on well-founded relations.

Only model-checked is liveness (`EveryJobSettles`, `SettledMessagesLeave`, `SlotsComeBack`,
`RerunsConverge`, `EndsAreNoticed`, `EveryWaitSettles`, `SavesSettle`): liveness under fairness and
`ENABLED` are out of the prover's reach, as is induction over data. The three violations are runs by
nature.

## 7. Not modelled

* Audio and notation engines, evaluation, evidence queries and relations, feature extraction and Ask:
  most of the implementation's lines. They keep no state between calls and compute over
  real numbers, spectra, MusicXML or text; what could be stated about them is not about steps, and a
  model would be the program again. The pure algorithms over small data that are left (alignment of
  score and performance, melody and interpretation choice, staffing) compute with real-valued costs
  whose order is the whole content.
* The application shell, proxies, styling, deployment, CI and observability: no logic of their own.
* Input digests: one guarded `UPDATE`.
* Of modelled components: handlers other than `understand` and `correct` (they store one Version each,
  which is `JobDelivery!Publish`), creating and renaming Works and Projects (single statements),
  the report of the locator audit, attaching a score and the evidence panels in the session.

## 8. Plan

Done: the Job core with its refinement, the `understand` handler, creation routes, uploads and
deletion, re-home, and the browser's session, player, waits and corrections, with the theorems above.
Left, in this order:

1. Attaching a score and the evidence panels' Jobs as further handlers of `WorkspaceSession`.
2. The legacy key shapes of `storage_locator_policy.py` as operators over key shapes.
3. Safety halves of the other liveness properties, as `RunningIsLookedAfter` is of `EndsAreNoticed`:
   for deliveries, that every unsettled Job has a message and, hidden, either a holder that is up or
   an expiry that is due; for a saved correction, that its coordinator or its Job is still to answer.
