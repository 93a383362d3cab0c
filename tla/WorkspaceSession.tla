-------------------------- MODULE WorkspaceSession --------------------------
(***************************************************************************)
(* The browser's workspace: which Work is open, what of it is on screen,   *)
(* and the Job the panel talks about (components/workspace/                *)
(* WorkspaceSession.tsx, LibraryPanel.tsx, lib/stores/workspace.tsx), over *)
(* the revisioned cache of Work bundles (lib/api-client.ts).               *)
(*                                                                         *)
(* JavaScript runs to its next await, so a step is what runs between two   *)
(* awaits; what interleaves are the user, the effect that loads the opened *)
(* Work, the answers to requests, the refresh timer and the server's Jobs. *)
(*                                                                         *)
(* The epoch and the revision in a cache key are one thing here: a key is  *)
(* either the current one of its Work or an old one nobody asks for again. *)
(* A load that another load replaced, and whose key is old, changes        *)
(* nothing any more, so only the newest load is kept.                      *)
(***************************************************************************)
EXTENDS Naturals

CONSTANTS Work,        \* Works of the project
          Library,     \* those that exist from the start; the others can be imported
          None,        \* no Work
          MaxGestures, \* bound on what the user does
          MaxFailures  \* bound on the requests that fail of themselves

ASSUME SessionAssumption ==
  /\ Library \subseteq Work /\ None \notin Work
  /\ MaxGestures \in Nat /\ MaxFailures \in Nat

VARIABLES
  server,   \* Work -> its newest Job: number (0: no Job) and stage
  life,     \* Work -> "unborn", "saved" or "gone"
  rows,     \* the cached list of Works
  previous, \* the list as a deletion found it
  listing,  \* the request that reads it anew
  active,   \* activeWorkId, and activeWorkIdRef once rendered
  due,      \* the effect that loads the active Work has not run yet
  loaded,   \* loadedWorkRef
  load,     \* the newest loadWork
  timer,    \* the Work the refresh timer will load again, None if it is not set
  entry,    \* Work -> the cache entry under its current key
  owned,    \* Work -> whether its Versions have an owner in the current epoch
  content,  \* the Work whose representations are shown
  sound,    \* the Work whose sources the transport has
  panel,    \* activeJobId, processingWorkId, pendingSourceVersionId, stage
  op,       \* the asynchronous handlers
  events    \* what the user did and what failed so far

vars == <<server, life, rows, previous, listing, active, due, loaded, load, timer, entry, owned, content,
          sound, panel, op, events>>

\* Every Job after the first is asked for by a gesture.
MaxAttempts == MaxGestures + 1

JobStage == {"none", "active", "succeeded", "failed", "cancelled"}
Snapshot == [n : 0..MaxAttempts, stage : JobStage]
JobId    == [work : Work \cup {None}, n : 0..MaxAttempts]
Kind     == {"import", "start", "retry", "cancel", "score", "studio", "delete"}

Unread == [n |-> 0, stage |-> "none"]
NoJob  == [work |-> None, n |-> 0]

\* A request for a bundle: not sent, sent, read by the server, answered.
Fetch  == [at : {"absent", "asked", "read", "have"}, seen : Snapshot]
Absent == [at |-> "absent", seen |-> Unread]
Asked  == [at |-> "asked", seen |-> Unread]

NoLoad == [work |-> None, keep |-> FALSE, at |-> "none", own |-> Absent, seen |-> Unread]
Still  == [at |-> "idle", seen |-> {}]
NoOp   == [at |-> "idle", job |-> NoJob, work |-> None]

TypeOK ==
  /\ server \in [Work -> Snapshot]
  /\ life \in [Work -> {"unborn", "saved", "gone"}]
  /\ rows \in SUBSET Work
  /\ previous \in SUBSET Work
  /\ listing \in [at : {"idle", "asked", "read", "failed"}, seen : SUBSET Work]
  /\ active \in Work \cup {None}
  /\ due \in BOOLEAN
  /\ loaded \in Work \cup {None}
  /\ load \in [work : Work \cup {None}, keep : BOOLEAN,
               at : {"none", "bundle", "children"}, own : Fetch, seen : Snapshot]
  /\ timer \in Work \cup {None}
  /\ entry \in [Work -> Fetch]
  /\ owned \in [Work -> BOOLEAN]
  /\ content \in Work \cup {None}
  /\ sound \in Work \cup {None}
  /\ panel \in [job : JobId, processing : Work \cup {None}, pending : Work \cup {None},
                stage : {"idle", "uploading", "processing", "success", "error", "disconnected"}]
  /\ op \in [Kind -> [at : {"idle", "upload", "saved", "listed", "post", "reply",
                            "refused", "wait", "settling", "failing"},
                      job : JobId, work : Work \cup {None}]]
  /\ events \in [done : 0..MaxGestures, failed : 0..MaxFailures]

\* A Work from before has no Job, or Jobs the newest of which is in some stage; one
\* that was cancelled is to the workspace like one that succeeded.
Init ==
  /\ server \in {s \in [Work -> {x \in Snapshot : x.n < 2 /\ x.stage # "cancelled" /\ (x.n = 0 <=> x.stage = "none")}] :
                   \A w \in Work \ Library : s[w] = Unread}
  /\ life = [w \in Work |-> IF w \in Library THEN "saved" ELSE "unborn"]
  /\ rows = Library
  /\ previous = {}
  /\ listing = Still
  /\ active \in Library
  /\ due = TRUE
  /\ loaded = None
  /\ load = NoLoad
  /\ timer = None
  /\ entry = [w \in Work |-> Absent]
  /\ owned = [w \in Work |-> FALSE]
  /\ content = None
  /\ sound = None
  /\ panel = [job |-> NoJob, processing |-> None, pending |-> None, stage |-> "idle"]
  /\ op = [k \in Kind |-> NoOp]
  /\ events = [done |-> 0, failed |-> 0]

view == <<active, due, loaded, timer, content, sound>>
list == <<rows, previous, listing>>

Saved == {w \in Work : life[w] = "saved"}

\* The open Work is not in the list, and the list could be read.
Unlisted == active \notin rows \cup {None} /\ listing.at # "failed"

\* React flushes the effects of a render before it handles the next event.
Gesture == ~due /\ ~Unlisted /\ events.done < MaxGestures
           /\ events' = [events EXCEPT !.done = @ + 1]
Event   == events.failed < MaxFailures /\ events' = [events EXCEPT !.failed = @ + 1]

\* A request fails for a reason of its own, or for one the server has.
FailOr(reason) == IF reason THEN UNCHANGED events ELSE Event

(* The cache of Work bundles *)

\* Once its key is old, a request under way answers only those who wait for it.
Cleared(gone) == [w \in Work |-> IF w \in gone THEN Absent ELSE entry[w]]
Shares(w)     == load.at = "bundle" /\ load.work = w /\ load.own.at = "absent"

Detached(gone) ==
  IF \E w \in gone : Shares(w) THEN [load EXCEPT !.own = entry[load.work]] ELSE load

Invalidate(gone) == entry' = Cleared(gone) /\ load' = Detached(gone)

\* clearWorkDataCache
ClearCache == Invalidate(Work) /\ owned' = [w \in Work |-> FALSE]

\* invalidateVersionWorks: the Work of a Version is looked up in the current epoch.
Owners(w) == IF owned[w] THEN {w} ELSE {}

\* fetchQuery
Request(cache, w) == [cache EXCEPT ![w] = IF @.at = "absent" THEN Asked ELSE @]

(* loadWork *)

\* Mutant of Current: only the order of the loads counts.
CurrentBySequence == load.at # "none"

\* isCurrentLoad
Current == load.at # "none" /\ active = load.work

\* The head of loadWork(w), called after the keys of gone were advanced and
\* the panel was set to shown; it returns at once if another Work is open.
LoadWork(w, gone, shown) ==
  IF active # w \/ w = None
  THEN /\ Invalidate(gone)
       /\ panel' = shown
       /\ UNCHANGED <<loaded, timer, content, sound>>
  ELSE LET keep == loaded = w
       IN  /\ entry' = Request(Cleared(gone), w)
           /\ load' = [NoLoad EXCEPT !.work = w, !.keep = keep, !.at = "bundle"]
           /\ loaded' = w
           /\ timer' = None
           /\ panel' = IF keep THEN shown
                       ELSE [shown EXCEPT !.job = NoJob, !.processing = None, !.pending = None]
           /\ content' = IF keep THEN content ELSE None
           /\ sound' = IF keep THEN sound ELSE None

\* setActiveWorkId
Activate(w) ==
  /\ active' = w
  /\ due' = (due \/ active # w)
  /\ content' = IF active = w THEN content ELSE None

\* The effect on activeWorkId and on the selections loadWork depends on.
Effect ==
  /\ due /\ due' = FALSE
  /\ LoadWork(active, {}, panel)
  /\ UNCHANGED <<server, life, list, active, owned, op, events>>

\* What a bundle shows before its children are read.
ShowBundle(seen) ==
  LET w == load.work
  IN  /\ load' = [load EXCEPT !.at = "children", !.own = Absent, !.seen = seen]
      /\ content' = w
      /\ sound' = w
      /\ panel' = IF seen.stage = "active"
                  THEN [job |-> [work |-> w, n |-> seen.n], processing |-> w,
                        pending |-> None, stage |-> "processing"]
                  ELSE panel

\* The end of loadWork, when entities, insights and score have settled.
Settle ==
  LET w == load.work  s == load.seen
  IN  /\ Current /\ load.at = "children"
      /\ load' = NoLoad
      /\ timer' = IF s.stage = "active" THEN w ELSE timer
      /\ panel' = CASE s.stage = "active" -> panel
                    [] s.stage = "failed" ->
                         [panel EXCEPT !.job = [work |-> w, n |-> s.n],
                                       !.processing = w, !.stage = "error"]
                    [] s.stage = "none" ->
                         [job |-> NoJob, processing |-> w, pending |-> w, stage |-> "success"]
                    [] OTHER ->
                         [job |-> NoJob, processing |-> None, pending |-> None,
                          stage |-> "success"]
      /\ UNCHANGED <<server, life, list, active, due, loaded, entry, owned, content, sound,
                     op, events>>

\* Mutant of Catch: a refresh that fails says nothing.
CatchQuietly == load' = NoLoad /\ UNCHANGED panel

\* The catch of loadWork.
Catch ==
  /\ load' = NoLoad
  /\ panel' = IF load.keep
              THEN [panel EXCEPT !.processing = load.work, !.stage = "disconnected"]
              ELSE [panel EXCEPT !.stage = "error"]

(* Requests for bundles *)

ServerReads(w) ==
  /\ entry[w].at = "asked" /\ w \in Saved
  /\ entry' = [entry EXCEPT ![w] = [at |-> "read", seen |-> server[w]]]
  /\ UNCHANGED <<server, life, list, view, load, owned, panel, op, events>>

ServerReadsOld ==
  /\ load.own.at = "asked" /\ load.work \in Saved
  /\ load' = [load EXCEPT !.own = [at |-> "read", seen |-> server[load.work]]]
  /\ UNCHANGED <<server, life, list, view, entry, owned, panel, op, events>>

\* Mutant of Advance: the bundle of an active Job is kept like any other.
AdvanceNever(s) == [at |-> "have", seen |-> s]

\* getWorkBundle indexes the bundle and, if a Job is active, moves to a new key.
Advance(s) == IF s.stage = "active" THEN Absent ELSE [at |-> "have", seen |-> s]
Answer(w) ==
  /\ entry[w].at = "read"
  /\ entry' = [entry EXCEPT ![w] = Advance(entry[w].seen)]
  /\ owned' = [owned EXCEPT ![w] = TRUE]
  /\ IF Shares(w) /\ Current THEN ShowBundle(entry[w].seen)
     ELSE UNCHANGED <<content, sound, load, panel>>
  /\ UNCHANGED <<server, life, list, active, due, loaded, timer, op, events>>

\* An answer under an old key is shown, and leaves the cache alone.
AnswerOld ==
  /\ load.own.at \in {"read", "have"} /\ Current
  /\ ShowBundle(load.own.seen)
  /\ UNCHANGED <<server, life, list, active, due, loaded, timer, entry, owned, op, events>>

AnswerCached ==
  /\ Current /\ Shares(load.work) /\ entry[load.work].at = "have"
  /\ ShowBundle(entry[load.work].seen)
  /\ UNCHANGED <<server, life, list, active, due, loaded, timer, entry, owned, op, events>>

AnswerFails(w) ==
  /\ entry[w].at \in {"asked", "read"} /\ FailOr(w \notin Saved)
  /\ entry' = [entry EXCEPT ![w] = Absent]
  /\ IF Shares(w) /\ Current THEN Catch
     ELSE load' = (IF Shares(w) THEN NoLoad ELSE load) /\ UNCHANGED panel
  /\ UNCHANGED <<server, life, list, view, owned, op>>

AnswerOldFails ==
  /\ load.own.at \in {"asked", "read"} /\ FailOr(load.work \notin Saved)
  /\ IF Current THEN Catch ELSE load' = NoLoad /\ UNCHANGED panel
  /\ UNCHANGED <<server, life, list, view, entry, owned, op>>

\* The refresh timer, PROCESSING_REFRESH_MS after a load that saw an active Job.
Refresh ==
  /\ timer # None
  /\ IF active = timer /\ loaded = timer
     THEN LoadWork(timer, {}, panel)
     ELSE timer' = None /\ UNCHANGED <<loaded, load, entry, content, sound, panel>>
  /\ UNCHANGED <<server, life, list, active, due, owned, op, events>>

\* Jobs are cancelled by this session only.
JobEnds(w) ==
  /\ server[w].stage = "active" /\ w \in Saved
  /\ \E s \in {"succeeded", "failed"} :
       server' = [server EXCEPT ![w].stage = s]
  /\ UNCHANGED <<life, list, view, load, entry, owned, panel, op, events>>

(* The user *)

\* LibraryPanel's onOpen of a row that is not selected.
Open(w) ==
  /\ Gesture /\ w \in rows \ {active}
  /\ sound' = None
  /\ Activate(w)
  /\ UNCHANGED <<server, life, list, loaded, load, timer, entry, owned, panel, op>>

\* Another score source, score engine or Piano Roll source: loadWork is a new function.
Reselect ==
  /\ Gesture /\ active # None
  /\ due' = TRUE
  /\ UNCHANGED <<server, life, list, active, loaded, load, timer, entry, owned, content, sound,
                 panel, op>>

\* LibraryPanel's onPrefetch.
Prefetch(w) ==
  /\ Gesture /\ w \in rows
  /\ entry' = Request(entry, w)
  /\ UNCHANGED <<server, life, list, view, load, owned, panel, op>>

\* An evidence panel reads the open Work anew.
PanelRefresh ==
  /\ Gesture /\ active # None
  /\ entry' = Request(Cleared(Work), active)
  /\ load' = Detached(Work)
  /\ owned' = [w \in Work |-> FALSE]
  /\ UNCHANGED <<server, life, list, view, panel, op>>

Begin(k, state, job, w) == op' = [op EXCEPT ![k] = [at |-> state, job |-> job, work |-> w]]
Goto(k, state)          == op' = [op EXCEPT ![k].at = state]
Done(k)                 == op' = [op EXCEPT ![k] = NoOp]

(* The list of Works *)

\* Who waited for a reading of the list goes on when it ends, fails, is
\* cancelled or is replaced: invalidateQueries does not reject.
Listed(ops) ==
  [k \in Kind |-> CASE ops[k].at = "saved" -> [ops[k] EXCEPT !.at = "listed"]
                    [] ops[k].at = "settling" -> NoOp
                    [] OTHER -> ops[k]]

ReadList ==
  /\ listing.at = "asked"
  /\ listing' = [at |-> "read", seen |-> Saved]
  /\ UNCHANGED <<server, life, rows, previous, view, load, entry, owned, panel, op, events>>

ListAnswers ==
  /\ listing.at = "read"
  /\ rows' = listing.seen
  /\ listing' = Still
  /\ op' = Listed(op)
  /\ UNCHANGED <<server, life, previous, view, load, entry, owned, panel, events>>

\* The list stays as it was, and the effect on it shows that it could not be read.
ListFails ==
  /\ listing.at \in {"asked", "read"} /\ Event
  /\ listing' = [Still EXCEPT !.at = "failed"]
  /\ op' = Listed(op)
  /\ panel' = [panel EXCEPT !.stage = "error"]
  /\ UNCHANGED <<server, life, rows, previous, view, load, entry, owned>>

\* The effect on the list: the open Work is not in it, so the first one is opened.
LeaveUnlisted ==
  /\ Unlisted
  /\ \E w \in IF rows = {} THEN {None} ELSE rows : Activate(w)
  /\ timer' = IF rows = {} THEN None ELSE timer
  /\ UNCHANGED <<server, life, list, loaded, load, entry, owned, sound, panel, op,
                 events>>

(* The handlers, up to their first request *)

\* handleFile
Import(w) ==
  /\ Gesture /\ op["import"].at = "idle" /\ life[w] = "unborn"
  /\ panel' = [job |-> NoJob, processing |-> None, pending |-> None, stage |-> "uploading"]
  /\ Begin("import", "upload", NoJob, w)
  /\ UNCHANGED <<server, life, list, view, load, entry, owned>>

Uploaded ==
  LET w == op["import"].work
  IN  /\ op["import"].at = "upload"
      /\ life' = [life EXCEPT ![w] = "saved"]
      /\ Invalidate({w})
      /\ owned' = [owned EXCEPT ![w] = TRUE]
      /\ panel' = [panel EXCEPT !.pending = w, !.processing = w]
      /\ listing' = [Still EXCEPT !.at = "asked"]
      /\ op' = [Listed(op) EXCEPT !["import"].at = "saved"]
      /\ UNCHANGED <<server, rows, previous, view, events>>

UploadFails ==
  /\ op["import"].at = "upload" /\ Event
  /\ panel' = [panel EXCEPT !.pending = None, !.processing = None, !.stage = "error"]
  /\ Done("import")
  /\ UNCHANGED <<server, life, list, view, load, entry, owned>>

Enter ==
  LET w == op["import"].work
  IN  /\ op["import"].at = "listed"
      /\ Activate(w)
      /\ panel' = [panel EXCEPT !.stage = "processing"]
      /\ Invalidate(Owners(w))
      /\ Begin("import", "post", [work |-> w, n |-> 0], w)
      /\ UNCHANGED <<server, life, list, loaded, timer, owned, sound, events>>

\* handleDelete, and onMutate of the mutation: a reading of the list under way
\* is cancelled and the row goes at once.
Delete(w) ==
  /\ Gesture /\ op["delete"].at = "idle" /\ w \in rows
  /\ listing' = Still
  /\ rows' = rows \ {w}
  /\ previous' = rows
  /\ op' = [Listed(op) EXCEPT !["delete"] =
              [at |-> "post", job |-> [NoJob EXCEPT !.work = w], work |-> active]]
  /\ IF active = w
     THEN /\ sound' = None
          /\ \E next \in IF rows = {w} THEN {None} ELSE rows \ {w} : Activate(next)
          /\ timer' = IF rows = {w} THEN None ELSE timer
     ELSE UNCHANGED <<active, due, content, sound, timer>>
  /\ UNCHANGED <<server, life, loaded, load, entry, owned, panel>>

\* processingWorkId ?? activeWorkId
Subject == IF panel.processing # None THEN panel.processing ELSE active

StartPending ==
  /\ Gesture /\ op["start"].at = "idle"
  /\ panel.stage = "error" /\ panel.job = NoJob /\ panel.pending # None /\ Subject # None
  /\ panel' = [panel EXCEPT !.stage = "processing"]
  /\ Invalidate(Owners(panel.pending))
  /\ Begin("start", "post", [work |-> panel.pending, n |-> 0], Subject)
  /\ UNCHANGED <<server, life, list, view, owned>>

RetryJob ==
  /\ Gesture /\ op["retry"].at = "idle"
  /\ panel.stage = "error" /\ panel.job # NoJob /\ Subject # None
  /\ panel' = [panel EXCEPT !.stage = "processing"]
  /\ ClearCache
  /\ Begin("retry", "post", panel.job, Subject)
  /\ UNCHANGED <<server, life, list, view>>

\* Offered by the notice beside the content of the Work that is processed.
CancelJob ==
  /\ Gesture /\ op["cancel"].at = "idle"
  /\ panel.stage = "processing" /\ panel.job # NoJob
  /\ panel.processing = active /\ content # None
  /\ Begin("cancel", "post", panel.job, Subject)
  /\ UNCHANGED <<server, life, list, view, load, entry, owned, panel>>

\* The score-engine effect and the studio effect, of a Work that was understood.
Rebuild(k) ==
  /\ Gesture /\ op[k].at = "idle" /\ k \in {"score", "studio"}
  /\ active # None /\ content = active /\ server[active].stage = "succeeded"
  /\ panel' = IF k = "score" THEN [panel EXCEPT !.processing = active, !.stage = "processing"]
              ELSE panel
  /\ Invalidate(Owners(active))
  /\ Begin(k, "post", [work |-> active, n |-> 0], active)
  /\ UNCHANGED <<server, life, list, view, owned>>

(* The requests of the handlers, at the server *)

\* What POST k makes of the newest Job s of the Work of job j; understand
\* answers an existing Job, a retry an existing retry.
Made(k, j, s) ==
  CASE k \in {"import", "start"} -> IF s.n = 0 THEN [n |-> 1, stage |-> "active"] ELSE s
    [] k = "retry" /\ s.n = j.n /\ s.stage \in {"failed", "cancelled"} ->
         [n |-> s.n + 1, stage |-> "active"]
    [] k \in {"score", "studio"} -> [n |-> s.n + 1, stage |-> "active"]
    [] OTHER -> s
Refuses(k, j, s) ==
  \/ life[j.work] = "gone"
  \/ k = "retry" /\ s.n = j.n /\ s.stage \in {"active", "succeeded"}
Named(k, j, made) == CASE k = "retry" -> [j EXCEPT !.n = j.n + 1]
                       [] k = "cancel" -> j
                       [] OTHER -> [j EXCEPT !.n = made.n]

Serve(k) ==
  LET j == op[k].job  s == server[j.work]
  IN  /\ op[k].at = "post" /\ k # "delete"
      /\ IF Refuses(k, j, s)
         THEN Goto(k, "refused") /\ UNCHANGED server
         ELSE \E made \in {Made(k, j, s)} \cup
                          (IF k = "cancel" /\ s.n = j.n /\ s.stage = "active"
                           THEN {[s EXCEPT !.stage = "cancelled"]} ELSE {}) :
                /\ server' = [server EXCEPT ![j.work] = made]
                /\ op' = [op EXCEPT ![k].at = "reply", ![k].job = Named(k, j, made)]
      /\ UNCHANGED <<life, list, view, load, entry, owned, panel, events>>

(* The handlers, from their request's answer on *)

StartReplies(k) ==
  /\ k \in {"import", "start"} /\ op[k].at = "reply"
  /\ LoadWork(op[k].work, Owners(op[k].job.work),
              [panel EXCEPT !.job = op[k].job, !.pending = None])
  /\ Done(k)
  /\ UNCHANGED <<server, life, list, active, due, owned, events>>

RetryReplies ==
  /\ op["retry"].at = "reply"
  /\ LoadWork(op["retry"].work, {}, [panel EXCEPT !.job = op["retry"].job])
  /\ Done("retry")
  /\ UNCHANGED <<server, life, list, active, due, owned, events>>

CancelReplies ==
  /\ op["cancel"].at = "reply"
  /\ LoadWork(op["cancel"].work, Work, panel)
  /\ owned' = [w \in Work |-> FALSE]
  /\ Done("cancel")
  /\ UNCHANGED <<server, life, list, active, due, events>>

\* isCurrentScoreWork and isCurrentStudioWork: nothing is done for a Work that was left.
RebuildReplies(k) ==
  /\ k \in {"score", "studio"} /\ op[k].at = "reply"
  /\ Invalidate(Owners(op[k].work))
  /\ IF active = op[k].work
     THEN /\ Goto(k, "wait")
          /\ panel' = IF k = "score" THEN [panel EXCEPT !.job = op[k].job] ELSE panel
     ELSE Done(k) /\ UNCHANGED panel
  /\ UNCHANGED <<server, life, list, view, owned, events>>

\* waitForJob has resolved.
Rebuilt(k) ==
  LET j == op[k].job
  IN  /\ op[k].at = "wait" /\ server[j.work] = [n |-> j.n, stage |-> "succeeded"]
      /\ LoadWork(op[k].work, {}, panel)
      /\ Done(k)
      /\ UNCHANGED <<server, life, list, active, due, owned, events>>

\* waitForJob has rejected: the Job failed or was cancelled, or lost is TRUE:
\* it could not be observed.
RebuildFails(k, lost) ==
  LET j == op[k].job
      shown == [panel EXCEPT !.job = NoJob, !.stage = IF lost THEN "disconnected" ELSE "error"]
  IN  /\ op[k].at = "wait"
      /\ IF lost THEN FailOr(life[j.work] = "gone")
         ELSE /\ server[j.work].n > j.n \/ server[j.work].stage \in {"failed", "cancelled"}
              /\ UNCHANGED events
      /\ panel' = IF k = "score" /\ active = op[k].work THEN shown ELSE panel
      /\ Done(k)
      /\ UNCHANGED <<server, life, list, view, load, entry, owned>>

\* The catch of each handler, for a request that failed before or after it was served.
HandlerFails(k) ==
  /\ k # "delete"
  /\ \/ op[k].at \in {"post", "reply"} /\ Event
     \/ op[k].at = "refused" /\ UNCHANGED events
  /\ panel' = CASE k = "import" ->
                     [panel EXCEPT !.job = NoJob, !.pending = op[k].work, !.stage = "error"]
                [] k = "score" /\ active = op[k].work ->
                     [panel EXCEPT !.job = NoJob, !.stage = "error"]
                [] k \in {"score", "studio"} /\ (k = "studio" \/ active # op[k].work) -> panel
                [] OTHER -> [panel EXCEPT !.stage = "error"]
  /\ Done(k)
  /\ UNCHANGED <<server, life, list, view, load, entry, owned>>

\* DELETE, and the success path of the mutation: deleteWork's own invalidation
\* and onSettled.
ServeDelete ==
  LET w == op["delete"].job.work
  IN  /\ op["delete"].at = "post"
      /\ life' = [life EXCEPT ![w] = "gone"]
      /\ Goto("delete", "reply")
      /\ UNCHANGED <<server, list, view, load, entry, owned, panel, events>>

\* Mutant of DeleteReplies: the row is gone already, so the list is not read again.
DeleteRepliesOnly ==
  /\ op["delete"].at = "reply"
  /\ Invalidate({op["delete"].job.work})
  /\ op' = [op EXCEPT !["delete"] = NoOp]
  /\ previous' = {}
  /\ UNCHANGED <<server, life, rows, listing, view, owned, panel, events>>

DeleteReplies ==
  /\ op["delete"].at = "reply"
  /\ Invalidate({op["delete"].job.work})
  /\ listing' = [Still EXCEPT !.at = "asked"]
  /\ op' = [Listed(op) EXCEPT !["delete"].at = "settling"]
  /\ previous' = {}
  /\ UNCHANGED <<server, life, rows, view, owned, panel, events>>

\* onError puts the row back and onSettled reads the list.
DeleteFails ==
  /\ op["delete"].at \in {"post", "reply"} /\ Event
  /\ rows' = previous
  /\ previous' = {}
  /\ listing' = [Still EXCEPT !.at = "asked"]
  /\ op' = [Listed(op) EXCEPT !["delete"].at = "failing"]
  /\ UNCHANGED <<server, life, view, load, entry, owned, panel>>

\* The catch of handleDelete goes back to the Work, wherever the user is by now.
Restore ==
  LET w == op["delete"].job.work
  IN  /\ op["delete"].at = "failing" /\ listing.at \in {"idle", "failed"}
      /\ IF op["delete"].work = w THEN Activate(w) ELSE UNCHANGED <<active, due, content>>
      /\ Done("delete")
      /\ UNCHANGED <<server, life, list, loaded, load, timer, entry, owned, sound, panel,
                     events>>

Handler(k) ==
  \/ Serve(k) \/ StartReplies(k) \/ RebuildReplies(k)
  \/ Rebuilt(k) \/ RebuildFails(k, FALSE)

Step ==
  \/ Effect \/ Settle \/ Refresh
  \/ ServerReadsOld \/ AnswerOld \/ AnswerCached
  \/ ReadList \/ ListAnswers \/ LeaveUnlisted \/ ServeDelete \/ DeleteReplies \/ Restore
  \/ Uploaded \/ Enter \/ RetryReplies \/ CancelReplies
  \/ \E w \in Work : ServerReads(w) \/ Answer(w) \/ JobEnds(w)
  \/ \E k \in Kind : Handler(k) \/ (op[k].at = "refused" /\ HandlerFails(k))
  \/ \E k \in Kind : op[k].job.work \in Work \ Saved /\ RebuildFails(k, TRUE)
  \/ load.work \notin Saved /\ AnswerOldFails
  \/ \E w \in Work \ Saved : AnswerFails(w)

User ==
  \/ Reselect \/ PanelRefresh \/ StartPending \/ RetryJob \/ CancelJob
  \/ \E w \in Work : Open(w) \/ Prefetch(w) \/ Import(w) \/ Delete(w)
  \/ \E k \in {"score", "studio"} : Rebuild(k)

Fault ==
  \/ AnswerOldFails \/ UploadFails \/ ListFails \/ DeleteFails
  \/ \E w \in Work : AnswerFails(w)
  \/ \E k \in Kind : HandlerFails(k) \/ RebuildFails(k, TRUE)

Next == Step \/ User \/ Fault

\* Answers come, effects and timers run, Jobs end, and requests about a Work that
\* is gone fail; what the user does and what fails otherwise is not owed.
Fairness == WF_vars(Step)

Spec == Init /\ [][Next]_vars
FairSpec == Spec /\ Fairness

(* Properties *)

\* The screen and the player show the open Work or nothing: an answer for a Work
\* the user left is not shown (isCurrentLoad).
ContentIsOfActiveWork ==
  /\ content \in {None, active}
  /\ active # None => sound \in {None, active} \/ due

Following == panel.stage = "processing"
Ended(w)  == server[w].stage \in {"succeeded", "failed", "cancelled"}

\* A load of the open Work waits for a request that somebody sent: no clearing of
\* the cache takes it away, and no answer goes past it.
LoadsAreServed ==
  Current /\ ~due /\ Shares(load.work) => entry[load.work].at # "absent"

\* While the workspace says of the open Work that it is being processed, somebody
\* is going to look at it again: a load, the refresh timer, the import that is
\* about to open its Work, or the handler whose request it is.
RunningIsLookedAfter ==
  active # None /\ Following =>
    \/ due
    \/ load.at # "none" /\ load.work = active
    \/ timer = active /\ loaded = active
    \/ op["import"].at \in {"saved", "listed"}
    \/ \E k \in {"import", "start", "retry", "score"} : op[k].at # "idle" /\ op[k].work = active

\* A deleted Work is listed only while its deletion is under way, or the list is
\* about to be read again or could not be.
DeletedWorksLeave ==
  \A w \in rows : life[w] = "gone" =>
    listing.at # "idle" \/ op["delete"].at \in {"post", "reply"}

\* The workspace tells of the ended Job of the open Work as running, or the open
\* Work was deleted, and the list of Works could be read.
Outdated ==
  active # None /\ \/ Ended(active) /\ Following
                   \/ life[active] = "gone" /\ listing.at # "failed"

\* The end of its Job and of the Work itself reaches the workspace, however the
\* answers, the timer, the handlers and the user's moves interleave.
EndsAreNoticed == []<>~Outdated
=============================================================================
