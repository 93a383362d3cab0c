------------------------------ MODULE Uploads ------------------------------
(***************************************************************************)
(* How recordings and scores get into a Work and out of it again: uploads  *)
(* (backend/domain/upload_api.py, api/artifacts_versions.py) and the       *)
(* deletion of a Work (api/projects_works.py), which interleave with each  *)
(* other and with Jobs that publish into the Work.                         *)
(*                                                                         *)
(* The browser puts a pending object into the bucket and asks for it to be *)
(* finalized, or sends a small file through the server.  Every statement   *)
(* and every Storage call is a step.  A call may fail before it committed, *)
(* its reply may be lost, or the process may die in front of it: each of   *)
(* these spends one of MaxFaults.                                          *)
(***************************************************************************)
EXTENDS Naturals, FiniteSets

CONSTANTS Request,   \* upload requests
          Pending,   \* keys handed out by upload intents
          Job,       \* Jobs that publish one Version into the Work of their input
          Deletion,  \* requests to delete a Work
          Work,      \* Works that exist from the start
          None,      \* no Work, no Version, no key
          MaxFaults  \* bound on failed calls and deaths

\* A request, the Artifact, the Version and the Work it creates, and the key
\* of a file sent through the server share a name, and so do a Job and its output.
VersionId  == Request \cup Job
WorkId     == Work \cup Request
StorageKey == Pending \cup VersionId
Process    == VersionId \cup Deletion

ASSUME UploadAssumption ==
  /\ None \notin WorkId \cup StorageKey
  /\ Request \cap (Job \cup Work \cup Deletion \cup Pending) = {}
  /\ Job \cap (Deletion \cup Pending) = {}
  /\ MaxFaults \in Nat

VARIABLES
  kind,      \* pending key -> "audio" or "score", told by its extension
  object,    \* key -> "none", "sound", "broken" (not MusicXML) or "other" (another size)
  works,     \* rows of works
  home,      \* Version -> the Work of its Artifact row, None if there is no such row
  versions,  \* rows of artifact_versions
  keyOf,     \* Version -> storage_key, None while the request has none
  input,     \* Job -> target_version_id of its Workflow, cleared when that Version goes
  pc,        \* where each process is
  asked,     \* request -> the work_id of its body
  target,    \* Version -> the Work it goes into, None before there is one
  found,     \* request -> what _existing_upload selected
  doomed,    \* deletion -> the Work it deletes
  seenArtifacts, seen, seenJobs, \* deletion -> what WorkBundleRepository.load has read
  todo,      \* deletion -> Versions whose bytes it has not come to yet
  faults

vars == <<kind, object, works, home, versions, keyOf, input, pc, asked, target, found,
          doomed, seenArtifacts, seen, seenJobs, todo, faults>>

rows     == <<works, home, versions, input>>
request  == <<kind, keyOf, asked, target, found>>
deletion == <<doomed, seenArtifacts, seen, seenJobs, todo>>

UndoStates == {"undo_artifact", "undo_work", "undo_object"}
EndStates  == {"answered", "refused", "failed", "dead"}
States     ==
  {"idle", "check", "lookup", "resolve", "find", "validate", "reject",
   "work", "artifact", "put", "version", "running", "stored",
   "artifacts", "versions", "jobs", "delete", "clean"} \cup UndoStates \cup EndStates

TypeOK ==
  /\ kind \in [Pending -> {"audio", "score"}]
  /\ object \in [StorageKey -> {"none", "sound", "broken", "other"}]
  /\ works \in SUBSET WorkId
  /\ home \in [VersionId -> WorkId \cup {None}]
  /\ versions \in SUBSET VersionId
  /\ keyOf \in [VersionId -> StorageKey \cup {None}]
  /\ input \in [Job -> VersionId \cup {None}]
  /\ pc \in [Process -> States]
  /\ asked \in [Request -> Work \cup {None}]
  /\ target \in [VersionId -> WorkId \cup {None}]
  /\ found \in [Request -> VersionId \cup {None}]
  /\ doomed \in [Deletion -> WorkId \cup {None}]
  /\ seenArtifacts \in [Deletion -> SUBSET VersionId]
  /\ seen \in [Deletion -> SUBSET VersionId]
  /\ seenJobs \in [Deletion -> SUBSET Job]
  /\ todo \in [Deletion -> SUBSET VersionId]
  /\ faults \in 0..MaxFaults

\* The browser has put its objects before it asks for them to be finalized.
Init ==
  /\ kind \in [Pending -> {"audio", "score"}]
  /\ \E put \in [Pending -> {"none", "sound", "broken", "other"}] :
       object = [k \in StorageKey |-> IF k \in Pending THEN put[k] ELSE "none"]
  /\ works = Work
  /\ home = [v \in VersionId |-> None]
  /\ versions = {}
  /\ keyOf = [v \in VersionId |-> None]
  /\ input = [j \in Job |-> None]
  /\ pc = [p \in Process |-> "idle"]
  /\ asked = [r \in Request |-> None]
  /\ target = [v \in VersionId |-> None]
  /\ found = [r \in Request |-> None]
  /\ doomed = [d \in Deletion |-> None]
  /\ seenArtifacts = [d \in Deletion |-> {}]
  /\ seen = [d \in Deletion |-> {}]
  /\ seenJobs = [d \in Deletion |-> {}]
  /\ todo = [d \in Deletion |-> {}]
  /\ faults = 0

(* Steps *)

At(p, state)   == pc[p] = state
Goto(p, state) == pc' = [pc EXCEPT ![p] = state]
Fail           == faults < MaxFaults /\ faults' = faults + 1
Direct(r)      == keyOf[r] \in Pending
HasBytes(k)    == object[k] # "none"

\* ON DELETE CASCADE from works to artifacts to artifact_versions, and
\* ON DELETE SET NULL from artifact_versions to workflows.
DropArtifacts(gone) ==
  /\ home' = [v \in VersionId |-> IF v \in gone THEN None ELSE home[v]]
  /\ versions' = versions \ gone
  /\ input' = [j \in Job |-> IF input[j] \in gone THEN None ELSE input[j]]
InWork(w) == {v \in VersionId : home[v] = w}
DropWork(w) ==
  /\ works' = works \ {w}
  /\ DropArtifacts(InWork(w))

(* Requests *)

\* POST finalize-upload; a score must name the Work it belongs to.
Finalize(r, k, w) ==
  /\ At(r, "idle") /\ (kind[k] = "score" => w # None)
  /\ keyOf' = [keyOf EXCEPT ![r] = k]
  /\ asked' = [asked EXCEPT ![r] = w]
  /\ Goto(r, "check")
  /\ UNCHANGED <<kind, object, rows, target, found, deletion, faults>>

\* POST artifacts/upload with the file in the body.
Send(r, w) ==
  /\ At(r, "idle")
  /\ asked' = [asked EXCEPT ![r] = w]
  /\ Goto(r, "check")
  /\ UNCHANGED <<kind, object, rows, keyOf, target, found, deletion, faults>>

\* _require_project_and_work
Check(r) ==
  /\ At(r, "check")
  /\ Goto(r, IF asked[r] # None /\ asked[r] \notin works THEN "refused"
             ELSE IF Direct(r) THEN "lookup" ELSE "work")
  /\ UNCHANGED <<object, rows, request, deletion, faults>>

\* _existing_upload: any one Version with this key ...
Lookup(r) ==
  /\ At(r, "lookup")
  /\ LET same == {v \in versions : keyOf[v] = keyOf[r]} IN
       \/ /\ same = {}
          /\ Goto(r, "find")
          /\ UNCHANGED found
       \/ \E v \in same :
            /\ found' = [found EXCEPT ![r] = v]
            /\ Goto(r, "resolve")
  /\ UNCHANGED <<kind, object, rows, keyOf, asked, target, deletion, faults>>

\* ... and its metadata, which may be gone by now.
Resolve(r) ==
  /\ At(r, "resolve")
  /\ LET v == found[r] IN
       Goto(r, IF v \in versions /\ (asked[r] = None \/ home[v] = asked[r])
               THEN "answered" ELSE "refused")
  /\ UNCHANGED <<object, rows, request, deletion, faults>>

\* _find_storage_object and _require_matching_object_size
Find(r) ==
  /\ At(r, "find")
  /\ Goto(r, IF object[keyOf[r]] \in {"none", "other"} THEN "refused"
             ELSE IF kind[keyOf[r]] = "score" THEN "validate" ELSE "work")
  /\ UNCHANGED <<object, rows, request, deletion, faults>>

\* _download_storage_bytes and _validate_musicxml_bytes
Validate(r) ==
  /\ At(r, "validate")
  /\ Goto(r, IF object[keyOf[r]] = "sound" THEN "work"
             ELSE IF object[keyOf[r]] = "broken" THEN "reject" ELSE "refused")
  /\ UNCHANGED <<object, rows, request, deletion, faults>>

Reject(r) ==
  /\ At(r, "reject")
  /\ object' = [object EXCEPT ![keyOf[r]] = "none"]
  /\ Goto(r, "refused")
  /\ UNCHANGED <<rows, request, deletion, faults>>

\* A request that names no Work creates one.
CreateWork(r) ==
  /\ At(r, "work")
  /\ target' = [target EXCEPT ![r] = IF asked[r] = None THEN r ELSE asked[r]]
  /\ works' = IF asked[r] = None THEN works \cup {r} ELSE works
  /\ Goto(r, "artifact")
  /\ UNCHANGED <<kind, object, home, versions, input, keyOf, asked, found, deletion, faults>>

CreateArtifact(r) ==
  /\ At(r, "artifact") /\ target[r] \in works
  /\ home' = [home EXCEPT ![r] = target[r]]
  /\ Goto(r, IF Direct(r) THEN "version" ELSE "put")
  /\ UNCHANGED <<object, works, versions, input, request, deletion, faults>>

\* A file sent through the server goes to a key under its Artifact.
Put(r) ==
  /\ At(r, "put")
  /\ keyOf' = [keyOf EXCEPT ![r] = r]
  /\ object' = [object EXCEPT ![r] = "sound"]
  /\ Goto(r, "version")
  /\ UNCHANGED <<kind, rows, asked, target, found, deletion, faults>>

CreateVersion(r) ==
  /\ At(r, "version") /\ home[r] # None
  /\ versions' = versions \cup {r}
  /\ Goto(r, "answered")
  /\ UNCHANGED <<object, works, home, input, request, deletion, faults>>

\* The except clauses: a finalization deletes its Artifact, then the Work it
\* created, then the bytes; an upload through the server starts with the bytes.
\* Each is skipped when there is nothing of the kind.
CreatedWork(r) == asked[r] = None /\ target[r] = r

\* Mutant of AfterArtifact: the Work a request created is left behind.
AfterArtifactKeepsWork(r) == IF Direct(r) THEN "undo_object" ELSE "failed"

AfterArtifact(r) == IF CreatedWork(r) THEN "undo_work"
                    ELSE IF Direct(r) THEN "undo_object" ELSE "failed"

AfterWork(r) == IF Direct(r) THEN "undo_object" ELSE "failed"

\* Mutant of FirstUndo: a Version whose insert raised is taken not to exist.
FirstUndoForgetsArtifact(r) ==
  IF ~Direct(r) /\ keyOf[r] # None THEN "undo_object" ELSE AfterArtifact(r)

FirstUndo(r) ==
  IF ~Direct(r) /\ keyOf[r] # None THEN "undo_object"
  ELSE IF At(r, "artifact") THEN AfterArtifact(r) ELSE "undo_artifact"

\* The Work or the Artifact the row needs was deleted meanwhile.
CreateRefused(r) ==
  /\ \/ At(r, "artifact") /\ target[r] \notin works
     \/ At(r, "version") /\ home[r] = None
  /\ Goto(r, FirstUndo(r))
  /\ UNCHANGED <<object, rows, request, deletion, faults>>

UndoArtifact(r) ==
  /\ At(r, "undo_artifact")
  /\ DropArtifacts({r})
  /\ Goto(r, AfterArtifact(r))
  /\ UNCHANGED <<object, works, request, deletion, faults>>

UndoWork(r) ==
  /\ At(r, "undo_work")
  /\ DropWork(r)
  /\ Goto(r, AfterWork(r))
  /\ UNCHANGED <<object, request, deletion, faults>>

UndoObject(r) ==
  /\ At(r, "undo_object")
  /\ object' = [object EXCEPT ![keyOf[r]] = "none"]
  /\ Goto(r, IF Direct(r) THEN "failed" ELSE "undo_artifact")
  /\ UNCHANGED <<rows, request, deletion, faults>>

(* Faults of requests *)

\* A read fails, or the Work cannot be created by an upload through the server,
\* which does so outside its try block.
ReadFails(r) ==
  /\ \/ pc[r] \in {"check", "lookup", "resolve", "find", "validate"}
     \/ At(r, "work") /\ ~Direct(r) /\ asked[r] = None
  /\ Fail /\ Goto(r, "refused")
  /\ UNCHANGED <<object, rows, request, deletion>>

\* A failed insert, or a put that raises, stored or not, which leaves its key set.
CreateFails(r) ==
  /\ Fail
  /\ \/ /\ At(r, "work") /\ Direct(r) /\ asked[r] = None
        /\ Goto(r, "undo_object")
        /\ UNCHANGED <<object, keyOf>>
     \/ /\ pc[r] \in {"artifact", "version"}
        /\ Goto(r, FirstUndo(r))
        /\ UNCHANGED <<object, keyOf>>
     \/ /\ At(r, "put")
        /\ keyOf' = [keyOf EXCEPT ![r] = r]
        /\ object' \in {object, [object EXCEPT ![r] = "sound"]}
        /\ Goto(r, "undo_object")
  /\ UNCHANGED <<kind, rows, asked, target, found, deletion>>

\* The call commits but raises: the request does not know the row's name.
ReplyLost(r) ==
  /\ Fail
  /\ \/ /\ At(r, "work") /\ asked[r] = None
        /\ works' = works \cup {r}
        /\ Goto(r, IF Direct(r) THEN "undo_object" ELSE "refused")
        /\ UNCHANGED <<home, versions>>
     \/ /\ At(r, "artifact") /\ target[r] \in works
        /\ home' = [home EXCEPT ![r] = target[r]]
        /\ Goto(r, FirstUndo(r))
        /\ UNCHANGED <<works, versions>>
     \/ /\ At(r, "version") /\ home[r] # None
        /\ versions' = versions \cup {r}
        /\ Goto(r, FirstUndo(r))
        /\ UNCHANGED <<works, home>>
  /\ UNCHANGED <<object, input, request, deletion>>

\* Compensations are best effort, and so is the removal of a broken score.
UndoFails(r) ==
  /\ Fail
  /\ \/ At(r, "undo_artifact") /\ Goto(r, AfterArtifact(r))
     \/ At(r, "undo_work") /\ Goto(r, AfterWork(r))
     \/ At(r, "undo_object") /\ Goto(r, IF Direct(r) THEN "failed" ELSE "undo_artifact")
     \/ At(r, "reject") /\ Goto(r, "refused")
  /\ UNCHANGED <<object, rows, request, deletion>>

(* Jobs: one output under the Job's own key, published under the fence *)

StartJob(j, v) ==
  /\ At(j, "idle") /\ v \in versions
  /\ input' = [input EXCEPT ![j] = v]
  /\ target' = [target EXCEPT ![j] = home[v]]
  /\ Goto(j, "running")
  /\ UNCHANGED <<kind, object, works, home, versions, keyOf, asked, found, deletion, faults>>

StoreOutput(j) ==
  /\ At(j, "running")
  /\ keyOf' = [keyOf EXCEPT ![j] = j]
  /\ object' = [object EXCEPT ![j] = "sound"]
  /\ Goto(j, "stored")
  /\ UNCHANGED <<kind, rows, asked, target, found, deletion, faults>>

PublishOutput(j) ==
  /\ At(j, "stored")
  /\ IF target[j] \in works /\ input[j] # None
       THEN /\ home' = [home EXCEPT ![j] = target[j]]
            /\ versions' = versions \cup {j}
            /\ Goto(j, "answered")
       ELSE /\ Goto(j, "failed")
            /\ UNCHANGED <<home, versions>>
  /\ UNCHANGED <<object, works, input, request, deletion, faults>>

(* Deletion of a Work *)

StartDelete(d, w) ==
  /\ At(d, "idle") /\ w \in works
  /\ doomed' = [doomed EXCEPT ![d] = w]
  /\ Goto(d, "artifacts")
  /\ UNCHANGED <<object, rows, request, seenArtifacts, seen, seenJobs, todo, faults>>

LoadArtifacts(d) ==
  /\ At(d, "artifacts")
  /\ seenArtifacts' = [seenArtifacts EXCEPT ![d] = InWork(doomed[d])]
  /\ Goto(d, IF InWork(doomed[d]) = {} THEN "delete" ELSE "versions")
  /\ UNCHANGED <<object, rows, request, doomed, seen, seenJobs, todo, faults>>

LoadVersions(d) ==
  /\ At(d, "versions")
  /\ LET read == seenArtifacts[d] \cap versions IN
       /\ seen' = [seen EXCEPT ![d] = read]
       /\ Goto(d, IF read = {} THEN "delete" ELSE "jobs")
  /\ UNCHANGED <<object, rows, request, doomed, seenArtifacts, seenJobs, todo, faults>>

LoadJobs(d) ==
  /\ At(d, "jobs")
  /\ seenJobs' = [seenJobs EXCEPT ![d] = {j \in Job : input[j] \in seen[d]}]
  /\ Goto(d, "delete")
  /\ UNCHANGED <<object, rows, request, doomed, seenArtifacts, seen, todo, faults>>

\* Mutant of Trusted: what a Job stored is never trusted.
TrustedUploadsOnly(d, v) == v \notin Job

\* classify_version_storage_locator for the locators this program writes
Trusted(d, v) == v \in Job => v \in seenJobs[d]

\* work_repo.delete raises when the Work is gone already.
DeleteWork(d) ==
  /\ At(d, "delete")
  /\ IF doomed[d] \in works
       THEN /\ DropWork(doomed[d])
            /\ todo' = [todo EXCEPT ![d] = {v \in seen[d] : Trusted(d, v)}]
            /\ Goto(d, "clean")
       ELSE /\ Goto(d, "refused")
            /\ UNCHANGED <<rows, todo>>
  /\ UNCHANGED <<object, request, doomed, seenArtifacts, seen, seenJobs, faults>>

RemoveBytes(d, v) ==
  /\ At(d, "clean") /\ v \in todo[d]
  /\ object' = [object EXCEPT ![keyOf[v]] = "none"]
  /\ todo' = [todo EXCEPT ![d] = @ \ {v}]
  /\ UNCHANGED <<rows, request, doomed, seenArtifacts, seen, seenJobs, pc, faults>>

Deleted(d) ==
  /\ At(d, "clean") /\ todo[d] = {}
  /\ Goto(d, "answered")
  /\ UNCHANGED <<object, rows, request, deletion, faults>>

\* A failed removal is logged and passed over.
RemovalFails(d, v) ==
  /\ At(d, "clean") /\ v \in todo[d]
  /\ Fail
  /\ todo' = [todo EXCEPT ![d] = @ \ {v}]
  /\ UNCHANGED <<object, rows, request, doomed, seenArtifacts, seen, seenJobs, pc>>

DeletionFails(d) ==
  /\ Fail
  /\ \/ pc[d] \in {"artifacts", "versions", "jobs", "delete"} /\ UNCHANGED rows
     \/ At(d, "delete") /\ doomed[d] \in works /\ DropWork(doomed[d])
  /\ Goto(d, "refused")
  /\ UNCHANGED <<object, request, deletion>>

\* The process serving a request or running a Job dies.
Die(p) ==
  /\ pc[p] \notin {"idle"} \cup EndStates
  /\ Fail /\ Goto(p, "dead")
  /\ UNCHANGED <<object, rows, request, deletion>>

RequestStep(r) ==
  \/ \E w \in Work \cup {None} : (\E k \in Pending : Finalize(r, k, w)) \/ Send(r, w)
  \/ Check(r) \/ Lookup(r) \/ Resolve(r) \/ Find(r) \/ Validate(r) \/ Reject(r)
  \/ CreateWork(r) \/ CreateArtifact(r) \/ Put(r) \/ CreateVersion(r) \/ CreateRefused(r)
  \/ UndoArtifact(r) \/ UndoWork(r) \/ UndoObject(r)
  \/ ReadFails(r) \/ CreateFails(r) \/ ReplyLost(r) \/ UndoFails(r)

JobStep(j) ==
  \/ \E v \in VersionId : StartJob(j, v)
  \/ StoreOutput(j) \/ PublishOutput(j)

DeletionStep(d) ==
  \/ \E w \in WorkId : StartDelete(d, w)
  \/ LoadArtifacts(d) \/ LoadVersions(d) \/ LoadJobs(d) \/ DeleteWork(d) \/ Deleted(d)
  \/ \E v \in VersionId : RemoveBytes(d, v) \/ RemovalFails(d, v)
  \/ DeletionFails(d)

Next ==
  \/ \E r \in Request : RequestStep(r)
  \/ \E j \in Job : JobStep(j)
  \/ \E d \in Deletion : DeletionStep(d)
  \/ \E p \in Process : Die(p)

Spec == Init /\ [][Next]_vars

(* Properties *)

\* q got past the search for an existing Version and so may publish or compensate.
Entered(q) == target[q] # None \/ pc[q] \in UndoStates \cup {"failed"}
Rivals(r)  == {q \in Request \ {r} : keyOf[q] = keyOf[r] /\ Entered(q)}

Disturbed  == faults > 0 \/ \E d \in Deletion : pc[d] # "idle"

\* With at most one failed call, a Version that is not being taken back has its
\* bytes: no compensation, no clean-up of a rejected score and no deletion of a Work
\* removes what a Version still refers to.  The exception is an object that two
\* finalizations published, both having found no Version of it: when a call fails or
\* a Work is deleted, one of them may take the bytes of the other.
VersionsKeepBytes ==
  faults <= 1 =>
    \A v \in versions : \/ HasBytes(keyOf[v])
                        \/ pc[v] \in UndoStates
                        \/ v \in Request /\ Rivals(v) # {} /\ Disturbed

\* An upload that failed through one failed call, or because its Work was deleted,
\* leaves no Version, no Work of its own whose creation was answered, and no Artifact
\* in such a Work.  Nothing is said of an Artifact in a Work that was there before.
FailedUploadsLeaveNothing ==
  \A r \in Request : pc[r] = "failed" /\ faults <= 1 =>
    /\ r \notin versions
    /\ r \in works => target[r] = None
    /\ home[r] # None => ~CreatedWork(r)

\* Nothing is under way.
Quiet == \A p \in Process : pc[p] \in {"idle"} \cup EndStates

\* When nothing failed and nothing is under way, bytes outlive their Version only if
\* the deletion of its Work had read the Work before the Version was published: the
\* locators in the snapshot are all cleaned up, those of Jobs included.
OrphansWereUnseen ==
  faults = 0 /\ Quiet =>
    \A v \in VersionId :
      pc[v] = "answered" /\ target[v] # None /\ v \notin versions /\ HasBytes(keyOf[v])
        => \E d \in Deletion : doomed[d] = target[v] /\ At(d, "answered") /\ v \notin seen[d]
=============================================================================
