--------------------------- MODULE Uploads_proofs ---------------------------
(***************************************************************************)
(* Proofs about Uploads, for every set of requests, pending keys, Jobs,    *)
(* deletions and Works, and every bound on failed calls.                   *)
(***************************************************************************)
EXTENDS Uploads, TLAPS

(* Types *)

LEMMA DropIsTyped ==
  ASSUME TypeOK, NEW gone, DropArtifacts(gone)
  PROVE  /\ home' \in [VersionId -> WorkId \cup {None}]
         /\ versions' \in SUBSET VersionId
         /\ input' \in [Job -> VersionId \cup {None}]
BY DEF TypeOK, DropArtifacts

LEMMA TypeInit == Init => TypeOK
BY UploadAssumption DEF Init, TypeOK, WorkId, States, UndoStates, EndStates, StorageKey, VersionId

TypedRows ==
  /\ works' \in SUBSET WorkId
  /\ home' \in [VersionId -> WorkId \cup {None}]
  /\ versions' \in SUBSET VersionId
  /\ input' \in [Job -> VersionId \cup {None}]
TypedRequest ==
  /\ kind' \in [Pending -> {"audio", "score"}]
  /\ keyOf' \in [VersionId -> StorageKey \cup {None}]
  /\ asked' \in [Request -> Work \cup {None}]
  /\ target' \in [VersionId -> WorkId \cup {None}]
  /\ found' \in [Request -> VersionId \cup {None}]
TypedDeletion ==
  /\ doomed' \in [Deletion -> WorkId \cup {None}]
  /\ seenArtifacts' \in [Deletion -> SUBSET VersionId]
  /\ seen' \in [Deletion -> SUBSET VersionId]
  /\ seenJobs' \in [Deletion -> SUBSET Job]
  /\ todo' \in [Deletion -> SUBSET VersionId]
Typed ==
  /\ TypedRows /\ TypedRequest /\ TypedDeletion
  /\ object' \in [StorageKey -> {"none", "sound", "broken", "other"}]
  /\ pc' \in [Process -> States]
  /\ faults' \in 0..MaxFaults

LEMMA TypedIsTyped == Typed => TypeOK'
BY DEF Typed, TypedRows, TypedRequest, TypedDeletion, TypeOK

\* Where a failed upload goes is a state.
LEMMA UndoIsAState ==
  ASSUME NEW r \in Request
  PROVE  AfterWork(r) \in States /\ AfterArtifact(r) \in States /\ FirstUndo(r) \in States
BY DEF AfterWork, AfterArtifact, FirstUndo, States, UndoStates, EndStates

LEMMA TypeOfRequests ==
  ASSUME TypeOK, NEW r \in Request, RequestStep(r)
  PROVE  TypeOK'
<1> SUFFICES Typed
  BY TypedIsTyped
<1> USE UploadAssumption, UndoIsAState, DropIsTyped
<1> USE DEF Typed, TypedRows, TypedRequest, TypedDeletion, TypeOK, At, Goto, Fail,
       VersionId, WorkId, StorageKey, Process, rows, request, deletion
<1>1. ASSUME NEW w \in Work \cup {None}, NEW k \in Pending, Finalize(r, k, w) PROVE Typed
  BY <1>1 DEF Finalize, States
<1>2. ASSUME NEW w \in Work \cup {None}, Send(r, w) PROVE Typed
  BY <1>2 DEF Send, States
<1>3. CASE Check(r)
  BY <1>3 DEF Check, States, EndStates
<1>4. CASE Lookup(r)
  BY <1>4 DEF Lookup, States
<1>5. CASE Resolve(r)
  BY <1>5 DEF Resolve, States, EndStates
<1>6. CASE Find(r)
  BY <1>6 DEF Find, States, EndStates
<1>7. CASE Validate(r)
  BY <1>7 DEF Validate, States, EndStates
<1>8. CASE Reject(r)
  BY <1>8 DEF Reject, States, EndStates
<1>9. CASE CreateWork(r)
  BY <1>9 DEF CreateWork, States
<1>10. CASE CreateArtifact(r)
  BY <1>10 DEF CreateArtifact, States
<1>11. CASE Put(r)
  BY <1>11 DEF Put, States
<1>12. CASE CreateVersion(r)
  BY <1>12 DEF CreateVersion, States, EndStates
<1>13. CASE CreateRefused(r)
  BY <1>13 DEF CreateRefused
<1>14. CASE UndoArtifact(r)
  BY <1>14 DEF UndoArtifact
<1>15. CASE UndoWork(r)
  BY <1>15 DEF UndoWork, DropWork
<1>16. CASE UndoObject(r)
  BY <1>16 DEF UndoObject, States, UndoStates, EndStates
<1>17. CASE ReadFails(r)
  BY <1>17 DEF ReadFails, States, EndStates
<1>18. CASE CreateFails(r)
  <2>1. CASE At(r, "work")
    BY <1>18, <2>1 DEF CreateFails, States, UndoStates
  <2>2. CASE pc[r] \in {"artifact", "version"}
    BY <1>18, <2>2 DEF CreateFails
  <2>3. CASE At(r, "put")
    <3>1. /\ Fail /\ keyOf' = [keyOf EXCEPT ![r] = r] /\ Goto(r, "undo_object")
          /\ object' = object \/ object' = [object EXCEPT ![r] = "sound"]
          /\ UNCHANGED <<kind, rows, asked, target, found, deletion>>
      BY <1>18, <2>3 DEF CreateFails
    <3>2. object' \in [StorageKey -> {"none", "sound", "broken", "other"}]
      BY <3>1
    <3>3. keyOf' \in [VersionId -> StorageKey \cup {None}]
      BY <3>1
    <3>4. pc' \in [Process -> States]
      BY <3>1 DEF States, UndoStates
    <3> QED
      BY <3>1, <3>2, <3>3, <3>4
  <2> QED
    BY <1>18, <2>1, <2>2, <2>3 DEF CreateFails
<1>19. CASE ReplyLost(r)
  <2>1. CASE At(r, "work")
    BY <1>19, <2>1 DEF ReplyLost, States, UndoStates, EndStates
  <2>2. CASE At(r, "artifact")
    <3>1. /\ Fail /\ home' = [home EXCEPT ![r] = target[r]] /\ Goto(r, FirstUndo(r))
          /\ UNCHANGED <<works, versions, object, input, request, deletion>>
      BY <1>19, <2>2 DEF ReplyLost
    <3>2. home' \in [VersionId -> WorkId \cup {None}]
      BY <3>1
    <3>3. pc' \in [Process -> States]
      BY <3>1
    <3> QED
      BY <3>1, <3>2, <3>3
  <2>3. CASE At(r, "version")
    BY <1>19, <2>3 DEF ReplyLost
  <2> QED
    BY <1>19, <2>1, <2>2, <2>3 DEF ReplyLost
<1>20. CASE UndoFails(r)
  BY <1>20 DEF UndoFails, States, UndoStates, EndStates
<1> HIDE DEF Typed
<1> QED
  BY <1>1, <1>2, <1>3, <1>4, <1>5, <1>6, <1>7, <1>8, <1>9, <1>10, <1>11, <1>12, <1>13, <1>14,
     <1>15, <1>16, <1>17, <1>18, <1>19, <1>20 DEF RequestStep

LEMMA TypeOfJobs ==
  ASSUME TypeOK, NEW j \in Job, JobStep(j)
  PROVE  TypeOK'
<1> SUFFICES Typed
  BY TypedIsTyped
<1> USE DEF Typed, TypedRows, TypedRequest, TypedDeletion, TypeOK, At, Goto, States, EndStates,
       VersionId, WorkId, StorageKey, Process, rows, request, deletion
<1>1. ASSUME NEW v \in VersionId, StartJob(j, v) PROVE Typed
  BY <1>1 DEF StartJob
<1>2. CASE StoreOutput(j)
  BY <1>2 DEF StoreOutput
<1>3. CASE PublishOutput(j)
  BY <1>3 DEF PublishOutput
<1> QED
  BY <1>1, <1>2, <1>3 DEF JobStep

LEMMA TypeOfDeletions ==
  ASSUME TypeOK, NEW d \in Deletion, DeletionStep(d)
  PROVE  TypeOK'
<1> SUFFICES Typed
  BY TypedIsTyped
<1> USE UploadAssumption, DropIsTyped
<1> USE DEF Typed, TypedRows, TypedRequest, TypedDeletion, TypeOK, At, Goto, States, EndStates,
       Fail, WorkId, Process, rows, request, deletion
<1>1. ASSUME NEW w \in WorkId, StartDelete(d, w) PROVE Typed
  BY <1>1 DEF StartDelete
<1>2. CASE LoadArtifacts(d)
  BY <1>2 DEF LoadArtifacts, InWork
<1>3. CASE LoadVersions(d)
  BY <1>3 DEF LoadVersions
<1>4. CASE LoadJobs(d)
  BY <1>4 DEF LoadJobs
<1>5. CASE DeleteWork(d)
  BY <1>5 DEF DeleteWork, DropWork
<1>6. CASE Deleted(d)
  BY <1>6 DEF Deleted
<1>7. ASSUME NEW v \in VersionId, RemoveBytes(d, v) PROVE Typed
  BY <1>7 DEF RemoveBytes
<1>8. ASSUME NEW v \in VersionId, RemovalFails(d, v) PROVE Typed
  BY <1>8 DEF RemovalFails
<1>9. CASE DeletionFails(d)
  BY <1>9 DEF DeletionFails, DropWork
<1> HIDE DEF Typed
<1> QED
  BY <1>1, <1>2, <1>3, <1>4, <1>5, <1>6, <1>7, <1>8, <1>9 DEF DeletionStep

LEMMA TypeNext == TypeOK /\ [Next]_vars => TypeOK'
<1> SUFFICES ASSUME TypeOK, [Next]_vars PROVE TypeOK'
  OBVIOUS
<1>1. ASSUME NEW p \in Process, Die(p) PROVE TypeOK'
  BY <1>1, UploadAssumption
     DEF Die, TypeOK, Goto, Fail, rows, request, deletion, States, EndStates
<1>2. CASE UNCHANGED vars
  BY <1>2 DEF vars, TypeOK
<1> QED
  BY <1>1, <1>2, TypeOfRequests, TypeOfJobs, TypeOfDeletions DEF Next

\* The rows, the objects and the progress of requests, Jobs and deletions keep their
\* types.
THEOREM UploadTypesCorrect == Spec => []TypeOK
BY TypeInit, TypeNext, PTL DEF Spec

(* Failed uploads *)

\* What a step of anyone else may do to an upload or to the output of a Job: delete
\* its rows, and its Work with them.
Aside(v) ==
  /\ keyOf'[v] = keyOf[v] /\ target'[v] = target[v] /\ (v \in Request => asked'[v] = asked[v])
  /\ v \in versions' => v \in versions
  /\ \A w \in Work \cup {v, None} : w \in works' => w \in works
  /\ home'[v] = home[v] \/ (home'[v] = None /\ home[v] \notin works' /\ v \notin versions')
  /\ faults' \in Nat /\ faults <= faults'

LEMMA DropIsAside ==
  ASSUME TypeOK, NEW v \in VersionId, NEW gone, v \notin gone, DropArtifacts(gone)
  PROVE  home'[v] = home[v] /\ (v \in versions' => v \in versions)
BY DEF TypeOK, DropArtifacts

LEMMA DropWorkIsAside ==
  ASSUME TypeOK, NEW v \in VersionId, NEW w \in WorkId, DropWork(w)
  PROVE  /\ home'[v] = home[v] \/ (home'[v] = None /\ home[v] \notin works' /\ v \notin versions')
         /\ v \in versions' => v \in versions
         /\ works' \subseteq works
BY DEF TypeOK, DropArtifacts, DropWork, InWork

LEMMA OthersAreAside ==
  ASSUME TypeOK, TypeOK', NEW v \in VersionId, NEW q \in Request \ {v}, RequestStep(q)
  PROVE  Aside(v) /\ pc'[v] = pc[v]
<1> DEFINE Goal == Aside(v) /\ pc'[v] = pc[v]
<1> SUFFICES Goal
  OBVIOUS
<1>a. /\ faults \in Nat /\ faults' \in Nat /\ None \notin works' /\ q \notin Work /\ q # None
      /\ v \in Process /\ q \in Process /\ q \in VersionId /\ q \in WorkId
  BY UploadAssumption DEF TypeOK, WorkId, VersionId, Process
<1> USE <1>a
<1> USE DEF Aside, TypeOK, At, Goto, Fail, rows, request
<1>1. ASSUME NEW w \in Work \cup {None}, NEW k \in Pending, Finalize(q, k, w) PROVE Goal
  BY <1>1 DEF Finalize
<1>2. ASSUME NEW w \in Work \cup {None}, Send(q, w) PROVE Goal
  BY <1>2 DEF Send
<1>3. CASE Check(q) \/ Lookup(q) \/ Resolve(q) \/ Find(q) \/ Validate(q) \/ Reject(q)
  BY <1>3 DEF Check, Lookup, Resolve, Find, Validate, Reject
<1>4. CASE CreateWork(q)
  BY <1>4 DEF CreateWork
<1>5. CASE CreateArtifact(q) \/ Put(q) \/ CreateVersion(q) \/ CreateRefused(q)
  BY <1>5 DEF CreateArtifact, Put, CreateVersion, CreateRefused
<1>6. CASE UndoArtifact(q)
  BY <1>6, DropIsAside DEF UndoArtifact
<1>7. CASE UndoWork(q)
  BY <1>7, DropWorkIsAside DEF UndoWork
<1>8. CASE UndoObject(q)
  BY <1>8 DEF UndoObject
<1>9. CASE ReadFails(q) \/ UndoFails(q)
  BY <1>9 DEF ReadFails, UndoFails
<1>10. CASE CreateFails(q)
  BY <1>10 DEF CreateFails
<1>11. CASE ReplyLost(q)
  BY <1>11 DEF ReplyLost
<1> HIDE DEF Goal
<1> QED
  BY <1>1, <1>2, <1>3, <1>4, <1>5, <1>6, <1>7, <1>8, <1>9, <1>10, <1>11 DEF RequestStep

LEMMA JobsAreAside ==
  ASSUME TypeOK, TypeOK', NEW v \in VersionId, NEW j \in Job \ {v}, JobStep(j)
  PROVE  Aside(v) /\ pc'[v] = pc[v]
<1>a. faults \in Nat /\ None \notin works' /\ v \in Process /\ j \in Process /\ j \in VersionId
  BY UploadAssumption DEF TypeOK, Process, VersionId
<1> USE <1>a
<1> USE DEF Aside, TypeOK, At, Goto, rows, request
<1>1. ASSUME NEW u \in VersionId, StartJob(j, u) PROVE Aside(v) /\ pc'[v] = pc[v]
  BY <1>1 DEF StartJob
<1>2. CASE StoreOutput(j)
  BY <1>2 DEF StoreOutput
<1>3. CASE PublishOutput(j)
  BY <1>3 DEF PublishOutput
<1> QED
  BY <1>1, <1>2, <1>3 DEF JobStep

LEMMA DeletionsAreAside ==
  ASSUME TypeOK, TypeOK', NEW v \in VersionId, NEW d \in Deletion, DeletionStep(d)
  PROVE  Aside(v) /\ pc'[v] = pc[v]
<1> DEFINE Goal == Aside(v) /\ pc'[v] = pc[v]
<1> SUFFICES Goal
  OBVIOUS
<1>a. d # v /\ faults \in Nat /\ faults' \in Nat /\ None \notin works' /\ v \in Process
  BY UploadAssumption DEF TypeOK, VersionId, Process
<1> USE <1>a
<1> USE DEF Aside, TypeOK, At, Goto, Fail, rows, request
<1>1. ASSUME NEW w \in WorkId, StartDelete(d, w) PROVE Goal
  BY <1>1 DEF StartDelete
<1>2. CASE LoadArtifacts(d) \/ LoadVersions(d) \/ LoadJobs(d) \/ Deleted(d)
  BY <1>2 DEF LoadArtifacts, LoadVersions, LoadJobs, Deleted
<1>3. doomed[d] \in works => doomed[d] \in WorkId
  OBVIOUS
<1>4. CASE DeleteWork(d)
  BY <1>3, <1>4, DropWorkIsAside DEF DeleteWork
<1>5. ASSUME NEW u \in VersionId, RemoveBytes(d, u) \/ RemovalFails(d, u) PROVE Goal
  BY <1>5 DEF RemoveBytes, RemovalFails
<1>6. CASE DeletionFails(d)
  BY <1>3, <1>6, DropWorkIsAside DEF DeletionFails
<1> HIDE DEF Goal
<1> QED
  BY <1>1, <1>2, <1>4, <1>5, <1>6 DEF DeletionStep

Waits(v) == pc'[v] = pc[v] \/ (pc'[v] = "dead" /\ pc[v] \notin EndStates /\ faults < faults')

LEMMA Bystander ==
  ASSUME TypeOK, TypeOK', NEW v \in VersionId, [Next]_vars
  PROVE  \/ v \in Request /\ RequestStep(v)
         \/ v \in Job /\ JobStep(v)
         \/ Aside(v) /\ Waits(v)
<1> USE DEF Waits
<1>1. ASSUME NEW p \in Process, Die(p) PROVE Aside(v) /\ Waits(v)
  BY <1>1, UploadAssumption
     DEF Die, Aside, TypeOK, Goto, Fail, rows, request, Process
<1>2. CASE UNCHANGED vars
  BY <1>2, UploadAssumption DEF vars, Aside, TypeOK
<1> QED
  BY <1>1, <1>2, OthersAreAside, JobsAreAside, DeletionsAreAside DEF Next

\* The states of a request before it has created anything.
Early == {"idle", "check", "lookup", "resolve", "find", "validate", "reject", "work"}

\* What an upload owns, by where it is.
Form(r) ==
  /\ pc[r] \in Early => target[r] = None /\ home[r] = None /\ r \notin versions /\ r \notin works
  /\ target[r] \in {None, IF asked[r] = None THEN r ELSE asked[r]}
  /\ asked[r] # None => r \notin works
  /\ home[r] \in {None, target[r]}
  /\ pc[r] \in {"artifact", "put", "version"} => r \notin versions /\ target[r] # None
  /\ pc[r] = "artifact" => home[r] = None
  /\ pc[r] = "put" => ~Direct(r)
  /\ pc[r] \in {"put", "version"} /\ home[r] = None => target[r] \notin works

\* What a compensation still has to take back when at most one call failed.
Undone(r) ==
  /\ pc[r] = "undo_work" /\ faults <= 1 => CreatedWork(r) /\ r \notin versions
  /\ (pc[r] = "failed" \/ (pc[r] = "undo_object" /\ Direct(r))) /\ faults <= 1 =>
       /\ r \notin versions
       /\ r \in works => target[r] = None
       /\ home[r] # None => ~CreatedWork(r)
  /\ pc[r] \in UndoStates /\ faults = 0 =>
       r \notin versions /\ home[r] = None /\ target[r] \notin works

LEMMA FormInit == Init => \A r \in Request : Form(r) /\ Undone(r)
BY UploadAssumption DEF Init, Form, Undone, Early, VersionId, Process, WorkId, UndoStates

LEMMA FormAside ==
  ASSUME TypeOK, NEW r \in Request, Form(r), Undone(r), Aside(r), pc'[r] \in {pc[r], "dead"}
  PROVE  Form(r)' /\ Undone(r)'
<1>1. faults \in Nat /\ asked[r] \in Work \cup {None}
  BY UploadAssumption DEF TypeOK
<1>2. Form(r)'
  BY <1>1 DEF Form, Aside, Early, Direct
<1>3. Undone(r)'
  BY <1>1 DEF Form, Undone, Aside, UndoStates, Direct, CreatedWork
<1> QED
  BY <1>2, <1>3

LEMMA FormRequest ==
  ASSUME TypeOK, TypeOK', NEW r \in Request, Form(r), RequestStep(r)
  PROVE  Form(r)'
<1>a. /\ faults \in Nat /\ faults' \in Nat /\ None \notin works /\ None \notin works'
      /\ asked[r] \in Work \cup {None} /\ r # None /\ r \notin Work /\ r \notin Pending
      /\ r \in VersionId /\ r \in Process
  BY UploadAssumption DEF TypeOK, WorkId, VersionId, Process
<1> USE <1>a
<1> USE DEF Form, TypeOK, At, Goto, rows, request
<1>1. ASSUME NEW w \in Work \cup {None}, NEW k \in Pending, Finalize(r, k, w) PROVE Form(r)'
  BY <1>1 DEF Finalize, Early
<1>2. ASSUME NEW w \in Work \cup {None}, Send(r, w) PROVE Form(r)'
  BY <1>2 DEF Send, Early
<1>3. CASE Check(r)
  BY <1>3 DEF Check, Early
<1>4. CASE Lookup(r) \/ Resolve(r)
  BY <1>4 DEF Lookup, Resolve, Early
<1>5. CASE Find(r) \/ Validate(r) \/ Reject(r)
  BY <1>5 DEF Find, Validate, Reject, Early
<1>6. CASE CreateWork(r)
  BY <1>6 DEF CreateWork, Early
<1>7. CASE CreateArtifact(r)
  BY <1>7 DEF CreateArtifact, Early, Direct
<1>8. CASE Put(r) \/ CreateVersion(r)
  BY <1>8 DEF Put, CreateVersion, Early
<1>9. FirstUndo(r) \in UndoStates \cup {"failed"} /\ AfterArtifact(r) \in UndoStates \cup {"failed"}
        /\ AfterWork(r) \in UndoStates \cup {"failed"}
  BY DEF FirstUndo, AfterArtifact, AfterWork, UndoStates
<1>10. CASE CreateRefused(r)
  BY <1>9, <1>10 DEF CreateRefused, Early, UndoStates
<1>11. CASE UndoArtifact(r)
  BY <1>9, <1>11 DEF UndoArtifact, DropArtifacts, Early, UndoStates
<1>12. CASE UndoWork(r)
  BY <1>9, <1>12 DEF UndoWork, DropWork, DropArtifacts, Early, UndoStates
<1>13. CASE UndoObject(r) \/ UndoFails(r)
  BY <1>9, <1>13 DEF UndoObject, UndoFails, Early, UndoStates
<1>14. CASE ReadFails(r)
  BY <1>14 DEF ReadFails, Early
<1>15. CASE CreateFails(r)
  BY <1>9, <1>15 DEF CreateFails, Early, UndoStates
<1>16. CASE ReplyLost(r)
  <2>1. CASE At(r, "work")
    BY <1>16, <2>1 DEF ReplyLost, Early
  <2>2. CASE At(r, "artifact")
    BY <1>9, <1>16, <2>2 DEF ReplyLost, Early, UndoStates
  <2>3. CASE At(r, "version")
    BY <1>9, <1>16, <2>3 DEF ReplyLost, Early, UndoStates
  <2> QED
    BY <1>16, <2>1, <2>2, <2>3 DEF ReplyLost
<1> HIDE DEF Form
<1> QED
  BY <1>1, <1>2, <1>3, <1>4, <1>5, <1>6, <1>7, <1>8, <1>10, <1>11, <1>12, <1>13, <1>14, <1>15,
     <1>16 DEF RequestStep

LEMMA UndoneRequest ==
  ASSUME TypeOK, TypeOK', NEW r \in Request, Form(r), Undone(r), RequestStep(r)
  PROVE  Undone(r)'
<1>a. /\ faults \in Nat /\ faults' \in Nat /\ None \notin works /\ None \notin works'
      /\ asked[r] \in Work \cup {None} /\ r # None /\ r \notin Work /\ r \notin Pending
      /\ r \in VersionId /\ r \in Process
  BY UploadAssumption DEF TypeOK, WorkId, VersionId, Process
<1> USE <1>a
<1> USE DEF Undone, TypeOK, At, Goto, rows, request, UndoStates
<1>1. ASSUME NEW w \in Work \cup {None}, NEW k \in Pending, Finalize(r, k, w) PROVE Undone(r)'
  BY <1>1 DEF Finalize
<1>2. ASSUME NEW w \in Work \cup {None}, Send(r, w) PROVE Undone(r)'
  BY <1>2 DEF Send
<1>3. CASE Check(r) \/ Lookup(r) \/ Resolve(r) \/ Find(r) \/ Validate(r) \/ Reject(r)
  BY <1>3 DEF Check, Lookup, Resolve, Find, Validate, Reject
<1>4. CASE CreateWork(r) \/ CreateArtifact(r) \/ Put(r) \/ CreateVersion(r)
  BY <1>4 DEF CreateWork, CreateArtifact, Put, CreateVersion
<1>5. CASE CreateRefused(r)
  BY <1>5 DEF CreateRefused, FirstUndo, AfterArtifact, Form, CreatedWork, Direct
<1>6. CASE UndoArtifact(r)
  BY <1>6 DEF UndoArtifact, DropArtifacts, AfterArtifact, Form, CreatedWork, Direct
<1>7. CASE UndoWork(r)
  BY <1>7 DEF UndoWork, DropWork, DropArtifacts, InWork, AfterWork, Form, CreatedWork, Direct
<1>8. CASE UndoObject(r)
  BY <1>8 DEF UndoObject, CreatedWork, Direct
<1>9. CASE ReadFails(r)
  BY <1>9 DEF ReadFails
<1>10. CASE CreateFails(r)
  <2>1. CASE At(r, "work") \/ At(r, "put")
    BY <1>10, <2>1 DEF CreateFails, Fail, Form, Early, CreatedWork, Direct
  <2>2. CASE pc[r] \in {"artifact", "version"}
    BY <1>10, <2>2 DEF CreateFails, Fail, FirstUndo, AfterArtifact, Form, CreatedWork, Direct
  <2> QED
    BY <1>10, <2>1, <2>2 DEF CreateFails
<1>11. CASE ReplyLost(r)
  <2>1. CASE At(r, "work")
    BY <1>11, <2>1 DEF ReplyLost, Fail, Form, Early, CreatedWork, Direct
  <2>2. CASE At(r, "artifact")
    BY <1>11, <2>2 DEF ReplyLost, Fail, FirstUndo, AfterArtifact, Form, CreatedWork, Direct
  <2>3. CASE At(r, "version")
    BY <1>11, <2>3 DEF ReplyLost, Fail, FirstUndo, Form, Direct
  <2> QED
    BY <1>11, <2>1, <2>2, <2>3 DEF ReplyLost
<1>12. CASE UndoFails(r)
  BY <1>12 DEF UndoFails, Fail, AfterArtifact, AfterWork, Form, CreatedWork, Direct
<1> HIDE DEF Undone
<1> QED
  BY <1>1, <1>2, <1>3, <1>4, <1>5, <1>6, <1>7, <1>8, <1>9, <1>10, <1>11, <1>12 DEF RequestStep

FormInv == \A r \in Request : Form(r) /\ Undone(r)

LEMMA FormNext == TypeOK /\ TypeOK' /\ FormInv /\ [Next]_vars => FormInv'
<1> SUFFICES ASSUME TypeOK, TypeOK', FormInv, [Next]_vars, NEW r \in Request
             PROVE  Form(r)' /\ Undone(r)'
  BY DEF FormInv
<1>1. Form(r) /\ Undone(r)
  BY DEF FormInv
<1>2. CASE RequestStep(r)
  BY <1>1, <1>2, FormRequest, UndoneRequest
<1>3. CASE Aside(r) /\ Waits(r)
  BY <1>1, <1>3, FormAside DEF Waits
<1> QED
  BY <1>2, <1>3, Bystander, UploadAssumption DEF VersionId

\* An upload that failed through one failed call, or because its Work was deleted,
\* has taken back what it created: the compensation of upload_api and
\* artifacts_versions covers every place an upload can stop at, whatever other
\* requests, Jobs and deletions do meanwhile.
THEOREM FailedUploadsAreUndone == Spec => []FailedUploadsLeaveNothing
<1>1. Init => FormInv
  BY FormInit DEF FormInv
<1>2. TypeOK /\ FormInv => FailedUploadsLeaveNothing
  BY DEF FormInv, Undone, FailedUploadsLeaveNothing
<1> QED
  BY <1>1, <1>2, TypeInit, TypeNext, FormNext, PTL DEF Spec


(* Keys *)

\* A request has the key of a pending object or one of its own; a Job has its own.
\* What finalization accepted of a score is sound, until someone removes it.
Key(r) ==
  /\ keyOf[r] \in Pending \cup {r, None}
  /\ pc[r] = "idle" => keyOf[r] = None
  /\ pc[r] \in {"lookup", "resolve", "find", "validate", "reject"} => Direct(r)
  /\ pc[r] \in {"validate", "reject"} => kind[keyOf[r]] = "score"
  /\ pc[r] = "reject" => object[keyOf[r]] \in {"broken", "none"}
  /\ Direct(r) /\ (pc[r] = "work" \/ target[r] # None) /\ kind[keyOf[r]] = "score" =>
       object[keyOf[r]] \in {"sound", "none"}
KeyInv ==
  /\ \A r \in Request : Key(r)
  /\ \A j \in Job : keyOf[j] \in {j, None}

\* Objects of pending keys only ever go.
PendingGoes == \A k \in Pending : object'[k] \in {object[k], "none"}

LEMMA PendingOnlyGoes ==
  ASSUME TypeOK, [Next]_vars
  PROVE  kind' = kind /\ PendingGoes
<1>a. Request \cap Pending = {} /\ Job \cap Pending = {}
  BY UploadAssumption
<1> DEFINE Goal == kind' = kind /\ PendingGoes
<1> SUFFICES Goal
  OBVIOUS
<1> USE DEF PendingGoes, TypeOK, StorageKey, VersionId, rows, request, deletion
<1>1. ASSUME NEW r \in Request, RequestStep(r) PROVE Goal
  <2>1. CASE CreateFails(r)
    BY <1>a, <2>1 DEF CreateFails
  <2>2. CASE ~CreateFails(r)
    BY <1>a, <1>1, <2>2
       DEF RequestStep, Finalize, Send, Check, Lookup, Resolve, Find, Validate, Reject,
           CreateWork, CreateArtifact, Put, CreateVersion, CreateRefused, UndoArtifact,
           UndoWork, UndoObject, ReadFails, ReplyLost, UndoFails
  <2> QED
    BY <2>1, <2>2
<1>2. ASSUME NEW j \in Job, JobStep(j) PROVE Goal
  BY <1>a, <1>2 DEF JobStep, StartJob, StoreOutput, PublishOutput
<1>3. ASSUME NEW d \in Deletion, DeletionStep(d) PROVE Goal
  BY <1>3 DEF DeletionStep, StartDelete, LoadArtifacts, LoadVersions, LoadJobs, DeleteWork,
              Deleted, RemoveBytes, RemovalFails, DeletionFails
<1>4. ASSUME NEW p \in Process, Die(p) PROVE Goal
  BY <1>4 DEF Die
<1>5. CASE UNCHANGED vars
  BY <1>5 DEF vars
<1> HIDE DEF Goal
<1> QED
  BY <1>1, <1>2, <1>3, <1>4, <1>5 DEF Next

LEMMA KeyRequest ==
  ASSUME TypeOK, TypeOK', NEW r \in Request, Form(r), Key(r), RequestStep(r),
         kind' = kind, PendingGoes
  PROVE  Key(r)'
<1>a. /\ None \notin Pending /\ r # None /\ r \notin Pending
      /\ r \in VersionId /\ r \in Process
      /\ \A k \in Pending : k \in StorageKey
  BY UploadAssumption DEF VersionId, Process, WorkId, StorageKey
<1> USE <1>a
<1> USE DEF Key, TypeOK, At, Goto, rows, request, Direct, PendingGoes
<1>1. ASSUME NEW w \in Work \cup {None}, NEW k \in Pending, Finalize(r, k, w) PROVE Key(r)'
  BY <1>1 DEF Finalize, Form, Early
<1>2. ASSUME NEW w \in Work \cup {None}, Send(r, w) PROVE Key(r)'
  BY <1>2 DEF Send, Form, Early
<1>3. CASE Check(r)
  BY <1>3 DEF Check, Form, Early
<1>4. CASE Lookup(r) \/ Resolve(r)
  BY <1>4 DEF Lookup, Resolve
<1>5. CASE Find(r)
  BY <1>5 DEF Find
<1>6. CASE Validate(r)
  BY <1>6 DEF Validate
<1>7. CASE Reject(r)
  BY <1>7 DEF Reject
<1>8. CASE CreateWork(r)
  BY <1>8 DEF CreateWork
<1>9. CASE CreateArtifact(r) \/ Put(r) \/ CreateVersion(r)
  BY <1>9 DEF CreateArtifact, Put, CreateVersion
<1>10. FirstUndo(r) \in UndoStates \cup {"failed"} /\ AfterArtifact(r) \in UndoStates \cup {"failed"}
        /\ AfterWork(r) \in UndoStates \cup {"failed"}
  BY DEF FirstUndo, AfterArtifact, AfterWork, UndoStates
<1>11. CASE CreateRefused(r) \/ UndoArtifact(r) \/ UndoWork(r)
  BY <1>10, <1>11 DEF CreateRefused, UndoArtifact, UndoWork, UndoStates
<1>12. CASE UndoObject(r) \/ UndoFails(r)
  BY <1>10, <1>12 DEF UndoObject, UndoFails, UndoStates
<1>13. CASE ReadFails(r)
  BY <1>13 DEF ReadFails
<1>14. CASE CreateFails(r)
  BY <1>10, <1>14 DEF CreateFails, UndoStates
<1>15. CASE ReplyLost(r)
  BY <1>10, <1>15 DEF ReplyLost, UndoStates
<1> HIDE DEF Key
<1> QED
  BY <1>1, <1>2, <1>3, <1>4, <1>5, <1>6, <1>7, <1>8, <1>9, <1>11, <1>12, <1>13, <1>14, <1>15
     DEF RequestStep

LEMMA KeyNext == TypeOK /\ TypeOK' /\ FormInv /\ KeyInv /\ [Next]_vars => KeyInv'
<1> SUFFICES ASSUME TypeOK, TypeOK', FormInv, KeyInv, [Next]_vars
             PROVE  KeyInv'
  OBVIOUS
<1>1. kind' = kind /\ PendingGoes
  BY PendingOnlyGoes
<1>2. ASSUME NEW r \in Request PROVE Key(r)'
  <2>1. r \in VersionId /\ r \notin Job /\ Form(r) /\ Key(r)
    BY UploadAssumption DEF VersionId, FormInv, KeyInv
  <2>2. CASE RequestStep(r)
    BY <1>1, <2>1, <2>2, KeyRequest
  <2>3. CASE Aside(r) /\ Waits(r)
    BY <1>1, <2>1, <2>3 DEF Waits, Key, Aside, Direct, PendingGoes
  <2> QED
    BY <2>1, <2>2, <2>3, Bystander
<1>3. ASSUME NEW j \in Job PROVE keyOf'[j] \in {j, None}
  <2>1. j \in VersionId /\ j \notin Request /\ keyOf[j] \in {j, None}
    BY UploadAssumption DEF VersionId, KeyInv
  <2>2. CASE JobStep(j)
    BY <2>1, <2>2 DEF JobStep, StartJob, StoreOutput, PublishOutput, request, TypeOK
  <2>3. CASE Aside(j)
    BY <2>1, <2>3 DEF Aside
  <2> QED
    BY <2>1, <2>2, <2>3, Bystander
<1> QED
  BY <1>2, <1>3 DEF KeyInv

LEMMA KeyInit == TypeOK /\ Init => KeyInv
BY UploadAssumption DEF Init, KeyInv, Key, Direct, TypeOK, StorageKey, VersionId, WorkId, Process


(* Without a fault or a deletion nothing is taken back *)

LEMMA FaultsGrow == TypeOK /\ TypeOK' /\ [Next]_vars => faults' \in Nat /\ faults \in Nat /\ faults <= faults'
<1> SUFFICES ASSUME TypeOK, TypeOK', [Next]_vars
             PROVE  faults' \in Nat /\ faults \in Nat /\ faults <= faults'
  OBVIOUS
<1>1. faults' \in Nat /\ faults \in Nat
  BY UploadAssumption DEF TypeOK
<1>2. ASSUME NEW r \in Request, RequestStep(r) PROVE faults' = faults \/ faults' = faults + 1
  BY <1>2 DEF RequestStep, Finalize, Send, Check, Lookup, Resolve, Find, Validate, Reject,
           CreateWork, CreateArtifact, Put, CreateVersion, CreateRefused, UndoArtifact,
           UndoWork, UndoObject, ReadFails, CreateFails, ReplyLost, UndoFails, Fail
<1>3. ASSUME NEW j \in Job, JobStep(j) PROVE faults' = faults
  BY <1>3 DEF JobStep, StartJob, StoreOutput, PublishOutput
<1>4. ASSUME NEW d \in Deletion, DeletionStep(d) PROVE faults' = faults \/ faults' = faults + 1
  BY <1>4 DEF DeletionStep, StartDelete, LoadArtifacts, LoadVersions, LoadJobs, DeleteWork,
              Deleted, RemoveBytes, RemovalFails, DeletionFails, Fail
<1>5. ASSUME NEW p \in Process, Die(p) PROVE faults' = faults + 1
  BY <1>5 DEF Die, Fail
<1>6. CASE UNCHANGED vars
  BY <1>1, <1>6 DEF vars
<1> QED
  BY <1>1, <1>2, <1>3, <1>4, <1>5, <1>6 DEF Next

LEMMA DisturbedStays == TypeOK /\ TypeOK' /\ Disturbed /\ [Next]_vars => Disturbed'
<1> SUFFICES ASSUME TypeOK, TypeOK', Disturbed, [Next]_vars PROVE Disturbed'
  OBVIOUS
<1>1. CASE faults > 0
  BY <1>1, FaultsGrow DEF Disturbed
<1>2. ASSUME NEW d \in Deletion, pc[d] # "idle" PROVE pc'[d] # "idle"
  <2> USE <1>2, UploadAssumption DEF TypeOK, At, Goto, Process, VersionId
  <2>1. ASSUME NEW r \in Request, RequestStep(r) PROVE pc'[d] = pc[d]
    <3>1. r # d
      OBVIOUS
    <3> QED
      BY <2>1, <3>1 DEF RequestStep, Finalize, Send, Check, Lookup, Resolve, Find, Validate, Reject,
           CreateWork, CreateArtifact, Put, CreateVersion, CreateRefused, UndoArtifact,
           UndoWork, UndoObject, ReadFails, CreateFails, ReplyLost, UndoFails
  <2>2. ASSUME NEW j \in Job, JobStep(j) PROVE pc'[d] = pc[d]
    BY <2>2 DEF JobStep, StartJob, StoreOutput, PublishOutput
  <2>3. ASSUME NEW e \in Deletion, DeletionStep(e) PROVE pc'[d] # "idle"
    BY <2>3 DEF DeletionStep, StartDelete, LoadArtifacts, LoadVersions, LoadJobs, DeleteWork,
              Deleted, RemoveBytes, RemovalFails, DeletionFails
  <2>4. ASSUME NEW p \in Process, Die(p) PROVE pc'[d] # "idle"
    BY <2>4 DEF Die
  <2>5. CASE UNCHANGED vars
    BY <2>5 DEF vars
  <2> QED
    BY <2>1, <2>2, <2>3, <2>4, <2>5 DEF Next
<1> QED
  BY <1>1, <1>2 DEF Disturbed

Calm(r) ==
  /\ pc[r] \notin UndoStates
  /\ target[r] # None => target[r] \in works
  /\ pc[r] \in {"put", "version"} => home[r] # None
CalmInv == ~Disturbed => Work \subseteq works /\ \A r \in Request : Calm(r)

LEMMA CalmInit == Init => CalmInv
BY UploadAssumption DEF Init, CalmInv, Calm, UndoStates, VersionId, Process

LEMMA CalmStep ==
  ASSUME TypeOK, TypeOK', NEW r \in Request, Form(r), Calm(r), RequestStep(r),
         Work \subseteq works, faults' = faults
  PROVE  Work \subseteq works' /\ Calm(r)'
<1>a. /\ None \notin works /\ asked[r] \in Work \cup {None} /\ r # None
      /\ r \in VersionId /\ r \in Process /\ faults \in Nat
  BY UploadAssumption DEF TypeOK, WorkId, VersionId, Process
<1> DEFINE Goal == Work \subseteq works' /\ Calm(r)'
<1> SUFFICES Goal
  OBVIOUS
<1> USE <1>a
<1> USE DEF Calm, TypeOK, At, Goto, rows, request, UndoStates
<1>1. ASSUME NEW w \in Work \cup {None}, NEW k \in Pending, Finalize(r, k, w) PROVE Goal
  BY <1>1 DEF Finalize
<1>2. ASSUME NEW w \in Work \cup {None}, Send(r, w) PROVE Goal
  BY <1>2 DEF Send
<1>3. CASE Check(r) \/ Lookup(r) \/ Resolve(r) \/ Find(r) \/ Validate(r) \/ Reject(r)
  BY <1>3 DEF Check, Lookup, Resolve, Find, Validate, Reject
<1>4. CASE CreateWork(r)
  BY <1>4 DEF CreateWork
<1>5. CASE CreateArtifact(r)
  BY <1>5 DEF CreateArtifact, Form
<1>6. CASE Put(r) \/ CreateVersion(r)
  BY <1>6, <1>5 DEF Put, CreateVersion
<1>7. ~CreateRefused(r) /\ ~UndoArtifact(r) /\ ~UndoWork(r) /\ ~UndoObject(r)
  BY DEF CreateRefused, UndoArtifact, UndoWork, UndoObject, Form
<1>8. ~ReadFails(r) /\ ~CreateFails(r) /\ ~ReplyLost(r) /\ ~UndoFails(r)
  BY DEF ReadFails, CreateFails, ReplyLost, UndoFails, Fail
<1> HIDE DEF Goal
<1> QED
  BY <1>1, <1>2, <1>3, <1>4, <1>5, <1>6, <1>7, <1>8 DEF RequestStep

LEMMA CalmNext == TypeOK /\ TypeOK' /\ FormInv /\ CalmInv /\ [Next]_vars => CalmInv'
<1> SUFFICES ASSUME TypeOK, TypeOK', FormInv, CalmInv, [Next]_vars, ~Disturbed'
             PROVE  Work \subseteq works' /\ \A r \in Request : Calm(r)'
  BY DEF CalmInv
<1>1. ~Disturbed /\ Work \subseteq works /\ \A r \in Request : Calm(r)
  BY DisturbedStays DEF CalmInv
<1>2. faults = 0 /\ faults' = 0
  BY <1>1, FaultsGrow DEF Disturbed
<1>3. ASSUME NEW q \in Request, RequestStep(q)
      PROVE  Work \subseteq works' /\ \A r \in Request : Calm(r)'
  <2>1. Work \subseteq works' /\ Calm(q)' /\ Form(q)
    BY <1>1, <1>2, <1>3, CalmStep DEF FormInv
  <2>2. ASSUME NEW r \in Request, r # q PROVE Calm(r)'
    <3>1. r \in VersionId /\ Form(r) /\ asked[r] \in Work \cup {None} /\ Calm(r)
      BY <1>1 DEF VersionId, FormInv, TypeOK
    <3>2. Aside(r) /\ pc'[r] = pc[r]
      BY <1>3, <2>2, <3>1, OthersAreAside
    <3>3. works \subseteq works'
      BY <1>1, <1>2, <1>3, UploadAssumption
         DEF RequestStep, Finalize, Send, Check, Lookup, Resolve, Find, Validate, Reject,
           CreateWork, CreateArtifact, Put, CreateVersion, CreateRefused, UndoArtifact,
           UndoWork, UndoObject, ReadFails, CreateFails, ReplyLost, UndoFails, Fail, rows,
           Calm, At, UndoStates
    <3> QED
      BY <3>1, <3>2, <3>3 DEF Calm, Aside, Form
  <2> QED
    BY <2>1, <2>2
<1>4. ASSUME NEW j \in Job, JobStep(j)
      PROVE  Work \subseteq works' /\ \A r \in Request : Calm(r)'
  <2>1. works' = works
    BY <1>4 DEF JobStep, StartJob, StoreOutput, PublishOutput, rows
  <2>2. ASSUME NEW r \in Request PROVE Calm(r)'
    <3>1. r \in VersionId /\ j # r /\ Form(r) /\ Calm(r)
      BY <1>1, UploadAssumption DEF VersionId, FormInv
    <3>2. Aside(r) /\ pc'[r] = pc[r]
      BY <1>4, <3>1, JobsAreAside
    <3> QED
      BY <2>1, <3>1, <3>2 DEF Calm, Aside, Form
  <2> QED
    BY <1>1, <2>1, <2>2
<1>5. ASSUME NEW d \in Deletion, DeletionStep(d) PROVE FALSE
  <2>1. pc[d] = "idle" /\ d \in Process
    BY <1>1 DEF Disturbed, Process
  <2>2. PICK w \in WorkId : StartDelete(d, w)
    BY <1>5, <2>1 DEF DeletionStep, LoadArtifacts, LoadVersions, LoadJobs, DeleteWork,
              Deleted, RemoveBytes, RemovalFails, DeletionFails, At
  <2>3. pc'[d] = "artifacts"
    BY <2>1, <2>2 DEF StartDelete, Goto, TypeOK
  <2> QED
    BY <2>3 DEF Disturbed
<1>6. ASSUME NEW p \in Process, Die(p) PROVE FALSE
  BY <1>2, <1>6 DEF Die, Fail
<1>7. CASE UNCHANGED vars
  BY <1>1, <1>7 DEF vars, Calm
<1> QED
  BY <1>3, <1>4, <1>5, <1>6, <1>7 DEF Next


(* What a deletion has read *)

\* The states after the insert of the Version, and those after that of the Artifact.
Late   == UndoStates \cup EndStates
Owning == Late \cup {"put", "version"}

\* A Version has an Artifact, and both belong to someone past their inserts.
Rows(v) ==
  /\ v \in versions => home[v] # None /\ pc[v] \in Late
  /\ home[v] # None => pc[v] \in Owning
RowsInv == \A v \in VersionId : Rows(v)

\* Rows that are gone never come back under the same name.
Onward(v) ==
  /\ pc[v] \in Late => pc'[v] \in Late /\ (v \in versions' => v \in versions)
  /\ pc[v] \in Owning => pc'[v] \in Owning /\ home'[v] \in {home[v], None}
  /\ v \in Request /\ target[v] # None => target'[v] = target[v]

LEMMA RequestsGoOn ==
  ASSUME TypeOK, TypeOK', NEW r \in Request, Form(r), Rows(r), RequestStep(r)
  PROVE  Onward(r) /\ Rows(r)'
<1>a. r \in VersionId /\ r \in Process /\ r # None /\ None \notin works
  BY UploadAssumption DEF TypeOK, WorkId, VersionId, Process
<1> DEFINE Goal == Onward(r) /\ Rows(r)'
<1> SUFFICES Goal
  OBVIOUS
<1> USE <1>a
<1> USE DEF Onward, Rows, TypeOK, At, Goto, rows, request, Owning, Late, EndStates
<1>1. ASSUME NEW w \in Work \cup {None}, NEW k \in Pending, Finalize(r, k, w) PROVE Goal
  BY <1>1 DEF Finalize, UndoStates
<1>2. ASSUME NEW w \in Work \cup {None}, Send(r, w) PROVE Goal
  BY <1>2 DEF Send, UndoStates
<1>3. CASE Check(r) \/ Lookup(r) \/ Resolve(r)
  BY <1>3 DEF Check, Lookup, Resolve, UndoStates
<1>4. CASE Find(r) \/ Validate(r) \/ Reject(r) \/ ReadFails(r)
  BY <1>4 DEF Find, Validate, Reject, ReadFails, UndoStates
<1>5. CASE CreateWork(r)
  BY <1>5 DEF CreateWork, Form, Early, UndoStates
<1>6. CASE CreateArtifact(r)
  BY <1>6 DEF CreateArtifact, Form, UndoStates
<1>7. CASE Put(r) \/ CreateVersion(r)
  BY <1>7 DEF Put, CreateVersion, UndoStates
<1>8. FirstUndo(r) \in UndoStates \cup {"failed"} /\ AfterArtifact(r) \in UndoStates \cup {"failed"}
        /\ AfterWork(r) \in UndoStates \cup {"failed"}
  BY DEF FirstUndo, AfterArtifact, AfterWork, UndoStates
<1>9. CASE CreateRefused(r)
  BY <1>8, <1>9 DEF CreateRefused
<1>10. CASE UndoArtifact(r)
  BY <1>8, <1>10 DEF UndoArtifact, DropArtifacts, UndoStates
<1>11. CASE UndoWork(r)
  BY <1>8, <1>11 DEF UndoWork, DropWork, DropArtifacts, InWork, UndoStates
<1>12. CASE UndoObject(r) \/ UndoFails(r)
  BY <1>8, <1>12 DEF UndoObject, UndoFails, UndoStates
<1>13. CASE CreateFails(r)
  BY <1>8, <1>13 DEF CreateFails, Form, UndoStates
<1>14. CASE ReplyLost(r)
  <2>1. CASE At(r, "work")
    BY <1>14, <2>1 DEF ReplyLost, UndoStates
  <2>2. CASE At(r, "artifact")
    BY <1>8, <1>14, <2>2 DEF ReplyLost, Form, UndoStates
  <2>3. CASE At(r, "version")
    BY <1>8, <1>14, <2>3 DEF ReplyLost, UndoStates
  <2> QED
    BY <1>14, <2>1, <2>2, <2>3 DEF ReplyLost
<1> HIDE DEF Goal
<1> QED
  BY <1>1, <1>2, <1>3, <1>4, <1>5, <1>6, <1>7, <1>9, <1>10, <1>11, <1>12, <1>13, <1>14
     DEF RequestStep

LEMMA GoOn ==
  ASSUME TypeOK, TypeOK', FormInv, RowsInv, NEW v \in VersionId, [Next]_vars
  PROVE  Onward(v) /\ Rows(v)'
<1>1. Rows(v)
  BY DEF RowsInv
<1>2. CASE v \in Request /\ RequestStep(v)
  BY <1>1, <1>2, RequestsGoOn DEF FormInv
<1>3. CASE v \in Job /\ JobStep(v)
  <2>1. v \notin Request /\ v \in Process /\ None \notin works
    BY <1>3, UploadAssumption DEF TypeOK, WorkId, Process
  <2> QED
    BY <1>1, <1>3, <2>1 DEF JobStep, StartJob, StoreOutput, PublishOutput, Onward, Rows, TypeOK,
       At, Goto, rows, request, Owning, Late, EndStates, UndoStates
<1>4. CASE Aside(v) /\ Waits(v)
  BY <1>1, <1>4 DEF Waits, Aside, Onward, Rows, Owning, Late, EndStates
<1> QED
  BY <1>2, <1>3, <1>4, Bystander

\* What a deletion has read can only have lost rows since, and what it still has to
\* clean up is no Version any more, for good.
Snapshot(d) ==
  /\ pc[d] = "idle" => seenArtifacts[d] = {} /\ seen[d] = {}
  /\ pc[d] = "artifacts" => doomed[d] # None
  /\ \A v \in seenArtifacts[d] : pc[v] \in Owning /\ home[v] \in {None, doomed[d]}
  /\ \A v \in seen[d] : pc[v] \in Late /\ home[v] \in {None, doomed[d]}
                          /\ (v \in Request => target[v] # None)
  /\ \A v \in todo[d] : pc[v] \in Late /\ v \notin versions /\ (v \in Request => target[v] # None)
SnapshotInv == \A d \in Deletion : Snapshot(d)

LEMMA SnapshotKept ==
  ASSUME TypeOK, NEW d \in Deletion, Snapshot(d), \A v \in VersionId : Onward(v),
         UNCHANGED <<doomed[d], seenArtifacts[d], seen[d], todo[d]>>,
         pc'[d] \in {pc[d], "dead"}
  PROVE  Snapshot(d)'
<1>1. /\ doomed'[d] = doomed[d] /\ seenArtifacts'[d] = seenArtifacts[d]
      /\ seen'[d] = seen[d] /\ todo'[d] = todo[d]
  OBVIOUS
<1>2. /\ seenArtifacts[d] \subseteq VersionId /\ seen[d] \subseteq VersionId
      /\ todo[d] \subseteq VersionId
  BY DEF TypeOK
<1>3. \A v \in seenArtifacts[d] : pc'[v] \in Owning /\ home'[v] \in {None, doomed[d]}
  BY <1>2 DEF Snapshot, Onward
<1>4. \A v \in seen[d] : pc'[v] \in Late /\ home'[v] \in {None, doomed[d]}
                          /\ (v \in Request => target'[v] # None)
  BY <1>2 DEF Snapshot, Onward, Owning
<1>5. \A v \in todo[d] : pc'[v] \in Late /\ v \notin versions'
                          /\ (v \in Request => target'[v] # None)
  BY <1>2 DEF Snapshot, Onward
<1> QED
  BY <1>1, <1>3, <1>4, <1>5 DEF Snapshot

LEMMA SnapshotStep ==
  ASSUME TypeOK, TypeOK', FormInv, RowsInv, NEW d \in Deletion, Snapshot(d), DeletionStep(d),
         \A v \in VersionId : Onward(v)
  PROVE  Snapshot(d)'
<1>a. /\ d \in Process /\ d \notin VersionId /\ None \notin WorkId /\ Request \subseteq VersionId
      /\ \A v \in Request : home[v] \in {None, target[v]}
      /\ \A v \in versions : v \in VersionId /\ home[v] # None /\ pc[v] \in Late
      /\ \A v \in VersionId : home[v] # None => pc[v] \in Owning
  BY UploadAssumption DEF Process, VersionId, FormInv, Form, RowsInv, Rows, TypeOK
<1>b. \A v \in VersionId : pc[v] \in Owning => pc'[v] \in Owning
  BY DEF Onward
<1>1. ASSUME NEW w \in WorkId, StartDelete(d, w) PROVE Snapshot(d)'
  <2>1. seenArtifacts'[d] = {} /\ seen'[d] = {} /\ todo'[d] = todo[d]
        /\ pc'[d] # "idle" /\ doomed'[d] # None
    BY <1>1, <1>a DEF StartDelete, Snapshot, At, Goto, TypeOK
  <2>2. \A v \in todo[d] : v \in VersionId
    BY DEF TypeOK
  <2>3. \A v \in todo[d] : pc'[v] \in Late /\ v \notin versions'
                          /\ (v \in Request => target'[v] # None)
    BY <2>2 DEF Snapshot, Onward
  <2> QED
    BY <2>1, <2>3 DEF Snapshot
<1>2. CASE LoadArtifacts(d)
  <2>1. /\ pc[d] = "artifacts" /\ pc'[d] # "idle" /\ doomed' = doomed /\ home' = home
        /\ seen' = seen /\ todo' = todo /\ versions' = versions /\ target' = target
        /\ seenArtifacts'[d] = InWork(doomed[d])
        /\ \A v \in VersionId : pc'[v] = pc[v]
    BY <1>2, <1>a DEF LoadArtifacts, At, Goto, TypeOK, rows, request
  <2>2. doomed[d] # None
    BY <2>1 DEF Snapshot
  <2>3. \A v \in InWork(doomed[d]) : pc'[v] \in Owning /\ home'[v] = doomed'[d]
    BY <1>a, <2>1, <2>2 DEF InWork
  <2>4. \A v \in seen[d] \cup todo[d] : v \in VersionId
    BY DEF TypeOK
  <2>5. pc'[d] # "artifacts"
    BY <1>2 DEF LoadArtifacts, Goto, At, TypeOK
  <2> QED
    BY <2>1, <2>3, <2>4, <2>5 DEF Snapshot
<1>3. CASE LoadVersions(d)
  <2>1. /\ pc'[d] \notin {"idle", "artifacts"} /\ doomed' = doomed /\ home' = home
        /\ seenArtifacts' = seenArtifacts /\ todo' = todo /\ versions' = versions
        /\ target' = target /\ seen'[d] = seenArtifacts[d] \cap versions
        /\ \A v \in VersionId : pc'[v] = pc[v]
    BY <1>3, <1>a DEF LoadVersions, At, Goto, TypeOK, rows, request, Process
  <2>2. \A v \in seen'[d] : pc'[v] \in Late /\ home'[v] \in {None, doomed'[d]}
                          /\ (v \in Request => target'[v] # None)
    BY <1>a, <2>1 DEF Snapshot
  <2>3. \A v \in seenArtifacts[d] \cup todo[d] : v \in VersionId
    BY DEF TypeOK
  <2> QED
    BY <2>1, <2>2, <2>3 DEF Snapshot
<1>4. CASE LoadJobs(d)
  <2>1. pc[d] # "idle" /\ pc'[d] = "delete"
        /\ UNCHANGED <<doomed, home, seenArtifacts, seen, todo, versions, target>>
        /\ \A v \in VersionId : pc'[v] = pc[v]
    BY <1>4, <1>a DEF LoadJobs, At, Goto, TypeOK, rows, request, Process
  <2>2. \A v \in seenArtifacts[d] \cup seen[d] \cup todo[d] : v \in VersionId
    BY DEF TypeOK
  <2> QED
    BY <2>1, <2>2 DEF Snapshot
<1>5. CASE DeleteWork(d)
  <2>1. /\ pc'[d] \notin {"idle", "artifacts"}
        /\ doomed' = doomed /\ seenArtifacts' = seenArtifacts /\ seen' = seen
    BY <1>5, <1>a DEF DeleteWork, At, Goto, TypeOK, rows, request, Process
  <2>2. \A v \in seenArtifacts[d] : pc'[v] \in Owning /\ home'[v] \in {None, doomed[d]}
    BY DEF Snapshot, Onward, TypeOK
  <2>3. \A v \in seen[d] : pc'[v] \in Late /\ home'[v] \in {None, doomed[d]}
                          /\ (v \in Request => target'[v] # None)
    BY DEF Snapshot, Onward, Owning, TypeOK
  <2>4. CASE doomed[d] \in works
    <3>1. DropWork(doomed[d]) /\ todo'[d] \subseteq seen[d]
      BY <1>5, <2>4 DEF DeleteWork, TypeOK
    <3>2. \A v \in seen[d] : v \notin versions'
      BY <1>a, <3>1 DEF DropWork, DropArtifacts, InWork, Snapshot, TypeOK
    <3> QED
      BY <2>1, <2>2, <2>3, <3>1, <3>2 DEF Snapshot
  <2>5. CASE doomed[d] \notin works
    <3>1. todo' = todo
      BY <1>5, <2>5 DEF DeleteWork
    <3>2. \A v \in todo[d] : pc'[v] \in Late /\ v \notin versions'
                          /\ (v \in Request => target'[v] # None)
      BY DEF Snapshot, Onward, TypeOK
    <3> QED
      BY <2>1, <2>2, <2>3, <3>1, <3>2 DEF Snapshot
  <2> QED
    BY <2>4, <2>5
<1>6. ASSUME Deleted(d) \/ DeletionFails(d) \/ \E v \in VersionId : RemoveBytes(d, v) \/ RemovalFails(d, v)
      PROVE  Snapshot(d)'
  <2>1. /\ pc'[d] \notin {"idle", "artifacts"}
        /\ doomed' = doomed /\ seenArtifacts' = seenArtifacts /\ seen' = seen
        /\ todo'[d] \subseteq todo[d]
    BY <1>6, <1>a DEF Deleted, DeletionFails, RemoveBytes, RemovalFails, At, Goto, TypeOK, deletion, Process
  <2>2. \A v \in seenArtifacts[d] : pc'[v] \in Owning /\ home'[v] \in {None, doomed[d]}
    BY DEF Snapshot, Onward, TypeOK
  <2>3. \A v \in seen[d] : pc'[v] \in Late /\ home'[v] \in {None, doomed[d]}
                          /\ (v \in Request => target'[v] # None)
    BY DEF Snapshot, Onward, Owning, TypeOK
  <2>4. \A v \in todo[d] : pc'[v] \in Late /\ v \notin versions'
                          /\ (v \in Request => target'[v] # None)
    BY DEF Snapshot, Onward, TypeOK
  <2> QED
    BY <2>1, <2>2, <2>3, <2>4 DEF Snapshot
<1> QED
  BY <1>1, <1>2, <1>3, <1>4, <1>5, <1>6 DEF DeletionStep

LEMMA DeletionWaits ==
  ASSUME TypeOK, NEW d \in Deletion, ~DeletionStep(d), [Next]_vars
  PROVE  /\ doomed'[d] = doomed[d] /\ seenArtifacts'[d] = seenArtifacts[d] /\ seen'[d] = seen[d]
         /\ seenJobs'[d] = seenJobs[d] /\ todo'[d] = todo[d]
         /\ pc'[d] = pc[d] \/ (pc'[d] = "dead" /\ faults' = faults + 1)
<1> DEFINE Same == /\ doomed'[d] = doomed[d] /\ seenArtifacts'[d] = seenArtifacts[d]
                   /\ seen'[d] = seen[d] /\ seenJobs'[d] = seenJobs[d] /\ todo'[d] = todo[d]
                   /\ pc'[d] = pc[d] \/ (pc'[d] = "dead" /\ faults' = faults + 1)
<1> SUFFICES Same
  OBVIOUS
<1>1. ASSUME NEW r \in Request, RequestStep(r) PROVE Same
  <2>1. r # d /\ d \in Process
    BY UploadAssumption DEF Process
  <2> QED
    BY <1>1, <2>1
       DEF RequestStep, Finalize, Send, Check, Lookup, Resolve, Find, Validate, Reject,
         CreateWork, CreateArtifact, Put, CreateVersion, CreateRefused, UndoArtifact,
         UndoWork, UndoObject, ReadFails, CreateFails, ReplyLost, UndoFails, Goto, deletion, TypeOK
<1>2. ASSUME NEW j \in Job, JobStep(j) PROVE Same
  <2>1. j # d /\ d \in Process
    BY UploadAssumption DEF Process
  <2> QED
    BY <1>2, <2>1 DEF JobStep, StartJob, StoreOutput, PublishOutput, Goto, deletion, TypeOK
<1>3. ASSUME NEW e \in Deletion, DeletionStep(e) PROVE Same
  <2>1. e # d /\ d \in Process
    BY <1>3 DEF Process
  <2> QED
    BY <1>3, <2>1
       DEF DeletionStep, StartDelete, LoadArtifacts, LoadVersions, LoadJobs, DeleteWork,
           Deleted, RemoveBytes, RemovalFails, DeletionFails, Goto, deletion, TypeOK
<1>4. ASSUME NEW p \in Process, Die(p) PROVE Same
  BY <1>4 DEF Die, Fail, Goto, deletion, TypeOK
<1>5. CASE UNCHANGED vars
  BY <1>5 DEF vars
<1> QED
  BY <1>1, <1>2, <1>3, <1>4, <1>5 DEF Next

LEMMA SnapshotNext ==
  ASSUME TypeOK, TypeOK', FormInv, RowsInv, SnapshotInv, [Next]_vars
  PROVE  SnapshotInv'
<1> SUFFICES ASSUME NEW d \in Deletion PROVE Snapshot(d)'
  BY DEF SnapshotInv
<1>1. Snapshot(d) /\ \A v \in VersionId : Onward(v)
  BY GoOn DEF SnapshotInv
<1>2. CASE DeletionStep(d)
  BY <1>1, <1>2, SnapshotStep
<1>3. CASE ~DeletionStep(d)
  BY <1>1, <1>3, DeletionWaits, SnapshotKept
<1> QED
  BY <1>2, <1>3

(* Bytes *)

\* Only a failed call brings an upload to take back something before it has a Work.
Paid(r) == pc[r] \in UndoStates /\ target[r] = None => faults >= 1
PaidInv == \A r \in Request : Paid(r)

LEMMA PaidNext ==
  ASSUME TypeOK, TypeOK', FormInv, PaidInv, [Next]_vars
  PROVE  PaidInv'
<1> SUFFICES ASSUME NEW r \in Request PROVE Paid(r)'
  BY DEF PaidInv
<1>1. r \in VersionId /\ r \in Process /\ r \notin Job /\ Form(r) /\ Paid(r)
  BY UploadAssumption DEF VersionId, Process, FormInv, PaidInv
<1>2. faults \in Nat /\ faults' \in Nat /\ faults <= faults'
  BY FaultsGrow
<1>3. target[r] # None => target'[r] # None
  <2>1. CASE RequestStep(r)
    BY <1>1, <2>1 DEF RequestStep, Finalize, Send, Check, Lookup, Resolve, Find, Validate, Reject,
           CreateWork, CreateArtifact, Put, CreateVersion, CreateRefused, UndoArtifact,
           UndoWork, UndoObject, ReadFails, CreateFails, ReplyLost, UndoFails, request, At, Form, Early
  <2>2. CASE Aside(r)
    BY <2>2 DEF Aside
  <2> QED
    BY <1>1, <2>1, <2>2, Bystander
<1>4. pc'[r] \in UndoStates /\ pc[r] \notin UndoStates => target[r] # None \/ faults' = faults + 1
  <2>1. CASE RequestStep(r)
    <3>1. (~UndoArtifact(r) /\ ~UndoWork(r) /\ ~UndoObject(r)) \/ pc[r] \in UndoStates
      BY DEF UndoArtifact, UndoWork, UndoObject, At, UndoStates
    <3>2. CASE CreateRefused(r)
      BY <1>1, <3>2 DEF CreateRefused, At, Form
    <3>3. CASE CreateFails(r) \/ ReplyLost(r) \/ ReadFails(r) \/ UndoFails(r)
      BY <3>3 DEF CreateFails, ReplyLost, ReadFails, UndoFails, Fail
    <3>4. ASSUME \/ Check(r) \/ Lookup(r) \/ Resolve(r) \/ Find(r) \/ Validate(r) \/ Reject(r)
                 \/ CreateWork(r) \/ CreateArtifact(r) \/ Put(r) \/ CreateVersion(r)
                 \/ \E w \in Work \cup {None} : (\E k \in Pending : Finalize(r, k, w)) \/ Send(r, w)
          PROVE  pc'[r] \notin UndoStates
      BY <1>1, <3>4 DEF Finalize, Send, Check, Lookup, Resolve, Find, Validate, Reject,
           CreateWork, CreateArtifact, Put, CreateVersion, Goto, TypeOK, UndoStates
    <3> QED
      BY <2>1, <3>1, <3>2, <3>3, <3>4 DEF RequestStep
  <2>2. CASE Aside(r) /\ Waits(r)
    BY <2>2 DEF Waits, UndoStates
  <2> QED
    BY <1>1, <2>1, <2>2, Bystander
<1> QED
  BY <1>1, <1>2, <1>3, <1>4 DEF Paid

\* Who can take bytes away.
LEMMA BytesGo ==
  ASSUME TypeOK, [Next]_vars, NEW k \in StorageKey, HasBytes(k), ~HasBytes(k)'
  PROVE  \/ \E q \in Request : (Reject(q) \/ UndoObject(q)) /\ keyOf[q] = k
         \/ \E d \in Deletion, v \in VersionId : RemoveBytes(d, v) /\ keyOf[v] = k
<1> USE DEF HasBytes, TypeOK
<1>1. ASSUME NEW r \in Request, RequestStep(r)
      PROVE  (Reject(r) \/ UndoObject(r)) /\ keyOf[r] = k
  <2>1. CASE CreateFails(r)
    BY <2>1 DEF CreateFails
  <2>2. CASE Put(r)
    BY <2>2 DEF Put
  <2>3. CASE Reject(r) \/ UndoObject(r)
    BY <2>3 DEF Reject, UndoObject
  <2>4. CASE ~(CreateFails(r) \/ Put(r) \/ Reject(r) \/ UndoObject(r))
    BY <1>1, <2>4
       DEF RequestStep, Finalize, Send, Check, Lookup, Resolve, Find, Validate,
           CreateWork, CreateArtifact, CreateVersion, CreateRefused, UndoArtifact,
           UndoWork, ReadFails, ReplyLost, UndoFails
  <2> QED
    BY <2>1, <2>2, <2>3, <2>4
<1>2. ASSUME NEW j \in Job, JobStep(j) PROVE FALSE
  BY <1>2 DEF JobStep, StartJob, StoreOutput, PublishOutput
<1>3. ASSUME NEW d \in Deletion, DeletionStep(d)
      PROVE  \E v \in VersionId : RemoveBytes(d, v) /\ keyOf[v] = k
  <2>1. CASE \E v \in VersionId : RemoveBytes(d, v)
    BY <2>1 DEF RemoveBytes
  <2>2. CASE ~\E v \in VersionId : RemoveBytes(d, v)
    BY <1>3, <2>2 DEF DeletionStep, StartDelete, LoadArtifacts, LoadVersions, LoadJobs,
              DeleteWork, Deleted, RemovalFails, DeletionFails
  <2> QED
    BY <2>1, <2>2
<1>4. ASSUME NEW p \in Process, Die(p) PROVE FALSE
  BY <1>4 DEF Die
<1>5. CASE UNCHANGED vars
  BY <1>5 DEF vars
<1> QED
  BY <1>1, <1>2, <1>3, <1>4, <1>5 DEF Next


\* All that is known of a state without its bytes.
Known == TypeOK /\ FormInv /\ KeyInv /\ CalmInv /\ RowsInv /\ SnapshotInv /\ PaidInv

\* The key of a request that has one does not change.
LEMMA KeyStays ==
  ASSUME Known, TypeOK', [Next]_vars, NEW q \in Request, Direct(q)
  PROVE  keyOf'[q] = keyOf[q]
<1>1. /\ q \in VersionId /\ q \notin Job /\ Form(q) /\ Key(q) /\ TypeOK /\ None \notin Pending
  BY UploadAssumption DEF VersionId, StorageKey, Known, FormInv, KeyInv
<1>2. CASE RequestStep(q)
  BY <1>1, <1>2 DEF RequestStep, Finalize, Send, Check, Lookup, Resolve, Find, Validate, Reject,
           CreateWork, CreateArtifact, Put, CreateVersion, CreateRefused, UndoArtifact,
           UndoWork, UndoObject, ReadFails, CreateFails, ReplyLost, UndoFails, request, At, Form,
           Key, Direct
<1>3. CASE Aside(q)
  BY <1>3 DEF Aside
<1> QED
  BY <1>1, <1>2, <1>3, Bystander

LEMMA EnteredStays ==
  ASSUME Known, TypeOK', [Next]_vars, NEW q \in Request, Entered(q), faults' <= 1
  PROVE  Entered(q)'
<1>1. /\ q \in VersionId /\ q \in Process /\ q \notin Job /\ TypeOK /\ Paid(q) /\ Onward(q)
  BY UploadAssumption, GoOn DEF VersionId, Process, Known, PaidInv
<1>2. faults \in Nat /\ faults' \in Nat
  BY <1>1, FaultsGrow
<1>3. CASE target[q] # None
  BY <1>1, <1>3 DEF Onward, Entered
<1>4. CASE target[q] = None /\ pc[q] \in UndoStates \cup {"failed"}
  <2>1. CASE RequestStep(q)
    <3>1. AfterArtifact(q) \in UndoStates \cup {"failed"} /\ AfterWork(q) \in UndoStates \cup {"failed"}
      BY DEF AfterArtifact, AfterWork, UndoStates
    <3>2. UndoArtifact(q) \/ UndoWork(q) \/ UndoObject(q) \/ UndoFails(q)
      BY <1>4, <2>1 DEF RequestStep, Finalize, Send, Check, Lookup, Resolve, Find, Validate, Reject,
           CreateWork, CreateArtifact, Put, CreateVersion, CreateRefused,
           ReadFails, CreateFails, ReplyLost, At, UndoStates
    <3>3. pc'[q] \in UndoStates \cup {"failed"}
      BY <1>1, <1>4, <3>1, <3>2 DEF UndoArtifact, UndoWork, UndoObject, UndoFails, At, Goto, TypeOK,
         UndoStates
    <3> QED
      BY <3>3 DEF Entered
  <2>2. CASE Aside(q) /\ Waits(q)
    BY <1>2, <1>4, <1>1, <2>2 DEF Waits, Entered, Paid, EndStates
  <2> QED
    BY <1>1, <2>1, <2>2, Bystander
<1> QED
  BY <1>3, <1>4 DEF Entered

LEMMA RivalsStay ==
  ASSUME Known, TypeOK', [Next]_vars, NEW r \in Request, Direct(r), Rivals(r) # {}, faults' <= 1
  PROVE  Rivals(r)' # {}
<1>1. PICK q \in Request \ {r} : keyOf[q] = keyOf[r] /\ Entered(q)
  BY DEF Rivals
<1>2. keyOf'[q] = keyOf'[r]
  BY <1>1, KeyStays DEF Direct
<1>3. Entered(q)'
  BY <1>1, EnteredStays
<1> QED
  BY <1>1, <1>2, <1>3 DEF Rivals

\* A Version's bytes are there, or another finalization of the same object took them.
Served(r) == HasBytes(keyOf[r]) \/ (Rivals(r) # {} /\ Disturbed)

LEMMA ServedStays ==
  ASSUME Known, TypeOK', KeyInv', [Next]_vars, NEW r \in Request, Served(r),
         keyOf[r] \in Pending \cup {r}, keyOf'[r] = keyOf[r], faults' <= 1,
         pc[r] = "work" \/ target[r] # None,
         pc[r] \notin Late \/ (r \in versions /\ r \in versions' /\ pc'[r] \notin UndoStates)
  PROVE  Served(r)'
<1>1. /\ TypeOK /\ r \in VersionId /\ r \in Process /\ Key(r) /\ Form(r) /\ Undone(r)
      /\ keyOf[r] \in StorageKey /\ Disturbed \in BOOLEAN
  BY DEF Known, KeyInv, FormInv, VersionId, Process, StorageKey, Disturbed
<1>2. /\ \A q \in Request : Key(q) /\ q \in VersionId /\ q \in Process
      /\ \A j \in Job : keyOf[j] \in {j, None}
      /\ Request \cap Pending = {} /\ Job \cap Pending = {} /\ Request \cap Job = {}
      /\ None \notin Pending /\ None \notin Request
  BY UploadAssumption DEF Known, KeyInv, VersionId, Process, StorageKey, WorkId
<1>3. Disturbed => Disturbed'
  BY <1>1, DisturbedStays
<1>4. CASE Rivals(r) # {} /\ Disturbed
  <2>1. PICK q \in Request \ {r} : keyOf[q] = keyOf[r]
    BY <1>4 DEF Rivals
  <2>2. Direct(r)
    BY <1>2, <2>1 DEF Key, Direct
  <2> QED
    BY <1>3, <1>4, <2>2, RivalsStay DEF Served
<1>5. CASE HasBytes(keyOf[r]) /\ ~HasBytes(keyOf[r])'
  <2>1. PICK k \in StorageKey : k = keyOf[r]
    BY <1>1
  <2>2. HasBytes(k) /\ ~HasBytes(k)'
    BY <1>5, <2>1 DEF HasBytes
  <2>3. ASSUME NEW q \in Request, Reject(q), keyOf[q] = k PROVE FALSE
    <3>1. Key(q) /\ Key(r) /\ pc[q] = "reject"
      BY <1>2, <2>3 DEF Reject, At
    <3>2. k \in Pending /\ kind[k] = "score" /\ object[k] = "broken"
      BY <2>2, <2>3, <3>1 DEF Key, Direct, HasBytes
    <3> QED
      BY <2>1, <3>1, <3>2 DEF Key, Direct
  <2>4. ASSUME NEW q \in Request, UndoObject(q), keyOf[q] = k PROVE Served(r)'
    <3>1. q # r
      <4>1. SUFFICES ASSUME q = r PROVE FALSE
        OBVIOUS
      <4>2. pc[r] = "undo_object" /\ r \in versions /\ r \in versions' /\ versions' = versions
            /\ pc'[r] \notin UndoStates
        BY <2>4, <4>1 DEF UndoObject, At, rows, Late, UndoStates
      <4>3. Direct(r) /\ faults <= 1
        BY <1>1, <2>4, <4>1, <4>2 DEF UndoObject, Goto, TypeOK, UndoStates
      <4> QED
        BY <1>1, <4>2, <4>3 DEF Undone
    <3>2. Direct(q) /\ Direct(r)
      BY <1>2, <2>1, <2>4, <3>1 DEF Key, Direct
    <3>3. pc[q] \in UndoStates /\ pc'[q] = "failed" /\ keyOf' = keyOf
      BY <1>1, <1>2, <2>4, <3>2 DEF UndoObject, At, Goto, TypeOK, UndoStates, request
    <3>4. Disturbed
      BY <3>3 DEF Known, CalmInv, Calm
    <3>5. q \in Rivals(r)'
      BY <2>1, <2>4, <3>1, <3>3 DEF Rivals, Entered
    <3> QED
      BY <1>3, <3>4, <3>5 DEF Served
  <2>5. ASSUME NEW d \in Deletion, NEW v \in VersionId, RemoveBytes(d, v), keyOf[v] = k
        PROVE  Served(r)'
    <3>1. v \in todo[d] /\ pc[d] = "clean" /\ versions' = versions /\ keyOf' = keyOf /\ target' = target
      BY <2>5 DEF RemoveBytes, At, rows, request
    <3>2. pc[v] \in Late /\ v \notin versions /\ (v \in Request => target[v] # None)
      BY <3>1 DEF Known, SnapshotInv, Snapshot
    <3>3. v # r
      BY <3>1, <3>2
    <3>4. v \in Request
      BY <1>2, <2>1, <2>5, <3>3 DEF VersionId
    <3>5. v \in Rivals(r)'
      BY <2>1, <2>5, <3>1, <3>2, <3>3, <3>4 DEF Rivals, Entered
    <3>6. Disturbed
      BY <3>1 DEF Disturbed
    <3> QED
      BY <1>3, <3>5, <3>6 DEF Served
  <2> QED
    BY <1>1, <2>2, <2>3, <2>4, <2>5, BytesGo
<1> QED
  BY <1>4, <1>5 DEF Served


\* What an upload is about to give a Version, and what it has given one, is there.
Stored(r) ==
  /\ Direct(r) /\ pc[r] \in {"work", "artifact", "version"} => Served(r)
  /\ ~Direct(r) /\ pc[r] = "version" => keyOf[r] = r /\ HasBytes(r)
  /\ r \in versions /\ pc[r] \notin UndoStates => keyOf[r] \in Pending \cup {r} /\ Served(r)
Output(j) == pc[j] = "stored" \/ j \in versions => keyOf[j] = j /\ HasBytes(j)
BytesInv == faults <= 1 => (\A r \in Request : Stored(r)) /\ (\A j \in Job : Output(j))

LEMMA OutputStays ==
  ASSUME Known, TypeOK', [Next]_vars, NEW j \in Job, Output(j)
  PROVE  Output(j)'
<1>1. /\ TypeOK /\ j \in VersionId /\ j \in Process /\ j \in StorageKey /\ j \notin Request
      /\ \A q \in Request : Key(q)
      /\ \A i \in Job : keyOf[i] \in {i, None}
      /\ Request \cap Pending = {} /\ Job \cap Pending = {} /\ Request \cap Job = {}
      /\ None # j /\ Request \subseteq VersionId
  BY UploadAssumption DEF Known, KeyInv, VersionId, Process, StorageKey
<1>2. CASE JobStep(j)
  <2>1. CASE StoreOutput(j)
    BY <1>1, <2>1 DEF StoreOutput, Output, HasBytes, TypeOK
  <2>2. CASE PublishOutput(j)
    BY <1>1, <2>2 DEF PublishOutput, Output, HasBytes, TypeOK, At, Goto, request
  <2>3. ASSUME NEW v \in VersionId, StartJob(j, v) PROVE Output(j)'
    BY <1>1, <2>3 DEF StartJob, Output, HasBytes, TypeOK, At, Goto
  <2> QED
    BY <1>2, <2>1, <2>2, <2>3 DEF JobStep
<1>3. CASE Aside(j) /\ Waits(j) /\ ~JobStep(j)
  <2>1. SUFFICES ASSUME pc'[j] = "stored" \/ j \in versions' PROVE keyOf'[j] = j /\ HasBytes(j)'
    BY DEF Output
  <2>2. (pc[j] = "stored" \/ j \in versions) /\ keyOf'[j] = keyOf[j]
    BY <1>3, <2>1 DEF Aside, Waits
  <2>3. keyOf[j] = j /\ HasBytes(j)
    BY <2>2 DEF Output
  <2>4. ASSUME ~HasBytes(j)' PROVE FALSE
    <3>1. ASSUME NEW q \in Request, Reject(q) \/ UndoObject(q), keyOf[q] = j PROVE FALSE
      BY <1>1, <3>1 DEF Key
    <3>2. ASSUME NEW d \in Deletion, NEW v \in VersionId, RemoveBytes(d, v), keyOf[v] = j
          PROVE  FALSE
      <4>1. v = j
        BY <1>1, <3>2 DEF VersionId, Key
      <4>2. j \in todo[d] /\ versions' = versions /\ pc' = pc
        BY <3>2, <4>1 DEF RemoveBytes, rows
      <4>3. pc[j] \in Late /\ j \notin versions
        BY <4>2 DEF Known, SnapshotInv, Snapshot
      <4> QED
        BY <2>1, <4>2, <4>3 DEF Late, UndoStates, EndStates
    <3> QED
      BY <1>1, <2>3, <2>4, <3>1, <3>2, BytesGo
  <2> QED
    BY <2>2, <2>3, <2>4
<1> QED
  BY <1>1, <1>2, <1>3, Bystander

LEMMA StoredStays ==
  ASSUME Known, TypeOK', KeyInv', [Next]_vars, NEW r \in Request, Stored(r), faults' <= 1
  PROVE  Stored(r)'
<1>1. /\ TypeOK /\ r \in VersionId /\ r \in Process /\ r \in StorageKey /\ r \notin Job
      /\ Key(r) /\ Form(r) /\ Undone(r) /\ Rows(r) /\ r \notin Pending /\ r # None
      /\ target[r] # None \/ r \notin versions
  BY UploadAssumption
     DEF Known, KeyInv, FormInv, RowsInv, Rows, VersionId, Process, StorageKey, WorkId, Form
<1>2. /\ \A q \in Request : (keyOf[q] \in Pending \cup {q, None})' /\ Request \cap Pending = {}
      /\ None \notin Request
  BY UploadAssumption DEF KeyInv, Key, WorkId
<1>3. faults \in Nat /\ faults' \in Nat /\ faults <= 1
  BY <1>1, FaultsGrow
\* A request with bytes of its own has no rivals.
<1>4. keyOf'[r] = r /\ Served(r)' => HasBytes(r)'
  BY <1>2 DEF Served, Rivals, HasBytes
<1>5. CASE RequestStep(r) /\ pc[r] \in {"find", "validate"}
  <2>1. Direct(r)
    BY <1>1, <1>5 DEF Key
  <2>2. Find(r) \/ Validate(r) \/ ReadFails(r)
    BY <1>5 DEF RequestStep, Finalize, Send, Check, Lookup, Resolve, Reject,
           CreateWork, CreateArtifact, Put, CreateVersion, CreateRefused, UndoArtifact,
           UndoWork, UndoObject, CreateFails, ReplyLost, UndoFails, At
  <2>3. pc'[r] = "work" => HasBytes(keyOf[r])'
    BY <1>1, <2>1, <2>2 DEF Find, Validate, ReadFails, At, Goto, TypeOK, HasBytes, request, Direct
  <2>4. keyOf' = keyOf /\ versions' = versions /\ r \notin versions
        /\ pc'[r] \in {"refused", "validate", "work", "reject"}
    BY <1>1, <1>5, <2>2 DEF Find, Validate, ReadFails, rows, request, Form, Early, At, Goto, TypeOK
  <2> QED
    BY <2>1, <2>3, <2>4 DEF Stored, Served, Direct
<1>6. CASE RequestStep(r) /\ pc[r] = "put"
  <2>1. Put(r) \/ CreateFails(r)
    BY <1>6 DEF RequestStep, Finalize, Send, Check, Lookup, Resolve, Find, Validate, Reject,
           CreateWork, CreateArtifact, CreateVersion, CreateRefused, UndoArtifact,
           UndoWork, UndoObject, ReadFails, ReplyLost, UndoFails, At
  <2>2. keyOf'[r] = r /\ versions' = versions /\ r \notin versions
    BY <1>1, <1>6, <2>1 DEF Put, CreateFails, rows, Form, TypeOK, At
  <2>3. pc'[r] = "undo_object" \/ (pc'[r] = "version" /\ HasBytes(r)')
    BY <1>1, <1>6, <2>1 DEF Put, CreateFails, Goto, TypeOK, At, HasBytes
  <2> QED
    BY <1>1, <2>2, <2>3 DEF Stored, Direct
<1>7. CASE RequestStep(r) /\ pc[r] \notin {"find", "validate", "put"}
  <2>1. CASE pc[r] \in {"idle", "check", "lookup", "resolve", "reject"}
    BY <1>1, <1>7, <2>1
       DEF RequestStep, Finalize, Send, Check, Lookup, Resolve, Find, Validate, Reject,
           CreateWork, CreateArtifact, Put, CreateVersion, CreateRefused, UndoArtifact,
           UndoWork, UndoObject, ReadFails, CreateFails, ReplyLost, UndoFails, At, Goto, TypeOK,
           Stored, Form, Early, rows, request, Direct, UndoStates, Key
  <2>2. CASE pc[r] \in {"work", "artifact", "version"}
    <3>1. keyOf' = keyOf /\ pc'[r] \in {"artifact", "put", "version", "answered", "refused", "failed"}
                                         \cup UndoStates
      BY <1>1, <1>7, <2>2
         DEF RequestStep, Finalize, Send, Check, Lookup, Resolve, Find, Validate, Reject,
           CreateWork, CreateArtifact, Put, CreateVersion, CreateRefused, UndoArtifact,
           UndoWork, UndoObject, ReadFails, CreateFails, ReplyLost, UndoFails, At, Goto, TypeOK,
           request, FirstUndo, AfterArtifact, UndoStates
    <3>2. CASE Direct(r) \/ pc[r] = "version"
      <4>1. Served(r) /\ keyOf[r] \in Pending \cup {r}
        BY <2>2, <3>2 DEF Stored, Served, Direct
      <4>2. pc[r] = "work" \/ target[r] # None
        BY <1>1, <2>2 DEF Form
      <4>3. Served(r)'
        BY <2>2, <3>1, <4>1, <4>2, ServedStays DEF Late, UndoStates, EndStates
      <4> QED
        BY <1>1, <1>4, <3>1, <4>1, <4>3 DEF Stored, Direct
    <3>3. CASE ~Direct(r) /\ pc[r] \in {"work", "artifact"}
      <4>1. r \notin versions /\ versions' = versions
        BY <1>1, <1>7, <3>3
           DEF RequestStep, Finalize, Send, Check, Lookup, Resolve, Find, Validate, Reject,
             CreateWork, CreateArtifact, Put, CreateVersion, CreateRefused, UndoArtifact,
             UndoWork, UndoObject, ReadFails, CreateFails, ReplyLost, UndoFails, At, rows,
             UndoStates, Form, Early
      <4>2. pc'[r] # "version"
        BY <1>1, <1>7, <3>3
           DEF RequestStep, Finalize, Send, Check, Lookup, Resolve, Find, Validate, Reject,
             CreateWork, CreateArtifact, Put, CreateVersion, CreateRefused, UndoArtifact,
             UndoWork, UndoObject, ReadFails, CreateFails, ReplyLost, UndoFails, At, Goto,
             TypeOK, UndoStates, FirstUndo, AfterArtifact
      <4> QED
        BY <3>1, <3>3, <4>1, <4>2 DEF Stored, Direct
    <3> QED
      BY <2>2, <3>2, <3>3
  <2>3. CASE pc[r] \in UndoStates
    <3>1. UndoArtifact(r) \/ UndoWork(r) \/ UndoObject(r) \/ UndoFails(r)
      BY <1>7, <2>3
         DEF RequestStep, Finalize, Send, Check, Lookup, Resolve, Find, Validate, Reject,
           CreateWork, CreateArtifact, Put, CreateVersion, CreateRefused,
           ReadFails, CreateFails, ReplyLost, At, UndoStates
    <3>2. pc'[r] \in UndoStates \cup {"failed"}
      BY <1>1, <2>3, <3>1 DEF UndoArtifact, UndoWork, UndoObject, UndoFails, AfterArtifact, AfterWork,
         At, Goto, TypeOK, UndoStates
    <3>3. Undone(r)'
      BY <1>1, <1>7, UndoneRequest
    <3>4. pc'[r] = "failed" => r \notin versions'
      BY <3>3, <1>3 DEF Undone
    <3> QED
      BY <3>2, <3>4 DEF Stored, UndoStates
  <2>4. pc[r] \in {"idle", "check", "lookup", "resolve", "reject", "work", "artifact", "version"}
                    \cup UndoStates
    BY <1>7
       DEF RequestStep, Finalize, Send, Check, Lookup, Resolve, Find, Validate, Reject,
           CreateWork, CreateArtifact, Put, CreateVersion, CreateRefused, UndoArtifact,
           UndoWork, UndoObject, ReadFails, CreateFails, ReplyLost, UndoFails, At, UndoStates
  <2> QED
    BY <2>1, <2>2, <2>3, <2>4
<1>8. CASE Aside(r) /\ Waits(r)
  <2>1. keyOf'[r] = keyOf[r] /\ (r \in versions' => r \in versions)
    BY <1>8 DEF Aside
  <2>2. pc'[r] = pc[r] \/ (pc'[r] = "dead" /\ faults = 0)
    BY <1>3, <1>8 DEF Waits
  <2>3. CASE pc'[r] = pc[r] /\ pc[r] \in {"work", "artifact", "version"}
    <3>1. (pc[r] = "work" \/ target[r] # None) /\ pc[r] \notin Late
      BY <1>1, <2>3 DEF Form, Late, UndoStates, EndStates
    <3>2. Served(r) /\ keyOf[r] \in Pending \cup {r} => Served(r)'
      BY <2>1, <3>1, ServedStays
    <3>3. r \notin versions'
      BY <1>1, <2>1, <2>3 DEF Form, Early
    <3>4. Direct(r) => Served(r) /\ Served(r)' /\ Direct(r)'
      BY <2>1, <2>3, <3>2 DEF Stored, Direct
    <3>5. ~Direct(r) /\ pc[r] = "version" => keyOf'[r] = r /\ HasBytes(r)'
      BY <1>4, <2>1, <3>2 DEF Stored, Served
    <3> QED
      BY <2>1, <2>3, <3>3, <3>4, <3>5 DEF Stored, Direct
  <2>4. CASE pc'[r] \notin {"work", "artifact", "version"}
    <3>1. SUFFICES ASSUME r \in versions', pc'[r] \notin UndoStates
                   PROVE  keyOf'[r] \in Pending \cup {r} /\ Served(r)'
      BY <2>4 DEF Stored
    <3>2. r \in versions /\ pc[r] \notin UndoStates
      BY <1>1, <2>1, <2>2, <3>1 DEF Undone
    <3>3. Served(r) /\ keyOf[r] \in Pending \cup {r} /\ target[r] # None
      BY <1>1, <3>2 DEF Stored
    <3> QED
      BY <2>1, <3>1, <3>2, <3>3, ServedStays
  <2> QED
    BY <2>2, <2>3, <2>4
<1> QED
  BY <1>1, <1>5, <1>6, <1>7, <1>8, Bystander

LEMMA BytesNext ==
  ASSUME Known, TypeOK', KeyInv', BytesInv, [Next]_vars
  PROVE  BytesInv'
<1> SUFFICES ASSUME faults' <= 1
             PROVE  (\A r \in Request : Stored(r)') /\ (\A j \in Job : Output(j)')
  BY DEF BytesInv
<1>1. faults <= 1
  BY FaultsGrow DEF Known
<1>2. (\A r \in Request : Stored(r)) /\ (\A j \in Job : Output(j))
  BY <1>1 DEF BytesInv
<1> QED
  BY <1>2, StoredStays, OutputStays

LEMMA KnownInit == Init => Known /\ BytesInv
<1> SUFFICES ASSUME Init PROVE Known /\ BytesInv
  OBVIOUS
<1>1. TypeOK /\ FormInv /\ KeyInv /\ CalmInv
  BY TypeInit, FormInit, KeyInit, CalmInit DEF FormInv
<1>2. /\ versions = {} /\ Request \subseteq VersionId /\ Job \subseteq VersionId
      /\ VersionId \subseteq Process /\ Deletion \subseteq Process
      /\ \A p \in Process : pc[p] = "idle"
      /\ \A v \in VersionId : home[v] = None
      /\ \A d \in Deletion : seenArtifacts[d] = {} /\ seen[d] = {} /\ todo[d] = {}
  BY DEF Init, VersionId, Process
<1>3. RowsInv /\ SnapshotInv
  BY <1>2 DEF RowsInv, Rows, SnapshotInv, Snapshot
<1>4. PaidInv /\ BytesInv
  BY <1>2 DEF PaidInv, Paid, BytesInv, Stored, Output, UndoStates
<1> QED
  BY <1>1, <1>3, <1>4 DEF Known

LEMMA KnownNext == Known /\ BytesInv /\ [Next]_vars => (Known /\ BytesInv)'
<1> SUFFICES ASSUME Known, BytesInv, [Next]_vars PROVE Known' /\ BytesInv'
  OBVIOUS
<1>1. TypeOK'
  BY TypeNext DEF Known
<1>2. FormInv' /\ KeyInv' /\ CalmInv'
  BY <1>1, FormNext, KeyNext, CalmNext DEF Known
<1>3. RowsInv'
  BY <1>1, GoOn DEF Known, RowsInv
<1>4. SnapshotInv' /\ PaidInv'
  BY <1>1, SnapshotNext, PaidNext DEF Known
<1>5. BytesInv'
  BY <1>1, <1>2, BytesNext
<1> QED
  BY <1>1, <1>2, <1>3, <1>4, <1>5 DEF Known

\* While at most one call failed, a Version keeps its bytes: finalization, its
\* compensation, the clean-up of a rejected score and the deletion of a Work never
\* remove what a Version refers to, except that two finalizations that both found no
\* Version of one object share it.
THEOREM StoredVersionsKeepBytes == Spec => []VersionsKeepBytes
<1>1. Known /\ BytesInv => VersionsKeepBytes
  <2> SUFFICES ASSUME Known, BytesInv, faults <= 1, NEW v \in versions
               PROVE  \/ HasBytes(keyOf[v])
                      \/ pc[v] \in UndoStates
                      \/ v \in Request /\ Rivals(v) # {} /\ Disturbed
    BY DEF VersionsKeepBytes
  <2>1. v \in Request \/ v \in Job
    BY DEF Known, TypeOK, VersionId
  <2>2. CASE v \in Request
    BY <2>2 DEF BytesInv, Stored, Served
  <2>3. CASE v \in Job
    BY <2>3 DEF BytesInv, Output
  <2> QED
    BY <2>1, <2>2, <2>3
<1> QED
  BY <1>1, KnownInit, KnownNext, PTL DEF Spec

----------------------------------------------------------------------------
(***************************************************************************)
(* When no call failed, the deletion of a Work cleans up all the bytes it  *)
(* knew of.  The proof follows a Version from its publication through the  *)
(* three reads of the deletion to the removal of its bytes; for the output *)
(* of a Job this needs the Version its Workflow refers to, which is what   *)
(* makes the deletion read the Job.                                        *)
(***************************************************************************)

(* Invariants of a run without faults *)

\* Artifacts belong to Works there are.
Linked == \A v \in VersionId : home[v] # None => home[v] \in works

\* The output of a Job and the Version it was made from share a Work.
JobRow(j) ==
  /\ home[j] \in {None, target[j]}
  /\ home[j] # None => j \in versions
  /\ pc[j] = "idle" => input[j] = None
  /\ input[j] # None => input[j] \in versions /\ home[input[j]] = target[j]
  /\ j \in versions => input[j] # None
  /\ pc[j] \in {"stored", "answered"} => keyOf[j] = j

\* An answered upload that created a Version has a key.
KeyKnown(r) ==
  /\ pc[r] = "version" => keyOf[r] # None
  /\ pc[r] = "answered" /\ target[r] # None => keyOf[r] # None

\* A deletion that has read the output of a Job reads what makes it trust it.
Read(d) ==
  /\ pc[d] \in {"artifacts", "versions"} => seen[d] = {}
  /\ pc[d] = "versions" =>
       \A j \in Job : j \in seenArtifacts[d] /\ j \in versions => input[j] \in seenArtifacts[d]
  /\ pc[d] = "jobs" => \A j \in Job : j \in seen[d] /\ j \in versions => input[j] \in seen[d]
  /\ pc[d] = "delete" => \A j \in Job : j \in seen[d] /\ j \in versions => j \in seenJobs[d]

\* Bytes without their Version have a deletion that comes to them or never saw them.
Orphan(v) ==
  pc[v] = "answered" /\ target[v] # None /\ v \notin versions /\ HasBytes(keyOf[v])
Knows(d, v) ==
  /\ doomed[d] = target[v]
  /\ pc[d] \in {"clean", "answered"}
  /\ v \notin seen[d] \/ (pc[d] = "clean" /\ v \in todo[d])
Traced(v) == Orphan(v) => \E d \in Deletion : Knows(d, v)

OrphanInv ==
  faults = 0 =>
    /\ Linked
    /\ \A j \in Job : JobRow(j)
    /\ \A r \in Request : KeyKnown(r)
    /\ \A d \in Deletion : Read(d)
    /\ \A v \in VersionId : Traced(v)

(* Steps without faults *)

CalmRequest(r) ==
  \/ \E w \in Work \cup {None} : (\E k \in Pending : Finalize(r, k, w)) \/ Send(r, w)
  \/ Check(r) \/ Lookup(r) \/ Resolve(r) \/ Find(r) \/ Validate(r) \/ Reject(r)
  \/ CreateWork(r) \/ CreateArtifact(r) \/ Put(r) \/ CreateVersion(r) \/ CreateRefused(r)
  \/ UndoArtifact(r) \/ UndoWork(r) \/ UndoObject(r)

LEMMA NoFaults ==
  ASSUME TypeOK, TypeOK', faults' = 0, [Next]_vars
  PROVE  /\ faults = 0
         /\ \A r \in Request : RequestStep(r) => CalmRequest(r)
         /\ \A d \in Deletion : ~DeletionFails(d) /\ \A v \in VersionId : ~RemovalFails(d, v)
         /\ \A p \in Process : ~Die(p)
<1>1. faults = 0
  BY FaultsGrow
<1>2. ~Fail
  BY <1>1 DEF Fail
<1>3. \A r \in Request : RequestStep(r) => CalmRequest(r)
  BY <1>2 DEF RequestStep, CalmRequest, ReadFails, CreateFails, ReplyLost, UndoFails
<1>4. \A d \in Deletion : ~DeletionFails(d) /\ \A v \in VersionId : ~RemovalFails(d, v)
  BY <1>2 DEF DeletionFails, RemovalFails
<1>5. \A p \in Process : ~Die(p)
  BY <1>2 DEF Die
<1> QED
  BY <1>1, <1>3, <1>4, <1>5

\* A step that deletes no Work only adds rows.
Grows ==
  /\ works \subseteq works' /\ versions \subseteq versions'
  /\ \A v \in VersionId : \/ home'[v] = home[v]
                          \/ home[v] = None /\ home'[v] = target[v] /\ target[v] \in works
  /\ \A j \in Job : input'[j] = input[j] \/ (pc[j] = "idle" /\ pc'[j] = "running")

LEMMA RequestsGrow ==
  ASSUME Known, TypeOK', NEW r \in Request, CalmRequest(r), faults = 0,
         Linked, \A j \in Job : JobRow(j)
  PROVE  Grows
<1>1. /\ TypeOK /\ Form(r) /\ Undone(r) /\ Rows(r) /\ r \in VersionId /\ r # None /\ None \notin works
      /\ \A j \in Job : input[j] # r \/ r \in versions
  BY UploadAssumption
     DEF Known, FormInv, RowsInv, VersionId, WorkId, TypeOK, JobRow
<1> USE DEF Grows, TypeOK, At, rows
<1>2. ASSUME NEW w \in Work \cup {None}, NEW k \in Pending, Finalize(r, k, w) PROVE Grows
  BY <1>1, <1>2 DEF Finalize
<1>3. ASSUME NEW w \in Work \cup {None}, Send(r, w) PROVE Grows
  BY <1>1, <1>3 DEF Send
<1>4. CASE Check(r) \/ Lookup(r) \/ Resolve(r) \/ Find(r) \/ Validate(r) \/ Reject(r)
  BY <1>1, <1>4 DEF Check, Lookup, Resolve, Find, Validate, Reject
<1>5. CASE CreateWork(r)
  BY <1>1, <1>5 DEF CreateWork
<1>6. CASE CreateArtifact(r)
  BY <1>1, <1>6 DEF CreateArtifact, Form
<1>7. CASE Put(r) \/ CreateVersion(r) \/ CreateRefused(r) \/ UndoObject(r)
  BY <1>1, <1>7 DEF Put, CreateVersion, CreateRefused, UndoObject
<1>8. CASE UndoArtifact(r)
  <2>1. home[r] = None /\ r \notin versions
    BY <1>1, <1>8 DEF UndoArtifact, Undone, UndoStates
  <2>2. home' = home /\ versions' = versions /\ input' = input /\ works' = works
    BY <1>1, <1>8, <2>1 DEF UndoArtifact, DropArtifacts
  <2> QED
    BY <2>2
<1>9. CASE UndoWork(r)
  <2>1. r \notin works
    BY <1>1, <1>9 DEF UndoWork, Undone, UndoStates, CreatedWork
  <2>2. InWork(r) = {}
    BY <1>1, <2>1 DEF InWork, Linked
  <2>3. home' = home /\ versions' = versions /\ input' = input /\ works' = works
    BY <1>1, <1>9, <2>1, <2>2 DEF UndoWork, DropWork, DropArtifacts
  <2> QED
    BY <2>3
<1> QED
  BY <1>2, <1>3, <1>4, <1>5, <1>6, <1>7, <1>8, <1>9 DEF CalmRequest

LEMMA Growth ==
  ASSUME Known, TypeOK', [Next]_vars, faults' = 0, Linked, \A j \in Job : JobRow(j)
  PROVE  Grows \/ \E d \in Deletion : DeleteWork(d) /\ doomed[d] \in works
<1>1. TypeOK
  BY DEF Known
<1>2. /\ faults = 0
      /\ \A r \in Request : RequestStep(r) => CalmRequest(r)
      /\ \A d \in Deletion : ~DeletionFails(d) /\ \A v \in VersionId : ~RemovalFails(d, v)
      /\ \A p \in Process : ~Die(p)
  BY <1>1, NoFaults
<1>3. ASSUME NEW r \in Request, RequestStep(r) PROVE Grows
  BY <1>2, <1>3, RequestsGrow
<1>4. ASSUME NEW j \in Job, JobStep(j) PROVE Grows
  <2>1. j \in VersionId /\ j \in Process /\ JobRow(j) /\ Rows(j)
    BY DEF VersionId, Process, Known, RowsInv
  <2>2. home[j] # None => pc[j] # "stored"
    BY <2>1 DEF Rows, Owning, Late, UndoStates, EndStates
  <2> QED
    BY <1>1, <1>4, <2>1, <2>2
       DEF JobStep, StartJob, StoreOutput, PublishOutput, Grows, TypeOK, At, Goto, rows
<1>5. ASSUME NEW d \in Deletion, DeletionStep(d), ~(DeleteWork(d) /\ doomed[d] \in works) PROVE Grows
  BY <1>1, <1>2, <1>5 DEF DeletionStep, StartDelete, LoadArtifacts, LoadVersions, LoadJobs,
     DeleteWork, Deleted, RemoveBytes, Grows, rows
<1>6. CASE UNCHANGED vars
  BY <1>6 DEF vars, Grows
<1> QED
  BY <1>2, <1>3, <1>4, <1>5, <1>6 DEF Next

LEMMA LinkedNext ==
  ASSUME Known, TypeOK', Linked, Grows \/ \E d \in Deletion : DeleteWork(d) /\ doomed[d] \in works
  PROVE  Linked'
<1>1. CASE Grows
  BY <1>1 DEF Linked, Grows
<1>2. ASSUME NEW d \in Deletion, DeleteWork(d), doomed[d] \in works PROVE Linked'
  BY <1>2 DEF Linked, DeleteWork, DropWork, DropArtifacts, InWork
<1> QED
  BY <1>1, <1>2

LEMMA JobRowNext ==
  ASSUME Known, TypeOK', [Next]_vars, faults' = 0, NEW j \in Job, JobRow(j), Linked,
         Grows \/ \E d \in Deletion : DeleteWork(d) /\ doomed[d] \in works
  PROVE  JobRow(j)'
<1>1. /\ TypeOK /\ j \in VersionId /\ j \in Process /\ Rows(j) /\ j \notin Request
      /\ None \notin works /\ None \notin VersionId /\ faults \in Nat
      /\ \A v \in versions : home[v] # None /\ v \in VersionId
  BY UploadAssumption
     DEF Known, RowsInv, Rows, VersionId, Process, WorkId, StorageKey, TypeOK
<1>2. ASSUME NEW d \in Deletion, DeleteWork(d), doomed[d] \in works PROVE JobRow(j)'
  <2>1. /\ target' = target /\ keyOf' = keyOf /\ pc'[j] = pc[j]
    BY <1>1, <1>2, UploadAssumption DEF DeleteWork, Goto, TypeOK, request
  <2>2. /\ \A v \in VersionId : home'[v] = IF home[v] = doomed[d] THEN None ELSE home[v]
        /\ \A v \in VersionId : v \in versions' <=> v \in versions /\ home[v] # doomed[d]
        /\ input'[j] = IF input[j] \in InWork(doomed[d]) THEN None ELSE input[j]
    BY <1>1, <1>2 DEF DeleteWork, DropWork, DropArtifacts, InWork, TypeOK
  <2>3. input[j] \in InWork(doomed[d]) <=> input[j] # None /\ home[input[j]] = doomed[d]
    BY <1>1 DEF InWork, TypeOK
  <2> QED
    BY <1>1, <2>1, <2>2, <2>3 DEF JobRow
<1>3. CASE Grows /\ JobStep(j)
  <2>1. ASSUME NEW v \in VersionId, StartJob(j, v) PROVE JobRow(j)'
    <3>1. home[j] = None /\ j \notin versions /\ v # j
      BY <1>1, <2>1 DEF StartJob, At, Rows, Owning, Late, UndoStates, EndStates
    <3> QED
      BY <1>1, <2>1, <3>1 DEF StartJob, Goto, TypeOK, JobRow
  <2>2. CASE StoreOutput(j)
    BY <1>1, <2>2 DEF StoreOutput, At, Goto, TypeOK, JobRow, rows
  <2>3. CASE PublishOutput(j)
    <3>1. home[j] = None /\ j \notin versions /\ input[j] # j
      BY <1>1, <2>3 DEF PublishOutput, At, Rows, Owning, Late, UndoStates, EndStates, JobRow
    <3> QED
      BY <1>1, <2>3, <3>1 DEF PublishOutput, At, Goto, TypeOK, JobRow, request
  <2> QED
    BY <1>3, <2>1, <2>2, <2>3 DEF JobStep
<1>4. CASE Grows /\ Aside(j) /\ Waits(j)
  <2>1. /\ pc'[j] = pc[j] /\ target'[j] = target[j] /\ keyOf'[j] = keyOf[j]
        /\ (j \in versions' <=> j \in versions)
    BY <1>1, <1>4 DEF Aside, Waits, Grows
  <2>2. home'[j] = home[j]
    BY <1>1, <1>4 DEF Aside, Grows
  <2>3. input'[j] = input[j]
    BY <1>4, <2>1 DEF Grows
  <2>4. input[j] # None => input[j] \in versions' /\ home'[input[j]] = home[input[j]]
    BY <1>1, <1>4 DEF JobRow, Grows
  <2> QED
    BY <2>1, <2>2, <2>3, <2>4 DEF JobRow
<1> QED
  BY <1>1, <1>2, <1>3, <1>4, Bystander

LEMMA KeyKnownNext ==
  ASSUME Known, TypeOK', [Next]_vars, faults' = 0, NEW r \in Request, KeyKnown(r)
  PROVE  KeyKnown(r)'
<1>1. /\ TypeOK /\ r \in VersionId /\ r \in Process /\ r \notin Job /\ r # None /\ Form(r)
      /\ None \notin Pending /\ faults \in Nat
  BY UploadAssumption DEF Known, FormInv, VersionId, Process, WorkId, StorageKey, TypeOK
<1>2. CASE RequestStep(r)
  <2>1. CalmRequest(r)
    BY <1>1, <1>2, NoFaults
  <2>2. CASE UndoArtifact(r) \/ UndoWork(r) \/ UndoObject(r) \/ CreateRefused(r)
    BY <1>1, <2>2 DEF UndoArtifact, UndoWork, UndoObject, CreateRefused, FirstUndo, AfterArtifact,
       AfterWork, Goto, TypeOK, KeyKnown
  <2>3. CASE Put(r) \/ CreateArtifact(r) \/ CreateVersion(r) \/ CreateWork(r)
    BY <1>1, <2>3 DEF Put, CreateArtifact, CreateVersion, CreateWork, Goto, At, TypeOK, KeyKnown,
       request, Direct
  <2>4. CASE Check(r) \/ Lookup(r) \/ Resolve(r) \/ Find(r) \/ Validate(r) \/ Reject(r)
    BY <1>1, <2>4 DEF Check, Lookup, Resolve, Find, Validate, Reject, Goto, At, TypeOK, KeyKnown,
       request, Form, Early
  <2>5. ASSUME NEW w \in Work \cup {None},
               (\E k \in Pending : Finalize(r, k, w)) \/ Send(r, w)
        PROVE  KeyKnown(r)'
    BY <1>1, <2>5 DEF Finalize, Send, Goto, TypeOK, KeyKnown
  <2> QED
    BY <2>1, <2>2, <2>3, <2>4, <2>5 DEF CalmRequest
<1>3. CASE Aside(r) /\ Waits(r)
  BY <1>1, <1>3 DEF Aside, Waits, KeyKnown
<1> QED
  BY <1>1, <1>2, <1>3, Bystander

\* While the output of a Job stays, so does what its Workflow refers to.
LEMMA InputStays ==
  ASSUME Known, TypeOK', [Next]_vars, faults' = 0, NEW j \in Job, JobRow(j), JobRow(j)',
         pc[j] \in Owning, j \in versions',
         Grows \/ \E d \in Deletion : DeleteWork(d) /\ doomed[d] \in works
  PROVE  j \in versions /\ input'[j] = input[j]
<1>1. /\ TypeOK /\ j \in VersionId /\ j \in Process /\ j \notin Request
      /\ pc[j] \notin {"idle", "stored", "running"}
  BY UploadAssumption
     DEF Known, VersionId, Process, Owning, Late, UndoStates, EndStates
<1>2. ~JobStep(j)
  BY <1>1 DEF JobStep, StartJob, StoreOutput, PublishOutput, At
<1>3. j \in versions
  BY <1>1, <1>2, Bystander DEF Aside
<1>4. CASE Grows
  BY <1>1, <1>3, <1>4 DEF Grows
<1>5. ASSUME NEW d \in Deletion, DeleteWork(d), doomed[d] \in works PROVE input'[j] = input[j]
  <2>1. input'[j] \in {None, input[j]}
    BY <1>1, <1>5 DEF DeleteWork, DropWork, DropArtifacts
  <2> QED
    BY <2>1 DEF JobRow
<1> QED
  BY <1>3, <1>4, <1>5

LEMMA ReadStep ==
  ASSUME Known, TypeOK', NEW d \in Deletion, DeletionStep(d), Read(d), faults' = 0, [Next]_vars,
         \A j \in Job : JobRow(j)
  PROVE  Read(d)'
<1>1. /\ TypeOK /\ d \in Process /\ Snapshot(d) /\ None \notin WorkId
      /\ \A j \in versions : j \in VersionId /\ home[j] # None
  BY UploadAssumption DEF Known, Process, SnapshotInv, RowsInv, Rows, TypeOK
<1>2. ASSUME NEW w \in WorkId, StartDelete(d, w) PROVE Read(d)'
  BY <1>1, <1>2 DEF StartDelete, At, Goto, TypeOK, Snapshot, Read
<1>3. CASE LoadArtifacts(d)
  <2>1. /\ pc[d] = "artifacts" /\ seen' = seen /\ versions' = versions /\ input' = input
        /\ seenArtifacts'[d] = InWork(doomed[d]) /\ pc'[d] \in {"versions", "delete"}
    BY <1>1, <1>3 DEF LoadArtifacts, At, Goto, TypeOK, rows
  <2>2. ASSUME NEW j \in Job, j \in InWork(doomed[d]), j \in versions
        PROVE  input[j] \in InWork(doomed[d])
    <3>1. home[j] = doomed[d] /\ home[j] # None /\ JobRow(j)
      BY <1>1, <2>2 DEF InWork
    <3>2. input[j] \in versions /\ home[input[j]] = doomed[d]
      BY <2>2, <3>1 DEF JobRow
    <3> QED
      BY <1>1, <3>2 DEF InWork
  <2> QED
    BY <2>1, <2>2 DEF Read
<1>4. CASE LoadVersions(d)
  <2>1. /\ pc[d] = "versions" /\ versions' = versions /\ input' = input
        /\ seen'[d] = seenArtifacts[d] \cap versions
        /\ pc'[d] = "jobs" \/ (pc'[d] = "delete" /\ seen'[d] = {})
    BY <1>1, <1>4 DEF LoadVersions, At, Goto, TypeOK, rows
  <2>2. \A j \in Job : j \in seenArtifacts[d] /\ j \in versions =>
          input[j] \in seenArtifacts[d] \cap versions
    BY <2>1 DEF Read, JobRow
  <2> QED
    BY <2>1, <2>2 DEF Read
<1>5. CASE LoadJobs(d)
  <2>1. /\ pc[d] = "jobs" /\ versions' = versions /\ seen' = seen /\ pc'[d] = "delete"
        /\ seenJobs'[d] = {j \in Job : input[j] \in seen[d]}
    BY <1>1, <1>5 DEF LoadJobs, At, Goto, TypeOK, rows
  <2> QED
    BY <2>1 DEF Read
<1>6. CASE DeleteWork(d) \/ Deleted(d)
  BY <1>1, <1>6 DEF DeleteWork, Deleted, Goto, TypeOK, Read
<1>7. ASSUME NEW v \in VersionId, RemoveBytes(d, v) PROVE Read(d)'
  BY <1>1, <1>7 DEF RemoveBytes, At, Read
<1> QED
  BY <1>1, <1>2, <1>3, <1>4, <1>5, <1>6, <1>7, NoFaults DEF DeletionStep

LEMMA ReadNext ==
  ASSUME Known, TypeOK', [Next]_vars, faults' = 0, NEW d \in Deletion, Read(d),
         \A j \in Job : JobRow(j) /\ JobRow(j)',
         Grows \/ \E e \in Deletion : DeleteWork(e) /\ doomed[e] \in works
  PROVE  Read(d)'
<1>1. CASE DeletionStep(d)
  BY <1>1, ReadStep
<1>2. CASE ~DeletionStep(d)
  <2>1. /\ doomed'[d] = doomed[d] /\ seenArtifacts'[d] = seenArtifacts[d]
        /\ seen'[d] = seen[d] /\ seenJobs'[d] = seenJobs[d]
        /\ pc'[d] \in {pc[d], "dead"}
    BY <1>2, DeletionWaits DEF Known
  <2>2. \A v \in seenArtifacts[d] \cup seen[d] : pc[v] \in Owning
    BY DEF Known, SnapshotInv, Snapshot, Owning
  <2>3. \A j \in Job : j \in seenArtifacts[d] \cup seen[d] /\ j \in versions' =>
          j \in versions /\ input'[j] = input[j]
    BY <2>2, InputStays
  <2> QED
    BY <2>1, <2>3 DEF Read
<1> QED
  BY <1>1, <1>2

\* The own key of a Version gets its bytes from its own upload or Job.
LEMMA BytesDontCome ==
  ASSUME Known, TypeOK', [Next]_vars, faults' = 0, NEW v \in VersionId, pc[v] = "answered",
         keyOf[v] # None, HasBytes(keyOf[v])'
  PROVE  HasBytes(keyOf[v])
<1>1. /\ TypeOK /\ keyOf[v] \in Pending \cup {v} /\ keyOf[v] \in StorageKey
      /\ \A r \in Request : keyOf[v] = r => v = r
      /\ \A j \in Job : keyOf[v] = j => v = j
  BY UploadAssumption DEF Known, KeyInv, Key, VersionId, StorageKey, TypeOK
<1>2. keyOf'[v] = keyOf[v]
  <2>1. ASSUME v \in Request, RequestStep(v) PROVE keyOf'[v] = keyOf[v]
    BY <2>1 DEF RequestStep, Finalize, Send, Check, Lookup, Resolve, Find, Validate, Reject,
           CreateWork, CreateArtifact, Put, CreateVersion, CreateRefused, UndoArtifact,
           UndoWork, UndoObject, ReadFails, CreateFails, ReplyLost, UndoFails, request, At
  <2>2. ASSUME v \in Job, JobStep(v) PROVE keyOf'[v] = keyOf[v]
    BY <2>2 DEF JobStep, StartJob, StoreOutput, PublishOutput, request, At
  <2> QED
    BY <1>1, <2>1, <2>2, Bystander DEF Aside
<1>3. PICK k \in StorageKey : k = keyOf[v]
  BY <1>1
<1>4. HasBytes(k)'
  BY <1>2, <1>3 DEF HasBytes
<1>5. object'[k] \in {object[k], "none"}
  <2> USE <1>1, <1>3 DEF TypeOK
  <2>1. ASSUME NEW r \in Request, RequestStep(r) PROVE object'[k] \in {object[k], "none"}
    <3>1. CalmRequest(r)
      BY <2>1, NoFaults
    <3>2. CASE Put(r)
      BY <3>2 DEF Put, At
    <3>3. CASE ~Put(r)
      BY <3>1, <3>3
         DEF CalmRequest, Finalize, Send, Check, Lookup, Resolve, Find, Validate, Reject,
             CreateWork, CreateArtifact, CreateVersion, CreateRefused, UndoArtifact,
             UndoWork, UndoObject
    <3> QED
      BY <3>2, <3>3
  <2>2. ASSUME NEW j \in Job, JobStep(j) PROVE object'[k] \in {object[k], "none"}
    BY <2>2 DEF JobStep, StartJob, StoreOutput, PublishOutput, At
  <2>3. ASSUME NEW d \in Deletion, DeletionStep(d) PROVE object'[k] \in {object[k], "none"}
    BY <2>3 DEF DeletionStep, StartDelete, LoadArtifacts, LoadVersions, LoadJobs, DeleteWork,
              Deleted, RemoveBytes, RemovalFails, DeletionFails
  <2>4. CASE UNCHANGED vars
    BY <2>4 DEF vars
  <2> QED
    BY <2>1, <2>2, <2>3, <2>4, NoFaults DEF Next
<1> QED
  BY <1>3, <1>4, <1>5 DEF HasBytes

LEMMA TracedNext ==
  ASSUME Known, TypeOK', [Next]_vars, faults' = 0, NEW v \in VersionId, Traced(v),
         Linked, \A j \in Job : JobRow(j), \A r \in Request : KeyKnown(r),
         \A d \in Deletion : Read(d),
         Grows \/ \E d \in Deletion : DeleteWork(d) /\ doomed[d] \in works
  PROVE  Traced(v)'
<1> SUFFICES ASSUME Orphan(v)' PROVE \E d \in Deletion : Knows(d, v)'
  BY DEF Traced
<1>1. /\ TypeOK /\ v \in Process /\ Rows(v) /\ (v \in Request => Form(v) /\ v \notin Job)
      /\ v \in Request \/ v \in Job
  BY UploadAssumption DEF Known, VersionId, Process, RowsInv, FormInv
<1>2. pc[v] = "answered" /\ target'[v] = target[v] /\ keyOf'[v] = keyOf[v]
  <2>1. CASE v \in Request /\ RequestStep(v)
    <3>1. CalmRequest(v)
      BY <1>1, <2>1, NoFaults
    <3>2. pc'[v] = "answered" /\ target'[v] # None /\ v \notin versions'
      BY DEF Orphan
    <3>3. CASE Resolve(v)
      BY <1>1, <2>1, <3>2, <3>3 DEF Resolve, At, Form, Early, request
    <3>4. CASE CreateVersion(v)
      BY <3>2, <3>4 DEF CreateVersion
    <3> QED
      BY <1>1, <3>1, <3>2, <3>3, <3>4
         DEF CalmRequest, Finalize, Send, Check, Lookup, Find, Validate, Reject,
             CreateWork, CreateArtifact, Put, CreateRefused, UndoArtifact,
             UndoWork, UndoObject, FirstUndo, AfterArtifact, AfterWork, Goto, TypeOK
  <2>2. CASE v \in Job /\ JobStep(v)
    BY <1>1, <2>2 DEF JobStep, StartJob, StoreOutput, PublishOutput, Orphan, Goto, TypeOK
  <2>3. CASE Aside(v) /\ Waits(v)
    BY <2>3 DEF Aside, Waits, Orphan
  <2> QED
    BY <1>1, <2>1, <2>2, <2>3, Bystander
<1>3. keyOf[v] # None /\ keyOf[v] \in StorageKey
  <2>1. target[v] # None
    BY <1>2 DEF Orphan
  <2>2. keyOf[v] # None
    <3>1. CASE v \in Request
      BY <1>2, <2>1, <3>1 DEF KeyKnown
    <3>2. CASE v \in Job
      BY <1>2, <3>2, UploadAssumption DEF JobRow, VersionId, StorageKey
    <3> QED
      BY <1>1, <3>1, <3>2
  <2> QED
    BY <1>1, <2>2 DEF TypeOK
<1>4. HasBytes(keyOf[v])
  BY <1>2, <1>3, BytesDontCome DEF Orphan
<1>5. CASE v \notin versions
  <2>1. PICK d \in Deletion : Knows(d, v)
    BY <1>2, <1>4, <1>5 DEF Traced, Orphan
  <2>2. CASE DeletionStep(d)
    <3>1. ASSUME NEW u \in VersionId, RemoveBytes(d, u) PROVE Knows(d, v)'
      <4>1. u # v
        <5>1. SUFFICES ASSUME u = v PROVE FALSE
          OBVIOUS
        <5>2. object'[keyOf[v]] = "none"
          BY <1>1, <1>3, <3>1, <5>1 DEF RemoveBytes, TypeOK
        <5> QED
          BY <1>2, <5>2 DEF Orphan, HasBytes
      <4> QED
        BY <1>1, <1>2, <2>1, <3>1, <4>1 DEF RemoveBytes, Knows, TypeOK
    <3>2. CASE Deleted(d)
      BY <1>1, <1>2, <2>1, <3>2 DEF Deleted, Knows, At, Goto, TypeOK, deletion, Process
    <3>3. RemoveBytes(d, v) \/ Deleted(d) \/ \E u \in VersionId : RemoveBytes(d, u)
      BY <1>1, <2>1, <2>2, NoFaults
         DEF DeletionStep, Knows, StartDelete, LoadArtifacts, LoadVersions, LoadJobs, DeleteWork, At
    <3> QED
      BY <3>1, <3>2, <3>3
  <2>3. CASE ~DeletionStep(d)
    <3>1. /\ doomed'[d] = doomed[d] /\ seen'[d] = seen[d] /\ todo'[d] = todo[d]
          /\ pc'[d] = pc[d]
      BY <1>1, <2>3, DeletionWaits, NoFaults
    <3> QED
      BY <1>2, <2>1, <3>1 DEF Knows
  <2> QED
    BY <2>2, <2>3
<1>6. CASE v \in versions
  <2>1. ~Grows
    BY <1>6 DEF Grows, Orphan
  <2>2. PICK d \in Deletion : DeleteWork(d) /\ doomed[d] \in works
    BY <2>1
  <2>3. home[v] = doomed[d] /\ home[v] # None
    BY <1>1, <1>6, <2>2 DEF DeleteWork, DropWork, DropArtifacts, InWork, Orphan, Rows
  <2>4. home[v] = target[v]
    BY <1>1, <2>3 DEF Form, JobRow
  <2>5. pc[d] = "delete" /\ pc'[d] = "clean" /\ doomed' = doomed /\ seen' = seen
        /\ todo'[d] = {u \in seen[d] : Trusted(d, u)}
    BY <1>1, <2>2 DEF DeleteWork, At, Goto, TypeOK, Process
  <2>6. v \in seen[d] => Trusted(d, v)
    BY <1>6, <2>5 DEF Read, Trusted
  <2> QED
    BY <1>2, <2>3, <2>4, <2>5, <2>6 DEF Knows
<1> QED
  BY <1>5, <1>6

LEMMA OrphanInit == Init => OrphanInv
<1> SUFFICES ASSUME Init PROVE OrphanInv
  OBVIOUS
<1>1. /\ versions = {} /\ Request \subseteq VersionId /\ Job \subseteq VersionId
      /\ VersionId \subseteq Process /\ Deletion \subseteq Process
      /\ \A p \in Process : pc[p] = "idle"
      /\ \A v \in VersionId : home[v] = None
      /\ \A j \in Job : input[j] = None
  BY DEF Init, VersionId, Process
<1>2. Linked /\ \A j \in Job : JobRow(j)
  BY <1>1 DEF Linked, JobRow
<1>3. (\A r \in Request : KeyKnown(r)) /\ (\A d \in Deletion : Read(d))
        /\ \A v \in VersionId : Traced(v)
  BY <1>1 DEF KeyKnown, Read, Traced, Orphan
<1> QED
  BY <1>2, <1>3 DEF OrphanInv

LEMMA OrphanNext == Known /\ Known' /\ OrphanInv /\ [Next]_vars => OrphanInv'
<1> SUFFICES ASSUME Known, TypeOK', OrphanInv, [Next]_vars, faults' = 0
             PROVE  /\ Linked'
                    /\ \A j \in Job : JobRow(j)'
                    /\ \A r \in Request : KeyKnown(r)'
                    /\ \A d \in Deletion : Read(d)'
                    /\ \A v \in VersionId : Traced(v)'
  BY DEF OrphanInv, Known
<1>1. faults = 0
  BY NoFaults DEF Known
<1>2. /\ Linked /\ \A j \in Job : JobRow(j)
      /\ \A r \in Request : KeyKnown(r)
      /\ \A d \in Deletion : Read(d)
      /\ \A v \in VersionId : Traced(v)
  BY <1>1 DEF OrphanInv
<1>3. Grows \/ \E d \in Deletion : DeleteWork(d) /\ doomed[d] \in works
  BY <1>2, Growth
<1>4. Linked'
  BY <1>2, <1>3, LinkedNext
<1>5. \A j \in Job : JobRow(j)'
  BY <1>2, <1>3, JobRowNext
<1>6. \A r \in Request : KeyKnown(r)'
  BY <1>2, KeyKnownNext
<1>7. \A d \in Deletion : Read(d)'
  BY <1>2, <1>3, <1>5, ReadNext
<1>8. \A v \in VersionId : Traced(v)'
  BY <1>2, <1>3, TracedNext
<1> QED
  BY <1>4, <1>5, <1>6, <1>7, <1>8

\* When no call failed and nothing is under way, bytes whose Version is gone were
\* published after the deletion of their Work had read it: what the deletion had read
\* it has cleaned up, the outputs of Jobs included.
THEOREM OrphansArePublishedLate == Spec => []OrphansWereUnseen
<1>1. OrphanInv => OrphansWereUnseen
  <2> SUFFICES ASSUME OrphanInv, faults = 0, Quiet, NEW v \in VersionId,
                      pc[v] = "answered" /\ target[v] # None /\ v \notin versions,
                      HasBytes(keyOf[v])
               PROVE  \E d \in Deletion :
                        doomed[d] = target[v] /\ At(d, "answered") /\ v \notin seen[d]
    BY DEF OrphansWereUnseen
  <2>1. PICK d \in Deletion : Knows(d, v)
    BY DEF OrphanInv, Traced, Orphan
  <2>2. pc[d] # "clean"
    BY DEF Quiet, EndStates, Process
  <2> QED
    BY <2>1, <2>2 DEF Knows, At
<1> QED
  BY <1>1, KnownInit, KnownNext, OrphanInit, OrphanNext, PTL DEF Spec

=============================================================================
