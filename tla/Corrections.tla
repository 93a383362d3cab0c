----------------------------- MODULE Corrections -----------------------------
(***************************************************************************)
(* A user corrects the transcription of the open Work: the Piano Roll with *)
(* its editor, the coordinator that sends a correction and follows its Job *)
(* (components/workspace/PianoRollCorrectionCoordinator.tsx), the loads    *)
(* that put a Version on the roll (WorkspaceSession.tsx), the route, and   *)
(* the handler (correction_entity_sync.py).                                *)
(*                                                                         *)
(* The coordinator is mounted with the roll.  A load that finds another    *)
(* Version than the roll's takes the roll away until the new notes are     *)
(* there, and the coordinator with it; the requested correction stays in   *)
(* the workspace store.                                                    *)
(*                                                                         *)
(* Executions of a Job that lost it change nothing (JobDelivery), so that  *)
(* a Job has one execution here.                                           *)
(***************************************************************************)
EXTENDS CorrectionNotes, Sequences

CONSTANTS Transcription, \* the notes of the first Version
          NewNote,       \* notes a user may add
          None,
          MaxSaves, MaxMoves, MaxFaults \* bounds on what user and faults do

ASSUME CorrectionsAssumption ==
  /\ Transcription \subseteq Note /\ Transcription # {}
  /\ Encoded(Transcription) = Transcription
  /\ NewNote \subseteq Note
  /\ MaxSaves \in Nat /\ MaxMoves \in Nat /\ MaxFaults \in Nat

VARIABLES
  file, rows, maker, \* MIDI Version -> its notes, its entities, the Job that made it
  jobs,      \* correct Jobs, oldest first: the correction each is about
  at,        \* Job -> where its execution is, or how it ended
  output,    \* Job -> the Version of its execution, 0 before there is one
  roll,      \* the piano_roll representation: a Version and the entities read
  listed,    \* pianoRollSources
  selected,  \* pianoRollSourceVersionId, 0 for null
  load,      \* the latest loadWork, and whether it saw an active Job
  draft,     \* draftNotes, and whether it began with all notes of the file
  action,    \* pianoRollCorrectionAction
  operation, \* pianoRollCorrectionOperation
  handled,   \* handledAction of the mounted coordinator
  saving,    \* the coordinator's run that is not cancelled
  strays,    \* corrections of cancelled runs whose request is under way
  moves, faults

versions == <<file, rows, maker>>
queue    == <<jobs, at, output>>
browser  == <<roll, listed, selected, load, draft, action, operation, handled, saving, strays>>
vars     == <<versions, queue, browser, moves, faults>>

Ended == {"succeeded", "failed"}

Correction == [id : Nat, source : Nat \ {0},
               edit : [from : 0..End, to : 0..End, notes : SUBSET Note],
               meant : SUBSET Note, whole : BOOLEAN]
Entity     == {"given", "whole"} \X Note
Shown      == [version : Nat \ {0}, rows : SUBSET Entity]

ASSUME NoneIsNothing == None \notin Correction /\ None \notin Shown

Resting == [at |-> "idle", action |-> None, job |-> 0]

\* Entities are named by what wrote them: <<"given", n>> is one of a
\* correction's own notes, <<"whole", n>> one read from the file.
Whole(notes) == {<<"whole", n>> : n \in notes}
Given(seen)  == [i \in seen |-> i[2]]

VersionsTyped ==
  /\ file \in Seq(SUBSET Note) /\ rows \in Seq(SUBSET Entity) /\ maker \in Seq(Nat)
  /\ Len(rows) = Len(file) /\ Len(maker) = Len(file)

JobsTyped ==
  /\ jobs \in Seq(Correction) /\ output \in Seq(Nat)
  /\ at \in Seq({"queued", "adding", "cleared", "filled"} \cup Ended)
  /\ Len(at) = Len(jobs) /\ Len(output) = Len(jobs)

\* In a draft, <<"draft", n>> names a note that was added.
DraftTyped ==
  draft # None => /\ draft.whole \in BOOLEAN
                  /\ DOMAIN draft.notes \subseteq Entity \cup ({"draft"} \X Note)
                  /\ NotesOf(draft.notes) \subseteq Note

BrowserTyped ==
  /\ roll \in {None} \cup Shown
  /\ roll # None => roll.version \in DOMAIN file
  /\ listed \subseteq DOMAIN file
  /\ selected \in {0} \cup DOMAIN file
  /\ load \in [at : {"bundle", "rows", "idle"}, version : {0} \cup DOMAIN file, active : BOOLEAN]
  /\ load.at = "rows" => load.version # 0
  /\ action \in {None} \cup Correction
  /\ operation \in {"idle", "running", "success", "error", "disconnected"}
  /\ handled \in Nat
  /\ saving \in [at : {"idle", "bundle", "post", "wait"}, action : {None} \cup Correction,
                 job : {0} \cup DOMAIN jobs]
  /\ saving.at # "idle" => saving.action # None
  /\ saving.at = "wait" => saving.job # 0
  /\ strays \subseteq Correction

TypeOK ==
  /\ VersionsTyped /\ JobsTyped /\ DraftTyped /\ BrowserTyped
  /\ moves \in Nat /\ faults \in Nat

Init ==
  /\ file = <<Transcription>> /\ rows = <<Whole(Transcription)>> /\ maker = <<0>>
  /\ jobs = <<>> /\ at = <<>> /\ output = <<>>
  /\ roll = None /\ listed = {} /\ selected = 0
  /\ load = [at |-> "bundle", version |-> 0, active |-> FALSE]
  /\ draft = None
  /\ action = None /\ operation = "idle"
  /\ handled = 0 /\ saving = Resting /\ strays = {}
  /\ moves = 0 /\ faults = 0

Move  == moves < MaxMoves /\ moves' = moves + 1
Fault == faults < MaxFaults /\ faults' = faults + 1

(* The editor *)

\* The notes of the roll's file that are not on the roll are out of sight.
SeesAll == {i[2] : i \in roll.rows} = file[roll.version]

\* "Edit transcription" is offered whenever there is no draft.
Edit ==
  /\ roll # None /\ draft = None
  /\ draft' = [notes |-> Given(roll.rows), whole |-> SeesAll]
  /\ operation' = "idle"
  /\ UNCHANGED <<versions, queue, roll, listed, selected, load, action, handled, saving, strays,
                 moves, faults>>

Editing == draft # None /\ operation # "running"

\* transposeDraftNotes, removeDraftNotes, addDraftNote
Drafts(f) ==
  LET Transposed(i, p) == [f EXCEPT ![i] = [pitch |-> p, start |-> f[i].start, end |-> f[i].end]]
      Without(i)       == [k \in DOMAIN f \ {i} |-> f[k]]
      With(n)          == [k \in DOMAIN f \cup {<<"draft", n>>} |->
                             IF k = <<"draft", n>> THEN n ELSE f[k]]
  IN  {Without(i) : i \in DOMAIN f}
        \cup {With(n) : n \in {m \in NewNote : <<"draft", m>> \notin DOMAIN f}}
        \cup UNION {{Transposed(i, p) : p \in {f[i].pitch - 1, f[i].pitch + 1} \cap Pitch}
                     : i \in DOMAIN f}

Change ==
  /\ Editing /\ Move
  /\ \E f \in Drafts(draft.notes) : draft' = [notes |-> f, whole |-> draft.whole]
  /\ UNCHANGED <<versions, queue, roll, listed, selected, load, action, operation, handled,
                 saving, strays, faults>>

Cancel ==
  /\ Editing
  /\ draft' = None
  /\ UNCHANGED <<versions, queue, roll, listed, selected, load, action, operation, handled,
                 saving, strays, moves, faults>>

\* requestPianoRollCorrection: the draft against what the roll shows now.
Save ==
  LET given == Given(roll.rows)
      id    == IF action = None THEN 1 ELSE action.id + 1
  IN  /\ Editing /\ id <= MaxSaves
      /\ ~Unchanged(given, draft.notes)
      /\ action' = [id |-> id, source |-> roll.version, edit |-> Replacement(given, draft.notes),
                    meant |-> NotesOf(draft.notes), whole |-> draft.whole]
      /\ UNCHANGED <<versions, queue, roll, listed, selected, load, draft, operation, handled,
                     saving, strays, moves, faults>>

(* Loads *)

\* Setting pianoRollSourceVersionId starts a load if it is another.
Select(v) ==
  /\ selected' = v
  /\ load' = IF v = selected THEN load ELSE [at |-> "bundle", version |-> 0, active |-> FALSE]

\* The choice of the interpretation above the roll.
Choose(v) ==
  /\ roll # None /\ roll.version \in listed
  /\ v \in listed \ {roll.version}
  /\ Move /\ Select(v)
  /\ UNCHANGED <<versions, queue, roll, listed, draft, action, operation, handled, saving, strays,
                 faults>>

\* A cancelled run goes on only where its request is under way.
Cancelled == IF saving.at = "post" THEN {saving.action} ELSE {}

Unmount ==
  /\ roll' = None /\ draft' = None
  /\ saving' = Resting /\ strays' = strays \cup Cancelled

\* The default is the transcription.
Wanted == IF selected = 0 THEN 1 ELSE selected

\* The bundle is there: the roll stays if it shows the Version to show
\* (retainRepresentationsConfirmedByVersion).
LoadBundle ==
  LET v      == Wanted
      active == jobs # <<>> /\ at[Len(jobs)] \notin Ended
  IN  /\ load.at = "bundle"
      /\ load' = [at |-> "rows", version |-> v, active |-> active]
      /\ listed' = DOMAIN file
      /\ IF roll # None /\ roll.version # v THEN Unmount
         ELSE UNCHANGED <<roll, draft, saving, strays>>
      /\ UNCHANGED <<versions, queue, selected, action, operation, handled, moves, faults>>

\* Mutant of Mounted: the guard outlives the coordinator.
MountedKnowing(h) == h

\* handledAction of a coordinator that is mounted, h that of the last one.
Mounted(h) == 0

\* The notes are there; without notes there is no roll.
LoadRows ==
  LET notes == rows[load.version]
  IN  /\ load.at = "rows"
      /\ load' = [at |-> "idle", version |-> load.version, active |-> load.active]
      /\ roll' = IF notes = {} THEN roll ELSE [version |-> load.version, rows |-> notes]
      /\ handled' = IF roll = None THEN Mounted(handled) ELSE handled
      /\ UNCHANGED <<versions, queue, listed, selected, draft, action, operation, saving, strays,
                     moves, faults>>

\* The timer a load leaves that saw an active Job.
Refresh ==
  /\ load.at = "idle" /\ load.active
  /\ load' = [at |-> "bundle", version |-> load.version, active |-> load.active]
  /\ UNCHANGED <<versions, queue, roll, listed, selected, draft, action, operation, handled,
                 saving, strays, moves, faults>>

(* The coordinator *)

\* The effect: the run before is cancelled.
Handle ==
  /\ roll # None /\ action # None /\ action.id # handled
  /\ handled' = action.id
  /\ saving' = [at |-> "bundle", action |-> action, job |-> 0]
  /\ strays' = strays \cup Cancelled
  /\ operation' = "running"
  /\ UNCHANGED <<versions, queue, roll, listed, selected, load, draft, action, moves, faults>>

\* getWorkBundle, for the Project of the Work.
FindProject ==
  /\ saving.at = "bundle"
  /\ saving' = [at |-> "post", action |-> saving.action, job |-> 0]
  /\ UNCHANGED <<versions, queue, roll, listed, selected, load, draft, action, operation, handled,
                 strays, moves, faults>>

\* Mutant of KeyTaken: no index on cache_key.
KeyNeverTaken(a) == FALSE

\* The cache_key of a correction is its source and its span.
KeyTaken(a) ==
  \E j \in DOMAIN jobs : /\ jobs[j].source = a.source
                         /\ jobs[j].edit.from = a.edit.from /\ jobs[j].edit.to = a.edit.to

\* create_correct_workflow
Create(a) ==
  jobs' = Append(jobs, a) /\ at' = Append(at, "queued") /\ output' = Append(output, 0)

Over(how) == operation' = how /\ saving' = Resting

Post ==
  /\ saving.at = "post"
  /\ \/ /\ KeyTaken(saving.action)
        /\ Over("error")
        /\ UNCHANGED queue
     \/ /\ ~KeyTaken(saving.action)
        /\ Create(saving.action)
        /\ saving' = [at |-> "wait", action |-> saving.action, job |-> Len(jobs) + 1]
        /\ UNCHANGED operation
  /\ UNCHANGED <<versions, roll, listed, selected, load, draft, action, handled, strays, moves,
                 faults>>

StrayPost(a) ==
  /\ a \in strays
  /\ strays' = strays \ {a}
  /\ IF KeyTaken(a) THEN UNCHANGED queue ELSE Create(a)
  /\ UNCHANGED <<versions, roll, listed, selected, load, draft, action, operation, handled,
                 saving, moves, faults>>

\* A request of the coordinator fails, before or after it was served.
LoseRequest ==
  /\ saving.at \in {"bundle", "post"}
  /\ Fault /\ Over("error")
  /\ \/ saving.at = "post" /\ ~KeyTaken(saving.action) /\ Create(saving.action)
     \/ UNCHANGED queue
  /\ UNCHANGED <<versions, roll, listed, selected, load, draft, action, handled, strays, moves>>

\* waitForJob settles.
Observe ==
  /\ saving.at = "wait"
  /\ \/ /\ at[saving.job] = "succeeded"
        /\ Over("success") /\ Select(output[saving.job])
     \/ /\ at[saving.job] = "failed"
        /\ Over("error") /\ UNCHANGED <<selected, load>>
  /\ UNCHANGED <<versions, queue, roll, listed, draft, action, handled, strays, moves, faults>>

\* waitForJob gives up (JobTracking).
LoseJob ==
  /\ saving.at = "wait"
  /\ Fault /\ Over("disconnected")
  /\ UNCHANGED <<versions, queue, roll, listed, selected, load, draft, action, handled, strays,
                 moves>>

(* The handler *)

To(j, place)    == at' = [at EXCEPT ![j] = place]
SetRows(j, ids) == rows' = [rows EXCEPT ![output[j]] = ids]

\* The corrected file is uploaded and published, without entities.
Publish(j) ==
  /\ at[j] = "queued"
  /\ file' = Append(file, Encoded(Replaced(file[jobs[j].source], jobs[j].edit)))
  /\ rows' = Append(rows, {}) /\ maker' = Append(maker, j)
  /\ To(j, "adding")
  /\ output' = [output EXCEPT ![j] = Len(file) + 1]
  /\ UNCHANGED <<jobs, browser, moves, faults>>

OwnRows(j) == {<<"given", n>> : n \in jobs[j].edit.notes}

\* handle_correct makes an entity of each note it was given, one by one.
AddRow(j) ==
  /\ at[j] = "adding"
  /\ \E row \in OwnRows(j) \ rows[output[j]] : SetRows(j, rows[output[j]] \cup {row})
  /\ UNCHANGED <<file, maker, queue, browser, moves, faults>>

\* Mutant of Clear: the handler that makes entities of its own notes only.
ClearNothing(j) ==
  /\ at[j] = "adding" /\ OwnRows(j) \subseteq rows[output[j]]
  /\ To(j, "filled")
  /\ UNCHANGED <<versions, jobs, output, browser, moves, faults>>

\* The adapter reads the file, removes the entities and adds those of the file.
Clear(j) ==
  /\ at[j] = "adding" /\ OwnRows(j) \subseteq rows[output[j]]
  /\ SetRows(j, {}) /\ To(j, "cleared")
  /\ UNCHANGED <<file, maker, jobs, output, browser, moves, faults>>

\* One insert: EntityRepo.create_many sends up to 500 entities at a time.
Fill(j) ==
  /\ at[j] = "cleared"
  /\ SetRows(j, Whole(file[output[j]])) /\ To(j, "filled")
  /\ UNCHANGED <<file, maker, jobs, output, browser, moves, faults>>

Succeed(j) ==
  /\ at[j] = "filled"
  /\ To(j, "succeeded")
  /\ UNCHANGED <<versions, jobs, output, browser, moves, faults>>

\* The Job is delivered again, or tried again: its handler looks for nothing
\* and publishes another Version.
Restart(j) ==
  /\ at[j] \in {"adding", "cleared", "filled"}
  /\ Fault /\ To(j, "queued")
  /\ output' = [output EXCEPT ![j] = 0]
  /\ UNCHANGED <<versions, jobs, browser, moves>>

\* It fails for good, or is cancelled.
Stop(j) ==
  /\ at[j] \notin Ended
  /\ Fault /\ To(j, "failed")
  /\ UNCHANGED <<versions, jobs, output, browser, moves>>

(* The system *)

Loading      == LoadBundle \/ LoadRows \/ Refresh
Coordinating == Handle \/ FindProject \/ Post \/ Observe \/ \E a \in strays : StrayPost(a)
Working      == \E j \in DOMAIN jobs :
                  Publish(j) \/ AddRow(j) \/ Clear(j) \/ Fill(j) \/ Succeed(j)
User         == Edit \/ Change \/ Cancel \/ Save \/ \E v \in listed : Choose(v)
Faults       == LoseRequest \/ LoseJob \/ \E j \in DOMAIN jobs : Restart(j) \/ Stop(j)

Next == Loading \/ Coordinating \/ Working \/ User \/ Faults
Spec == Init /\ [][Next]_vars

\* Requests are answered or fail, effects run, and the worker runs its Jobs.
Fairness == WF_vars(Loading) /\ WF_vars(Coordinating) /\ WF_vars(Working)
FairSpec == Spec /\ Fairness

(* Properties *)

\* A correction whose author began with all notes in sight makes a file of
\* exactly the notes that were drafted, whatever else was loaded, sent or
\* saved in between: the span and the notes sent are enough for the handler.
SavedIsTheDraft ==
  \A v \in DOMAIN file \ {1} :
    jobs[maker[v]].whole => file[v] = Encoded(jobs[maker[v]].meant)

\* The output of a correction that succeeded has an entity for each note of
\* its file, though it was published with none and had others in between.
SucceededIsWhole ==
  \A j \in DOMAIN jobs : at[j] = "succeeded" => rows[output[j]] = Whole(file[output[j]])

\* However often a correction is sent, it makes at most one Job.
OneJobPerSave == \A j, k \in DOMAIN jobs : jobs[j].id = jobs[k].id => j = k

\* The editor is not busy for ever: a coordinator that is taken away with its
\* roll leaves the rest to the next one, unless no notes bring the roll back.
SavesSettle ==
  operation = "running" ~>
    operation # "running" \/ rows[Wanted] = {}

\* "Couldn't save correction" is said only of a correction that was not saved:
\* a mounted coordinator handles an action once (handledAction, its "local
\* de-duplication guard").
ErrorsAreOfUnsavedCorrections ==
  operation = "error" => ~ \E j \in DOMAIN jobs : jobs[j].id = action.id /\ at[j] = "succeeded"
=============================================================================
