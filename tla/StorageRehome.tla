---------------------------- MODULE StorageRehome ----------------------------
(***************************************************************************)
(* Re-homing a legacy Version: copying its bytes to a trusted key and      *)
(* publishing a Version that refers to the copy                            *)
(* (backend/domain/storage_locator_rehome.py and the two migrations that   *)
(* fence the publication).                                                 *)
(*                                                                         *)
(* Operators run the tool by hand, several at a time and again after a     *)
(* failure.  A run works from a snapshot of the rows; the copy's key and   *)
(* its Version's id are derived from the source, so that runs meet.        *)
(* Meanwhile the Artifact may get other Versions and its Work may be       *)
(* deleted (api/projects_works.py).  All is about one Artifact.            *)
(*                                                                         *)
(* The latest Version is the one with the greatest created_at, which is    *)
(* fixed when the object is built, not when its row goes in.  The legacy   *)
(* Versions are older than all others; how copies and other Versions sort  *)
(* among each other is left open, as no step depends on it.                *)
(***************************************************************************)
EXTENDS Naturals, Sequences

CONSTANTS Operator,  \* runs of the tool that may overlap
          Count,     \* number of Versions with an untrusted locator, oldest first
          Later,     \* other Versions the Artifact may get
          MaxFaults  \* bound on failed calls and deaths

ASSUME RehomeAssumption == Count \in Nat /\ MaxFaults \in Nat

Legacy  == 1..Count
Row(s)  == <<"legacy", s>>
Copy(s) == <<"copy", s>>
Version == ({"legacy", "copy"} \X Legacy) \cup ({"later"} \X Later)

VARIABLES
  chain,    \* the rows of the Artifact's Versions in the order they went in
  legacy,   \* source -> its object: "none", "sound" or "other" than its row says
  copied,   \* source -> the object under its copy's key: "none", "sound" or "corrupt"
  pc,       \* operator -> where its run is
  source,   \* operator -> the Version it selected
  applies,  \* operator -> --apply was given
  deletion, \* where the deletion of the Work is
  doomed,   \* sources whose copies that deletion has read and will clean up
  faults

vars == <<chain, legacy, copied, pc, source, applies, deletion, doomed, faults>>

AtRest == {"idle", "refused", "reported", "unverified", "failed", "applied"}
Busy   == {"existing", "source", "destination", "upload", "verify", "undo", "publish"}

TypeOK ==
  /\ chain \in Seq(Version)
  /\ legacy \in [Legacy -> {"none", "sound", "other"}]
  /\ copied \in [Legacy -> {"none", "sound", "corrupt"}]
  /\ pc \in [Operator -> AtRest \cup Busy]
  /\ source \in [Operator -> Legacy]
  /\ applies \in [Operator -> BOOLEAN]
  /\ deletion \in {"idle", "loaded", "clean", "done"}
  /\ doomed \in SUBSET Legacy
  /\ faults \in 0..MaxFaults

Init ==
  /\ chain = [s \in Legacy |-> Row(s)]
  /\ legacy \in [Legacy -> {"none", "sound", "other"}]
  /\ copied = [s \in Legacy |-> "none"]
  /\ pc = [p \in Operator |-> "idle"]
  /\ source \in [Operator -> Legacy]
  /\ applies = [p \in Operator |-> FALSE]
  /\ deletion = "idle"
  /\ doomed = {}
  /\ faults = 0

At(p, state)   == pc[p] = state
Goto(p, state) == pc' = [pc EXCEPT ![p] = state]
Fail           == faults < MaxFaults /\ faults' = faults + 1
Published(v)   == \E i \in DOMAIN chain : chain[i] = v
SetCopy(s, o)  == copied' = [copied EXCEPT ![s] = o]

\* No row has a later created_at: copies and the others are newer than all sources.
Latest(s) ==
  /\ Published(Row(s))
  /\ \A i \in DOMAIN chain : \E r \in 1..s : chain[i] = Row(r)

invocation == <<source, applies>>
removal    == <<deletion, doomed>>

(* A run of the tool *)

\* load_audit_rows and what rehome_selected_storage decides from its snapshot
Begin(p, s, apply) ==
  /\ pc[p] \in AtRest
  /\ source' = [source EXCEPT ![p] = s]
  /\ applies' = [applies EXCEPT ![p] = apply]
  /\ Goto(p, IF ~Published(Row(s)) THEN "refused"
             ELSE IF Published(Copy(s)) THEN "existing"
             ELSE IF ~Latest(s) THEN "refused" ELSE "source")
  /\ UNCHANGED <<chain, legacy, copied, removal, faults>>

\* _existing_replacement_result
VerifyExisting(p) ==
  /\ At(p, "existing")
  /\ Goto(p, IF copied[source[p]] = "sound" THEN "applied" ELSE "failed")
  /\ UNCHANGED <<chain, legacy, copied, invocation, removal, faults>>

\* The source's bytes are compared with its row, and a dry run is over.
ReadSource(p) ==
  /\ At(p, "source")
  /\ Goto(p, IF legacy[source[p]] = "sound" /\ applies[p] THEN "destination" ELSE "reported")
  /\ UNCHANGED <<chain, legacy, copied, invocation, removal, faults>>

\* Mutant of ReadDestination: a copy is only ever used by the run that made it.
ReadDestinationOnce(p) ==
  /\ At(p, "destination")
  /\ Goto(p, IF copied[source[p]] = "none" THEN "upload" ELSE "unverified")
  /\ UNCHANGED <<chain, legacy, copied, invocation, removal, faults>>

\* Bytes that an earlier run left are used when they are the right ones.
ReadDestination(p) ==
  /\ At(p, "destination")
  /\ Goto(p, CASE copied[source[p]] = "none"    -> "upload"
               [] copied[source[p]] = "sound"   -> "publish"
               [] copied[source[p]] = "corrupt" -> "unverified")
  /\ UNCHANGED <<chain, legacy, copied, invocation, removal, faults>>

\* _upload, which replaces nothing
Upload(p) ==
  /\ At(p, "upload")
  /\ IF copied[source[p]] = "none"
       THEN SetCopy(source[p], "sound") /\ Goto(p, "verify")
       ELSE Goto(p, "failed") /\ UNCHANGED copied
  /\ UNCHANGED <<chain, legacy, invocation, removal, faults>>

Verify(p) ==
  /\ At(p, "verify")
  /\ Goto(p, IF copied[source[p]] = "sound" THEN "publish" ELSE "undo")
  /\ UNCHANGED <<chain, legacy, copied, invocation, removal, faults>>

\* _remove_new_destination
Undo(p) ==
  /\ At(p, "undo")
  /\ SetCopy(source[p], "none")
  /\ Goto(p, "failed")
  /\ UNCHANGED <<chain, legacy, invocation, removal, faults>>

\* Mutant of Admits: the snapshot's word that the source is the latest is enough.
AdmitsStale(s) == Published(Row(s)) /\ copied[s] # "none"

\* publish_storage_rehome_version and the insert trigger: the source is still
\* the latest Version of the table, and there is an object under the key.
Admits(s) == Latest(s) /\ copied[s] # "none"

\* A copy that is published already is answered again.
Publish(p) ==
  /\ At(p, "publish")
  /\ LET s == source[p] IN
       \/ /\ Published(Row(s)) /\ Published(Copy(s))
          /\ Goto(p, "applied")
          /\ UNCHANGED chain
       \/ /\ Admits(s) /\ ~Published(Copy(s))
          /\ chain' = Append(chain, Copy(s))
          /\ Goto(p, "applied")
       \/ /\ ~(Published(Row(s)) /\ Published(Copy(s))) /\ ~Admits(s)
          /\ Goto(p, "failed")
          /\ UNCHANGED chain
  /\ UNCHANGED <<legacy, copied, invocation, removal, faults>>

(* Faults *)

\* A download fails without proving the object missing, or the process dies.
ReadFails(p) ==
  /\ pc[p] \in Busy
  /\ Fail /\ Goto(p, "failed")
  /\ UNCHANGED <<chain, legacy, copied, invocation, removal>>

\* An upload stores other bytes, or all or some of them although it raises.
UploadFails(p) ==
  /\ At(p, "upload") /\ copied[source[p]] = "none"
  /\ Fail
  /\ \/ SetCopy(source[p], "corrupt") /\ pc' \in {[pc EXCEPT ![p] = x] : x \in {"verify", "failed"}}
     \/ SetCopy(source[p], "sound") /\ Goto(p, "failed")
  /\ UNCHANGED <<chain, legacy, invocation, removal>>

\* Mutant of AfterLostReply: the copied bytes are taken back.
AfterLostReplyTakesBack == "undo"

\* Mutant of AfterLostReply: the publication is taken to have happened.
AfterLostReplyApplied == "applied"

AfterLostReply == "failed"

\* The publication commits but its reply is lost, or it does not commit.
PublishFails(p) ==
  /\ At(p, "publish")
  /\ Fail
  /\ \/ Admits(source[p]) /\ ~Published(Copy(source[p])) /\ chain' = Append(chain, Copy(source[p]))
     \/ UNCHANGED chain
  /\ Goto(p, AfterLostReply)
  /\ UNCHANGED <<legacy, copied, invocation, removal>>

(* Others *)

\* VersionRepo.create, some time after the object was built; the trigger lets it in
\* as it is.
InsertVersion(v) ==
  /\ chain # <<>> /\ ~Published(<<"later", v>>)
  /\ chain' = Append(chain, <<"later", v>>)
  /\ UNCHANGED <<legacy, copied, pc, invocation, removal, faults>>

\* WorkBundleRepository.load; the legacy locators are not trusted.
LoadWork ==
  /\ deletion = "idle"
  /\ deletion' = "loaded"
  /\ doomed' = {s \in Legacy : Published(Copy(s))}
  /\ UNCHANGED <<chain, legacy, copied, pc, invocation, faults>>

DeleteRows ==
  /\ deletion = "loaded"
  /\ deletion' = "clean"
  /\ chain' = <<>>
  /\ UNCHANGED <<legacy, copied, pc, invocation, doomed, faults>>

RemoveBytes(s) ==
  /\ deletion = "clean" /\ s \in doomed
  /\ SetCopy(s, "none")
  /\ doomed' = doomed \ {s}
  /\ UNCHANGED <<chain, legacy, pc, invocation, deletion, faults>>

\* The deletion ends, or fails on the way.
EndDeletion ==
  /\ \/ deletion = "clean" /\ doomed = {} /\ UNCHANGED <<chain, faults>>
     \/ deletion \in {"loaded", "clean"} /\ Fail /\ UNCHANGED chain
     \/ deletion = "loaded" /\ Fail /\ chain' = <<>>
  /\ deletion' = "done"
  /\ UNCHANGED <<legacy, copied, pc, invocation, doomed>>

Run(p) ==
  \/ VerifyExisting(p) \/ ReadSource(p) \/ ReadDestination(p) \/ Upload(p) \/ Verify(p)
  \/ Undo(p) \/ Publish(p)

Next ==
  \/ \E p \in Operator : Run(p) \/ ReadFails(p) \/ UploadFails(p) \/ PublishFails(p)
  \/ \E p \in Operator, s \in Legacy, apply \in BOOLEAN : Begin(p, s, apply)
  \/ \E v \in Later : InsertVersion(v)
  \/ \E s \in Legacy : RemoveBytes(s)
  \/ LoadWork \/ DeleteRows \/ EndDeletion

Spec == Init /\ [][Next]_vars

\* A run goes on, and each source is selected again and again with --apply.
Fairness ==
  /\ \A p \in Operator : WF_vars(Run(p))
  /\ \A s \in Legacy : SF_vars(\E p \in Operator : Begin(p, s, TRUE))

FairSpec == Spec /\ Fairness

(* Properties *)

\* A published copy has the bytes that were verified, whatever runs overlap, fail
\* or are told that the outcome is unknown, and while its Work is being deleted.
CopiesHaveBytes == \A s \in Legacy : Published(Copy(s)) => copied[s] = "sound"

\* When a copy went in, the table had nothing newer than its source, though the run
\* took the source for the latest long before: no Version that was there is hidden
\* behind a copy of something older.  Nothing is said of what goes in later, which may
\* have been built before the copy.
CopiesAreOfTheLatest ==
  \A s \in Legacy, i \in DOMAIN chain :
    chain[i] = Copy(s) => \A k \in 1..(i - 1) : \E r \in 1..s : chain[k] = Row(r)

\* A run that reports the copy as applied is right unless the Work is deleted.
ReportsAreTrue ==
  \A p \in Operator :
    At(p, "applied") => Published(Copy(source[p])) \/ Len(chain) = 0

\* The source could be re-homed now, if it is not already.
Rehomable(s) == Latest(s) /\ legacy[s] = "sound"

\* With finitely many faults, runs that are repeated end in a published copy, also
\* when the reply to the publication was lost, two runs upload the same copy or one
\* died after its upload: unless the source is outdated or deleted, or bytes that
\* are not its own were left under the copy's key.
RerunsConverge ==
  \A s \in Legacy :
    Rehomable(s) ~> (Published(Copy(s)) \/ ~Rehomable(s) \/ copied[s] = "corrupt")
=============================================================================
