------------------------ MODULE StorageRehome_proofs ------------------------
(***************************************************************************)
(* Proofs about StorageRehome, for any number of legacy Versions, of runs  *)
(* that overlap and of failed calls.                                       *)
(***************************************************************************)
EXTENDS StorageRehome, SequenceTheorems, TLAPS

(* The rows *)

LEMMA VersionsDiffer ==
  ASSUME NEW s \in Legacy
  PROVE  /\ Row(s) \in Version /\ Copy(s) \in Version
         /\ \A t \in Legacy : Row(t) # Copy(s)
         /\ \A t \in Legacy : Copy(s) = Copy(t) => s = t
         /\ \A v \in Later : <<"later", v>> \in Version /\ <<"later", v>> # Copy(s)
BY DEF Row, Copy, Version

\* What appending a row to the chain changes.
LEMMA ChainGrows ==
  ASSUME chain \in Seq(Version), NEW v \in Version, chain' = Append(chain, v)
  PROVE  /\ chain' \in Seq(Version)
         /\ Len(chain') = Len(chain) + 1 /\ Len(chain') > 0
         /\ DOMAIN chain' = 1..(Len(chain) + 1) /\ DOMAIN chain = 1..Len(chain)
         /\ \A i \in DOMAIN chain : chain'[i] = chain[i]
         /\ chain'[Len(chain) + 1] = v
         /\ \A u : Published(u)' <=> Published(u) \/ u = v
<1>1. /\ chain' \in Seq(Version)
      /\ Len(chain') = Len(chain) + 1
      /\ \A i \in 1..Len(chain) : chain'[i] = chain[i]
      /\ chain'[Len(chain) + 1] = v
  BY AppendProperties
<1>2. /\ Len(chain) \in Nat
      /\ DOMAIN chain' = 1..(Len(chain) + 1) /\ DOMAIN chain = 1..Len(chain)
  BY <1>1, LenProperties
<1>3. \A u : Published(u)' <=> Published(u) \/ u = v
  BY <1>1, <1>2 DEF Published
<1> QED
  BY <1>1, <1>2, <1>3

\* What a row that is there says of the chain.
LEMMA PublishedMeansRows ==
  ASSUME chain \in Seq(Version), NEW v, Published(v)
  PROVE  chain # <<>> /\ Len(chain) > 0
<1>1. PICK i \in 1..Len(chain) : chain[i] = v
  BY LenProperties DEF Published
<1> QED
  BY <1>1, LenProperties

\* The rows a step can leave: those of before, with a row more, or none.
Kept    == chain' = chain
Emptied == chain' = <<>>
Grown(v) == chain # <<>> /\ chain' = Append(chain, v)

LEMMA RowsSteps ==
  ASSUME TypeOK, [Next]_vars
  PROVE  \/ Kept
         \/ Emptied /\ (DeleteRows \/ EndDeletion)
         \/ \E v \in Later : Grown(<<"later", v>>) /\ InsertVersion(v)
         \/ \E p \in Operator : /\ At(p, "publish") /\ Latest(source[p])
                                /\ copied[source[p]] # "none"
                                /\ Grown(Copy(source[p]))
                                /\ Publish(p) \/ PublishFails(p)
<1> USE DEF Kept
<1>1. ASSUME NEW p \in Operator, Run(p), ~Publish(p) PROVE Kept
  BY <1>1 DEF Run, VerifyExisting, ReadSource, ReadDestination, Upload, Verify, Undo
<1>2. ASSUME NEW p \in Operator, Publish(p) \/ PublishFails(p), ~Kept
      PROVE  /\ At(p, "publish") /\ Latest(source[p]) /\ copied[source[p]] # "none"
             /\ Grown(Copy(source[p]))
  <2>1. At(p, "publish") /\ Admits(source[p]) /\ chain' = Append(chain, Copy(source[p]))
    BY <1>2 DEF Publish, PublishFails
  <2>2. chain # <<>>
    BY <2>1, PublishedMeansRows DEF Admits, Latest, TypeOK
  <2> QED
    BY <2>1, <2>2 DEF Admits, Grown
<1>3. ASSUME NEW p \in Operator, ReadFails(p) \/ UploadFails(p) PROVE Kept
  BY <1>3 DEF ReadFails, UploadFails
<1>4. ASSUME NEW p \in Operator, NEW s \in Legacy, NEW apply \in BOOLEAN, Begin(p, s, apply)
      PROVE  Kept
  BY <1>4 DEF Begin
<1>5. ASSUME NEW v \in Later, InsertVersion(v) PROVE Grown(<<"later", v>>)
  BY <1>5 DEF InsertVersion, Grown
<1>6. ASSUME NEW s \in Legacy, RemoveBytes(s) PROVE Kept
  BY <1>6 DEF RemoveBytes
<1>7. CASE LoadWork \/ DeleteRows \/ EndDeletion
  BY <1>7 DEF LoadWork, DeleteRows, EndDeletion, Emptied
<1>8. CASE UNCHANGED vars
  BY <1>8 DEF vars
<1> HIDE DEF Kept
<1> QED
  BY <1>1, <1>2, <1>3, <1>4, <1>5, <1>6, <1>7, <1>8, Zenon DEF Next

(* Types *)

LEMMA TypeInit == Init => TypeOK
<1> SUFFICES ASSUME Init PROVE TypeOK
  OBVIOUS
<1>1. chain \in [1..Count -> Version]
  BY DEF Init, Legacy, Row, Version
<1>2. chain \in Seq(Version)
  BY <1>1, RehomeAssumption, SeqDef
<1> QED
  BY <1>2, RehomeAssumption DEF Init, TypeOK, AtRest

LEMMA TypeNext == TypeOK /\ [Next]_vars => TypeOK'
<1> SUFFICES ASSUME TypeOK, [Next]_vars PROVE TypeOK'
  OBVIOUS
<1>1. chain' \in Seq(Version)
  <2>1. CASE Kept \/ Emptied
    BY <2>1, EmptySeq DEF Kept, Emptied, TypeOK
  <2>2. ASSUME NEW v \in Later, Grown(<<"later", v>>) PROVE chain' \in Seq(Version)
    <3>1. <<"later", v>> \in Version
      BY DEF Version
    <3> QED
      BY <2>2, <3>1, ChainGrows DEF Grown, TypeOK
  <2>3. ASSUME NEW p \in Operator, Grown(Copy(source[p])) PROVE chain' \in Seq(Version)
    <3>1. Copy(source[p]) \in Version
      BY DEF TypeOK, Copy, Version
    <3> QED
      BY <2>3, <3>1, ChainGrows DEF Grown, TypeOK
  <2> QED
    BY <2>1, <2>2, <2>3, RowsSteps
<1> DEFINE Rest == /\ legacy' \in [Legacy -> {"none", "sound", "other"}]
                   /\ copied' \in [Legacy -> {"none", "sound", "corrupt"}]
                   /\ pc' \in [Operator -> AtRest \cup Busy]
                   /\ source' \in [Operator -> Legacy]
                   /\ applies' \in [Operator -> BOOLEAN]
                   /\ deletion' \in {"idle", "loaded", "clean", "done"}
                   /\ doomed' \in SUBSET Legacy
                   /\ faults' \in 0..MaxFaults
<1> USE RehomeAssumption
<1> USE DEF TypeOK, At, Goto, SetCopy, Fail, AtRest, Busy, invocation, removal
<1>2. ASSUME NEW p \in Operator, Run(p) PROVE Rest
  <2>1. CASE VerifyExisting(p) \/ ReadSource(p) \/ Verify(p)
    BY <2>1 DEF VerifyExisting, ReadSource, Verify
  <2>2. CASE ReadDestination(p)
    BY <2>2 DEF ReadDestination
  <2>3. CASE Upload(p) \/ Undo(p)
    BY <2>3 DEF Upload, Undo
  <2>4. CASE Publish(p)
    BY <2>4 DEF Publish
  <2> QED
    BY <1>2, <2>1, <2>2, <2>3, <2>4 DEF Run
<1>3. ASSUME NEW p \in Operator, ReadFails(p) PROVE Rest
  BY <1>3 DEF ReadFails
<1>4. ASSUME NEW p \in Operator, UploadFails(p) PROVE Rest
  BY <1>4 DEF UploadFails
<1>5. ASSUME NEW p \in Operator, PublishFails(p) PROVE Rest
  BY <1>5 DEF PublishFails, AfterLostReply
<1>6. ASSUME NEW p \in Operator, NEW s \in Legacy, NEW apply \in BOOLEAN, Begin(p, s, apply)
      PROVE  Rest
  BY <1>6 DEF Begin
<1>7. ASSUME NEW v \in Later, InsertVersion(v) PROVE Rest
  BY <1>7 DEF InsertVersion
<1>8. ASSUME NEW s \in Legacy, RemoveBytes(s) PROVE Rest
  BY <1>8 DEF RemoveBytes
<1>9. ASSUME LoadWork \/ DeleteRows \/ EndDeletion PROVE Rest
  <2>1. CASE LoadWork
    BY <2>1 DEF LoadWork
  <2>2. CASE DeleteRows
    BY <2>2 DEF DeleteRows
  <2>3. CASE EndDeletion
    BY <2>3 DEF EndDeletion
  <2> QED
    BY <1>9, <2>1, <2>2, <2>3
<1>10. ASSUME UNCHANGED vars PROVE Rest
  BY <1>10 DEF vars
<1>11. Rest
  <2> HIDE DEF Rest, TypeOK, At, Goto, SetCopy, Fail, AtRest, Busy, invocation, removal
  <2> QED
    BY <1>2, <1>3, <1>4, <1>5, <1>6, <1>7, <1>8, <1>9, <1>10 DEF Next
<1> QED
  BY <1>1, <1>11

(* The bytes of the copies *)

\* As long as the Work has rows, a run at "publish" has verified the bytes under its
\* key, and the bytes of a run at "undo" are wrong; only one run at a time made them.
\* The rows go before any bytes are cleaned up.
BytesAreKnown ==
  /\ chain # <<>> =>
       /\ \A p \in Operator :
            /\ At(p, "publish") => copied[source[p]] = "sound"
            /\ At(p, "verify") => copied[source[p]] # "none"
            /\ At(p, "undo") => copied[source[p]] = "corrupt"
       /\ \A p, q \in Operator :
            pc[p] \in {"verify", "undo"} /\ pc[q] \in {"verify", "undo"}
              /\ source[p] = source[q] => p = q
  /\ deletion = "clean" => chain = <<>>

LEMMA BytesNext ==
  ASSUME TypeOK, BytesAreKnown, CopiesHaveBytes, [Next]_vars
  PROVE  BytesAreKnown' /\ CopiesHaveBytes'
<1> DEFINE Known ==
      /\ \A p \in Operator :
           /\ At(p, "publish") => copied[source[p]] = "sound"
           /\ At(p, "verify") => copied[source[p]] # "none"
           /\ At(p, "undo") => copied[source[p]] = "corrupt"
      /\ \A p, q \in Operator :
           pc[p] \in {"verify", "undo"} /\ pc[q] \in {"verify", "undo"}
             /\ source[p] = source[q] => p = q
\* Copies that are published keep their bytes ...
<1>1. ASSUME NEW p \in Operator, Run(p), chain # <<>> PROVE Known'
  <2> USE DEF BytesAreKnown, TypeOK, At, Goto, SetCopy, invocation
  <2>1. CASE VerifyExisting(p) \/ ReadSource(p)
    BY <1>1, <2>1 DEF VerifyExisting, ReadSource
  <2>2. CASE ReadDestination(p)
    BY <1>1, <2>2 DEF ReadDestination
  <2>3. CASE Upload(p)
    BY <1>1, <2>3 DEF Upload
  <2>4. CASE Verify(p)
    BY <1>1, <2>4 DEF Verify
  <2>5. CASE Undo(p)
    BY <1>1, <2>5 DEF Undo
  <2>6. CASE Publish(p)
    BY <1>1, <2>6 DEF Publish
  <2> QED
    BY <1>1, <2>1, <2>2, <2>3, <2>4, <2>5, <2>6 DEF Run
<1>2. ASSUME NEW p \in Operator, ReadFails(p) \/ PublishFails(p), chain # <<>> PROVE Known'
  BY <1>2 DEF ReadFails, PublishFails, AfterLostReply, BytesAreKnown, TypeOK, At, Goto, invocation
<1>3. ASSUME NEW p \in Operator, UploadFails(p), chain # <<>> PROVE Known'
  BY <1>3 DEF UploadFails, BytesAreKnown, TypeOK, At, Goto, SetCopy, invocation
<1>4. ASSUME NEW p \in Operator, NEW s \in Legacy, NEW apply \in BOOLEAN,
             Begin(p, s, apply), chain # <<>>
      PROVE  Known'
  BY <1>4 DEF Begin, BytesAreKnown, TypeOK, At, Goto, AtRest
<1>5. ASSUME UNCHANGED <<pc, source, copied>>, chain # <<>> PROVE Known'
  BY <1>5 DEF BytesAreKnown, At
<1>6. ASSUME NEW s \in Legacy, RemoveBytes(s), chain # <<>> PROVE FALSE
  BY <1>6 DEF RemoveBytes, BytesAreKnown
<1>7. ASSUME chain # <<>> PROVE Known'
  <2>1. CASE (\E v \in Later : InsertVersion(v)) \/ LoadWork \/ DeleteRows \/ EndDeletion
    BY <1>5, <1>7, <2>1
       DEF InsertVersion, LoadWork, DeleteRows, EndDeletion, invocation
  <2>2. CASE UNCHANGED vars
    BY <1>5, <1>7, <2>2 DEF vars
  <2> HIDE DEF Known
  <2> QED
    BY <1>1, <1>2, <1>3, <1>4, <1>6, <1>7, <2>1, <2>2 DEF Next
<1>8. chain' # <<>> => chain # <<>>
  BY RowsSteps DEF Kept, Emptied, Grown
<1>9. deletion' = "clean" => chain' = <<>>
  <2>1. CASE deletion = "clean"
    BY <1>8, <2>1 DEF BytesAreKnown
  <2>2. CASE deletion # "clean" /\ deletion' = "clean"
    <3>1. DeleteRows
      BY <2>2 DEF Next, vars, Run, VerifyExisting, ReadSource, ReadDestination, Upload,
         Verify, Undo, Publish, ReadFails, UploadFails, PublishFails, Begin, InsertVersion,
         RemoveBytes, LoadWork, EndDeletion, removal
    <3> QED
      BY <3>1 DEF DeleteRows
  <2> QED
    BY <2>1, <2>2
<1>10. BytesAreKnown'
  BY <1>7, <1>8, <1>9 DEF BytesAreKnown
\* ... and a copy is published only with them.
<1>11. ASSUME NEW s \in Legacy, Published(Copy(s))' PROVE copied'[s] = "sound"
  <2>1. chain # <<>>
    BY <1>8, <1>11 DEF Published
  <2>2. Published(Copy(s)) => copied[s] = "sound"
    BY DEF CopiesHaveBytes
  <2>3. ASSUME copied[s] = "sound" PROVE copied'[s] = "sound"
    <3>1. ASSUME NEW p \in Operator, Run(p) PROVE copied'[s] = "sound"
      BY <2>1, <2>3, <3>1 DEF Run, VerifyExisting, ReadSource, ReadDestination, Upload, Verify,
         Undo, Publish, BytesAreKnown, TypeOK, At, SetCopy
    <3>2. ASSUME NEW p \in Operator, UploadFails(p) PROVE copied'[s] = "sound"
      BY <2>3, <3>2 DEF UploadFails, SetCopy, TypeOK
    <3>3. CASE UNCHANGED copied
      BY <2>3, <3>3
    <3>4. \/ UNCHANGED copied
          \/ \E p \in Operator : Run(p) \/ UploadFails(p)
          \/ \E t \in Legacy : RemoveBytes(t)
      BY DEF Next, vars, ReadFails, PublishFails, Begin, InsertVersion, LoadWork, DeleteRows,
         EndDeletion
    <3> QED
      BY <1>6, <2>1, <3>1, <3>2, <3>3, <3>4
  <2>4. CASE Published(Copy(s))
    BY <2>2, <2>3, <2>4
  <2>5. CASE ~Published(Copy(s))
    <3>1. PICK p \in Operator : /\ At(p, "publish") /\ Grown(Copy(source[p]))
                                /\ Publish(p) \/ PublishFails(p)
      <4>1. ASSUME NEW v \in Later, Grown(<<"later", v>>) PROVE FALSE
        <5>1. <<"later", v>> \in Version /\ <<"later", v>> # Copy(s)
          BY VersionsDiffer
        <5> QED
          BY <1>11, <2>5, <4>1, <5>1, ChainGrows DEF Grown, TypeOK
      <4>2. ~Kept /\ ~Emptied
        BY <1>8, <1>11, <2>5 DEF Kept, Emptied, Published
      <4> QED
        BY <4>1, <4>2, RowsSteps
    <3>2. source[p] \in Legacy /\ Copy(source[p]) \in Version
      BY VersionsDiffer DEF TypeOK
    <3>3. Copy(s) = Copy(source[p])
      BY <1>11, <2>5, <3>1, <3>2, ChainGrows DEF Grown, TypeOK
    <3>4. s = source[p]
      BY <3>2, <3>3, VersionsDiffer
    <3>5. copied[s] = "sound" /\ copied' = copied
      BY <2>1, <3>1, <3>4 DEF Publish, PublishFails, BytesAreKnown
    <3> QED
      BY <3>5
  <2> QED
    BY <2>4, <2>5
<1> QED
  BY <1>10, <1>11 DEF CopiesHaveBytes

(* The order of the rows *)

\* What is in the table before a row stays there when another is added.
LEMMA EarlierRowsStay ==
  ASSUME TypeOK, CopiesAreOfTheLatest, NEW v \in Version, Grown(v),
         NEW s \in Legacy, NEW i \in DOMAIN chain, chain'[i] = Copy(s),
         NEW k \in 1..(i - 1)
  PROVE  \E r \in 1..s : chain'[k] = Row(r)
<1>1. chain[i] = Copy(s)
  BY ChainGrows DEF Grown, TypeOK
<1>2. PICK r \in 1..s : chain[k] = Row(r)
  BY <1>1 DEF CopiesAreOfTheLatest
<1>3. k \in DOMAIN chain
  BY LenProperties DEF TypeOK
<1> QED
  BY <1>2, <1>3, ChainGrows DEF Grown, TypeOK

LEMMA OrderNext ==
  ASSUME TypeOK, CopiesAreOfTheLatest, [Next]_vars
  PROVE  CopiesAreOfTheLatest'
<1>1. CASE Kept
  BY <1>1 DEF Kept, CopiesAreOfTheLatest
<1>2. CASE Emptied
  BY <1>2 DEF Emptied, CopiesAreOfTheLatest
<1>3. ASSUME NEW v \in Later, Grown(<<"later", v>>) PROVE CopiesAreOfTheLatest'
  <2>1. <<"later", v>> \in Version /\ \A s \in Legacy : <<"later", v>> # Copy(s)
    BY VersionsDiffer DEF Version
  <2>2. ASSUME NEW s \in Legacy, NEW i \in DOMAIN chain', chain'[i] = Copy(s)
        PROVE  i \in DOMAIN chain
    BY <1>3, <2>1, <2>2, ChainGrows DEF Grown, TypeOK
  <2> QED
    BY <1>3, <2>1, <2>2, EarlierRowsStay DEF CopiesAreOfTheLatest
<1>4. ASSUME NEW p \in Operator, Latest(source[p]), Grown(Copy(source[p]))
      PROVE  CopiesAreOfTheLatest'
  <2> DEFINE s == source[p]
  <2>1. s \in Legacy /\ Copy(s) \in Version /\ \A t \in Legacy : Copy(s) = Copy(t) => s = t
    BY VersionsDiffer DEF TypeOK
  <2>2. \A k \in DOMAIN chain : \E r \in 1..s : chain[k] = Row(r)
    BY <1>4 DEF Latest
  <2>3. Grown(Copy(s))
    BY <1>4
  <2> HIDE DEF s
  <2>4. ASSUME NEW t \in Legacy, NEW i \in DOMAIN chain', chain'[i] = Copy(t), NEW k \in 1..(i - 1)
        PROVE  \E r \in 1..t : chain'[k] = Row(r)
    <3>1. CASE i \in DOMAIN chain
      BY <2>1, <2>3, <2>4, <3>1, EarlierRowsStay
    <3>2. CASE i = Len(chain) + 1
      <4>1. s = t
        BY <2>1, <2>3, <2>4, <3>2, ChainGrows DEF Grown, TypeOK
      <4>2. k \in DOMAIN chain
        BY <3>2, LenProperties DEF TypeOK
      <4>3. chain'[k] = chain[k]
        BY <2>1, <2>3, <4>2, ChainGrows DEF Grown, TypeOK
      <4> QED
        BY <2>2, <4>1, <4>2, <4>3
    <3> QED
      BY <2>1, <2>3, <3>1, <3>2, ChainGrows DEF Grown, TypeOK
  <2> QED
    BY <2>4 DEF CopiesAreOfTheLatest
<1> QED
  BY <1>1, <1>2, <1>3, <1>4, RowsSteps

(* What the runs report *)

\* A run that takes the copy for published, or has published it, is right.
Known(p) == pc[p] \in {"existing", "applied"} => Published(Copy(source[p])) \/ chain = <<>>

LEMMA ReportsNext ==
  ASSUME TypeOK, \A p \in Operator : Known(p), [Next]_vars
  PROVE  \A p \in Operator : Known(p)'
<1>1. ASSUME NEW s \in Legacy, Published(Copy(s)) \/ chain = <<>>
      PROVE  Published(Copy(s))' \/ chain' = <<>>
  <2>1. CASE Kept \/ Emptied
    BY <1>1, <2>1 DEF Kept, Emptied, Published
  <2>2. ASSUME NEW v \in Later, Grown(<<"later", v>>) PROVE Published(Copy(s))'
    <3>1. <<"later", v>> \in Version
      BY DEF Version
    <3> QED
      BY <1>1, <2>2, <3>1, ChainGrows DEF Grown, TypeOK
  <2>3. ASSUME NEW p \in Operator, Grown(Copy(source[p])) PROVE Published(Copy(s))'
    <3>1. Copy(source[p]) \in Version
      BY VersionsDiffer DEF TypeOK
    <3> QED
      BY <1>1, <2>3, <3>1, ChainGrows DEF Grown, TypeOK
  <2> QED
    BY <2>1, <2>2, <2>3, RowsSteps
<1> SUFFICES ASSUME NEW p \in Operator PROVE Known(p)'
  OBVIOUS
<1>0. ASSUME NEW s \in Legacy, s = source'[p], Published(Copy(s))' \/ chain' = <<>>
      PROVE  Known(p)'
  BY <1>0 DEF Known, Published
<1>2. CASE pc'[p] = pc[p] /\ source'[p] = source[p]
  <2>1. PICK s \in Legacy : s = source[p]
    BY DEF TypeOK
  <2>2. CASE Published(Copy(s)) \/ chain = <<>>
    BY <1>0, <1>1, <1>2, <2>1, <2>2
  <2>3. CASE pc'[p] \notin {"existing", "applied"}
    BY <2>3 DEF Known
  <2> QED
    BY <1>2, <2>1, <2>2, <2>3 DEF Known
<1>3. CASE ~(pc'[p] = pc[p] /\ source'[p] = source[p])
  <2>1. \/ VerifyExisting(p) \/ Publish(p)
        \/ \E s \in Legacy, apply \in BOOLEAN : Begin(p, s, apply)
        \/ pc'[p] \notin {"existing", "applied"}
    <3> USE DEF Goto, invocation, TypeOK
    <3>1. ASSUME NEW q \in Operator, Run(q) \/ ReadFails(q) \/ UploadFails(q) \/ PublishFails(q)
          PROVE  p = q
      BY <1>3, <3>1 DEF Run, VerifyExisting, ReadSource, ReadDestination, Upload, Verify, Undo,
         Publish, ReadFails, UploadFails, PublishFails
    <3>2. CASE ReadSource(p) \/ ReadDestination(p)
      BY <3>2 DEF ReadSource, ReadDestination
    <3>3. CASE Upload(p) \/ Verify(p) \/ Undo(p)
      BY <3>3 DEF Upload, Verify, Undo
    <3>4. CASE ReadFails(p) \/ UploadFails(p) \/ PublishFails(p)
      BY <3>4 DEF ReadFails, UploadFails, PublishFails, AfterLostReply
    <3>5. ASSUME NEW q \in Operator, NEW s \in Legacy, NEW apply \in BOOLEAN, Begin(q, s, apply)
          PROVE  p = q
      BY <1>3, <3>5 DEF Begin
    <3> HIDE DEF Goto, invocation, TypeOK
    <3>6. \/ \E q \in Operator : Run(q) \/ ReadFails(q) \/ UploadFails(q) \/ PublishFails(q)
          \/ \E q \in Operator, s \in Legacy, apply \in BOOLEAN : Begin(q, s, apply)
      BY <1>3 DEF Next, vars, InsertVersion, RemoveBytes, LoadWork, DeleteRows,
         EndDeletion, invocation
    <3> QED
      BY <3>1, <3>2, <3>3, <3>4, <3>5, <3>6 DEF Run
  <2>2. CASE VerifyExisting(p)
    <3>1. PICK s \in Legacy : s = source[p]
      BY DEF TypeOK
    <3>2. source'[p] = s /\ (Published(Copy(s)) \/ chain = <<>>)
      BY <2>2, <3>1 DEF VerifyExisting, Known, At, invocation
    <3> QED
      BY <1>0, <1>1, <3>2
  <2>3. CASE Publish(p)
    <3>1. PICK s \in Legacy : s = source[p]
      BY DEF TypeOK
    <3>2. \/ Published(Copy(s)) \/ chain' = Append(chain, Copy(s))
          \/ pc' = [pc EXCEPT ![p] = "failed"]
      BY <2>3, <3>1 DEF Publish, Goto
    <3>3. source'[p] = s /\ Copy(s) \in Version
      BY <2>3, <3>1, VersionsDiffer DEF Publish, invocation
    <3>4. CASE Published(Copy(s))
      BY <1>0, <1>1, <3>3, <3>4
    <3>5. CASE chain' = Append(chain, Copy(s))
      BY <1>0, <3>3, <3>5, ChainGrows DEF TypeOK
    <3>6. CASE pc' = [pc EXCEPT ![p] = "failed"]
      BY <3>6 DEF TypeOK, Known
    <3> QED
      BY <3>2, <3>4, <3>5, <3>6
  <2>4. ASSUME NEW s \in Legacy, NEW apply \in BOOLEAN, Begin(p, s, apply) PROVE Known(p)'
    <3>1. source'[p] = s /\ chain' = chain
      BY <2>4 DEF Begin, TypeOK
    <3>2. Published(Copy(s)) \/ pc'[p] \notin {"existing", "applied"}
      BY <2>4 DEF Begin, Goto, TypeOK
    <3> QED
      BY <1>0, <1>1, <3>1, <3>2 DEF Known
  <2>5. CASE pc'[p] \notin {"existing", "applied"}
    BY <2>5 DEF Known
  <2> QED
    BY <2>1, <2>2, <2>3, <2>4, <2>5
<1> QED
  BY <1>2, <1>3

(* The theorems *)

\* Every part of the argument, as one inductive invariant.
RehomeInvariant ==
  /\ TypeOK /\ BytesAreKnown /\ CopiesHaveBytes /\ CopiesAreOfTheLatest
  /\ \A p \in Operator : Known(p)

LEMMA RehomeInit == Init => RehomeInvariant
<1> SUFFICES ASSUME Init PROVE RehomeInvariant
  OBVIOUS
<1>1. /\ TypeOK /\ deletion = "idle"
      /\ \A p \in Operator : pc[p] = "idle"
      /\ DOMAIN chain = Legacy /\ \A s \in Legacy : chain[s] = Row(s)
  BY TypeInit DEF Init
<1>2. \A s \in Legacy : ~Published(Copy(s))
  BY <1>1, VersionsDiffer DEF Published
<1>3. BytesAreKnown /\ \A p \in Operator : Known(p)
  BY <1>1 DEF BytesAreKnown, Known, At
<1>4. CopiesHaveBytes /\ CopiesAreOfTheLatest
  BY <1>2 DEF CopiesHaveBytes, CopiesAreOfTheLatest, Published
<1> QED
  BY <1>1, <1>3, <1>4 DEF RehomeInvariant

LEMMA RehomeHolds == Spec => []RehomeInvariant
<1>1. RehomeInvariant /\ [Next]_vars => RehomeInvariant'
  BY TypeNext, BytesNext, OrderNext, ReportsNext DEF RehomeInvariant
<1> QED
  BY <1>1, RehomeInit, PTL DEF Spec

\* Every reachable state is of its type.
THEOREM RehomeTypesCorrect == Spec => []TypeOK
BY RehomeHolds, PTL DEF RehomeInvariant

\* A published copy has the bytes that were verified.
THEOREM PublishedCopiesHaveBytes == Spec => []CopiesHaveBytes
BY RehomeHolds, PTL DEF RehomeInvariant

\* A copy goes in only while its source is the newest Version of the table.
THEOREM CopiesComeFromTheLatest == Spec => []CopiesAreOfTheLatest
BY RehomeHolds, PTL DEF RehomeInvariant

\* A run that reports a copy as applied is right.
THEOREM ReportsHold == Spec => []ReportsAreTrue
<1>1. RehomeInvariant => ReportsAreTrue
  BY EmptySeq DEF RehomeInvariant, Known, ReportsAreTrue, At
<1> QED
  BY <1>1, RehomeHolds, PTL
=============================================================================
