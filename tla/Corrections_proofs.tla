-------------------------- MODULE Corrections_proofs --------------------------
(***************************************************************************)
(* Theorems about CorrectionNotes and Corrections, for every recording,    *)
(* number of saves, moves and faults.                                      *)
(***************************************************************************)
EXTENDS Corrections, SequenceTheorems, WellFoundedInduction, TLAPS

(* The span of a correction *)

LEMMA LeastOfNat ==
  ASSUME NEW S \in SUBSET Nat, S # {}
  PROVE  \E t \in S : \A u \in S : t <= u
<1>1. \E t \in S : \A u \in S : ~(<<u, t>> \in OpToRel(<, Nat))
  BY NatLessThanWellFounded, WFMin
<1>2. PICK t \in S : \A u \in S : ~(<<u, t>> \in OpToRel(<, Nat))
  BY <1>1
<1>3. ASSUME NEW u \in S PROVE t <= u
  <2>1. <<u, t>> \notin OpToRel(<, Nat)
    BY <1>2
  <2>2. ~(u < t)
    BY <2>1 DEF OpToRel
  <2> QED BY <2>2
<1> QED BY <1>3

LEMMA SpanEnds ==
  ASSUME NEW S \in SUBSET (0..End), S # {}
  PROVE  /\ Least(S) \in S /\ \A u \in S : Least(S) <= u
         /\ Greatest(S) \in S /\ \A u \in S : Greatest(S) >= u
<1>1. Least(S) \in S /\ \A u \in S : Least(S) <= u
  <2>1. \E t \in S : \A u \in S : t <= u
    BY LeastOfNat, NotesAssumption
  <2> QED BY <2>1 DEF Least
<1>2. Greatest(S) \in S /\ \A u \in S : Greatest(S) >= u
  <2> DEFINE R == {End - u : u \in S}
  <2>0. End \in Nat
    BY NotesAssumption
  <2>1. R \in SUBSET Nat /\ R # {}
    <3>1. PICK t \in S : TRUE
      OBVIOUS
    <3>2. End - t \in R
      BY <3>1
    <3>3. \A u \in S : End - u \in Nat
      BY <2>0
    <3> QED BY <3>2, <3>3
  <2>2. PICK r \in R : \A q \in R : r <= q
    BY <2>1, LeastOfNat
  <2>3. PICK t \in S : r = End - t
    BY <2>2
  <2>4. \A u \in S : t >= u
    <3> TAKE u \in S
    <3>1. End - u \in R
      OBVIOUS
    <3>2. End - t <= End - u
      BY <3>1, <2>2, <2>3
    <3>3. u \in Int /\ t \in Int
      OBVIOUS
    <3> QED BY <3>2, <3>3, <2>0
  <2> QED BY <2>4 DEF Greatest
<1> QED BY <1>1, <1>2

LEMMA SpanHoldsTheChanges ==
  ASSUME NEW given, NEW to,
         NotesOf(given) \subseteq Note, NotesOf(to) \subseteq Note,
         ~Unchanged(given, to)
  PROVE  /\ Replacement(given, to) \in [from : 0..End, to : 0..End, notes : SUBSET Note]
         /\ \A n \in ChangedNotes(given, to) :
              Within(n, Replacement(given, to).from, Replacement(given, to).to)
<1> DEFINE changed == ChangedNotes(given, to)
           starts  == {n.start : n \in changed}
           ends    == {n.end : n \in changed}
           r       == Replacement(given, to)
<1>1. changed \subseteq Note /\ changed # {}
  BY DEF ChangedNotes, Unchanged, NotesOf, Removed, Added, Altered
<1>2. starts \in SUBSET (0..End) /\ starts # {}
  BY <1>1 DEF Note
<1>3. ends \in SUBSET (0..End) /\ ends # {}
  BY <1>1 DEF Note
<1>4. Least(starts) \in starts /\ \A u \in starts : Least(starts) <= u
  BY <1>2, SpanEnds
<1>5. Greatest(ends) \in ends /\ \A u \in ends : Greatest(ends) >= u
  BY <1>3, SpanEnds
<1>6. r = [from  |-> Least(starts), to |-> Greatest(ends),
           notes |-> {n \in NotesOf(to) : Within(n, Least(starts), Greatest(ends))}]
  BY DEF Replacement
<1>7. r.from = Least(starts) /\ r.to = Greatest(ends)
  BY <1>6
<1>8. ASSUME NEW n \in changed PROVE Within(n, r.from, r.to)
  <2>1. n.start \in starts /\ n.end \in ends
    OBVIOUS
  <2>2. Least(starts) <= n.start /\ Greatest(ends) >= n.end
    BY <2>1, <1>4, <1>5
  <2>3. n.start \in Int /\ n.end \in Int /\ Least(starts) \in Int /\ Greatest(ends) \in Int
    BY <2>1, <1>2, <1>3, <1>4, <1>5
  <2> HIDE DEF changed, starts, ends, r
  <2> QED BY <2>2, <2>3, <1>7 DEF Within
<1>9. r \in [from : 0..End, to : 0..End, notes : SUBSET Note]
  <2> HIDE DEF changed, starts, ends, r
  <2>1. Least(starts) \in 0..End /\ Greatest(ends) \in 0..End
    BY <1>2, <1>3, <1>4, <1>5
  <2> QED BY <2>1, <1>6
<1> QED BY <1>8, <1>9

\* What the handler keeps of the file of the notes given, and the notes sent,
\* are the draft, if all the file's notes were given and what the draft has
\* unchanged is the file's.
THEOREM ReplacementMakesTheDraft ==
  ASSUME NEW notes, NEW given, NEW to,
         NotesOf(given) \subseteq Note, NotesOf(to) \subseteq Note,
         ~Unchanged(given, to),
         notes \subseteq NotesOf(given),
         \A i \in DOMAIN given \cap DOMAIN to : to[i] = given[i] => given[i] \in notes
  PROVE  Replaced(notes, Replacement(given, to)) = NotesOf(to)
<1> DEFINE r == Replacement(given, to)
           In(n) == Within(n, r.from, r.to)
<1>1. \A n \in ChangedNotes(given, to) : In(n)
  BY SpanHoldsTheChanges
<1>2. r.notes = {n \in NotesOf(to) : In(n)}
  BY DEF Replacement
<1> HIDE DEF r
<1>3. ASSUME NEW n \in notes, ~In(n) PROVE n \in NotesOf(to)
  <2>1. PICK i \in DOMAIN given : n = given[i]
    BY DEF NotesOf
  <2>2. i \notin Removed(given, to) \cup Altered(given, to)
    BY <2>1, <1>3, <1>1 DEF ChangedNotes
  <2>3. i \in DOMAIN to /\ to[i] = given[i]
    BY <2>2 DEF Removed, Altered
  <2> QED BY <2>1, <2>3 DEF NotesOf
<1>4. ASSUME NEW n \in NotesOf(to), ~In(n) PROVE n \in notes
  <2>1. PICK i \in DOMAIN to : n = to[i]
    BY DEF NotesOf
  <2>2. i \notin Added(given, to) \cup Altered(given, to)
    BY <2>1, <1>4, <1>1 DEF ChangedNotes
  <2>3. i \in DOMAIN given /\ to[i] = given[i]
    BY <2>2 DEF Added, Altered
  <2> QED BY <2>1, <2>3
<1>5. Replaced(notes, r) = {n \in notes : ~In(n)} \cup r.notes
  BY DEF Replaced, Kept
<1> HIDE DEF In
<1>6. {n \in notes : ~In(n)} \cup r.notes = NotesOf(to)
  BY <1>2, <1>3, <1>4
<1> QED BY <1>5, <1>6 DEF r

(* The protocol *)

\* The corrections there are.
Known == {jobs[j] : j \in DOMAIN jobs} \cup strays \cup ({action, saving.action} \ {None})

BrowserStep ==
  /\ UNCHANGED versions
  /\ \/ UNCHANGED queue
     \/ \E a \in Known : ~KeyTaken(a) /\ Create(a)

Handles(j) ==
  \/ Publish(j) \/ AddRow(j) \/ Clear(j) \/ Fill(j) \/ Succeed(j)
  \/ Restart(j) \/ Stop(j)

HandlerStep == UNCHANGED browser /\ \E j \in DOMAIN jobs : Handles(j)

LEMMA Steps ==
  TypeOK /\ [Next]_vars => BrowserStep \/ HandlerStep
<1> SUFFICES ASSUME TypeOK, [Next]_vars PROVE BrowserStep \/ HandlerStep
  OBVIOUS
<1>0. strays \subseteq Known /\ (saving.action # None => saving.action \in Known)
  BY DEF Known
<1>1. saving.at \in {"bundle", "post"} => saving.action # None
  BY DEF TypeOK, BrowserTyped
<1>2. CASE Loading
  <2>1. UNCHANGED <<versions, queue>>
    BY <1>2 DEF Loading, LoadBundle, LoadRows, Refresh
  <2> QED BY <2>1 DEF BrowserStep
<1>3. CASE Coordinating
  <2>1. CASE Handle \/ FindProject \/ Observe
    <3>1. UNCHANGED <<versions, queue>>
      BY <2>1 DEF Handle, FindProject, Observe
    <3> QED BY <3>1 DEF BrowserStep
  <2>2. CASE Post
    <3>1. UNCHANGED versions
      BY <2>2 DEF Post
    <3>2. UNCHANGED queue \/ (~KeyTaken(saving.action) /\ Create(saving.action))
      BY <2>2 DEF Post
    <3>3. saving.action \in Known
      BY <2>2, <1>0, <1>1 DEF Post
    <3> QED BY <3>1, <3>2, <3>3 DEF BrowserStep
  <2>3. CASE \E a \in strays : StrayPost(a)
    <3>1. PICK a \in strays : StrayPost(a)
      BY <2>3
    <3>2. UNCHANGED versions
      BY <3>1 DEF StrayPost
    <3>3. UNCHANGED queue \/ (~KeyTaken(a) /\ Create(a))
      BY <3>1 DEF StrayPost
    <3> QED BY <3>2, <3>3, <1>0 DEF BrowserStep
  <2> QED BY <1>3, <2>1, <2>2, <2>3 DEF Coordinating
<1>4. CASE User
  <2>1. UNCHANGED <<versions, queue>>
    BY <1>4 DEF User, Edit, Change, Cancel, Save, Choose
  <2> QED BY <2>1 DEF BrowserStep
<1>5. CASE LoseRequest
  <2>1. UNCHANGED versions
    BY <1>5 DEF LoseRequest
  <2>2. UNCHANGED queue \/ (~KeyTaken(saving.action) /\ Create(saving.action))
    BY <1>5 DEF LoseRequest
  <2>3. saving.action \in Known
    BY <1>5, <1>0, <1>1 DEF LoseRequest
  <2> QED BY <2>1, <2>2, <2>3 DEF BrowserStep
<1>6. CASE LoseJob
  BY <1>6 DEF LoseJob, BrowserStep
<1>7. CASE \E j \in DOMAIN jobs : Handles(j)
  <2>1. PICK j \in DOMAIN jobs : Handles(j)
    BY <1>7
  <2>2. UNCHANGED browser
    BY <2>1 DEF Handles, Publish, AddRow, Clear, Fill, Succeed, Restart, Stop
  <2> QED BY <2>1, <2>2 DEF HandlerStep
<1>8. CASE UNCHANGED vars
  BY <1>8 DEF vars, BrowserStep
<1>9. Next => \/ Loading \/ Coordinating \/ User \/ LoseRequest \/ LoseJob
              \/ \E j \in DOMAIN jobs : Handles(j)
  BY DEF Next, Working, Faults, Handles
<1> QED BY <1>2, <1>3, <1>4, <1>5, <1>6, <1>7, <1>8, <1>9

LEMMA Appended ==
  ASSUME NEW S, NEW s \in Seq(S), NEW e \in S
  PROVE  /\ Append(s, e) \in Seq(S) /\ Len(Append(s, e)) = Len(s) + 1
         /\ DOMAIN Append(s, e) = DOMAIN s \cup {Len(s) + 1}
         /\ Len(s) + 1 \notin DOMAIN s /\ Len(s) \in Nat
         /\ \A i \in DOMAIN s : Append(s, e)[i] = s[i]
         /\ Append(s, e)[Len(s) + 1] = e
<1>1. /\ Append(s, e) \in Seq(S) /\ Len(Append(s, e)) = Len(s) + 1
      /\ \A i \in 1..Len(s) : Append(s, e)[i] = s[i]
      /\ Append(s, e)[Len(s) + 1] = e
  BY AppendProperties
<1>2. DOMAIN s = 1..Len(s) /\ Len(s) \in Nat
  BY LenProperties
<1>3. DOMAIN Append(s, e) = 1..(Len(s) + 1)
  BY <1>1, LenProperties
<1>4. 1..(Len(s) + 1) = (1..Len(s)) \cup {Len(s) + 1} /\ Len(s) + 1 \notin 1..Len(s)
  BY <1>2
<1> QED BY <1>1, <1>2, <1>3, <1>4

LEMMA Put ==
  ASSUME NEW S, NEW s \in Seq(S), NEW i \in DOMAIN s, NEW e \in S
  PROVE  /\ [s EXCEPT ![i] = e] \in Seq(S) /\ Len([s EXCEPT ![i] = e]) = Len(s)
         /\ DOMAIN [s EXCEPT ![i] = e] = DOMAIN s
         /\ \A k \in DOMAIN s : [s EXCEPT ![i] = e][k] = IF k = i THEN e ELSE s[k]
<1>1. DOMAIN s = 1..Len(s)
  BY LenProperties
<1> QED BY <1>1, ExceptSeq

\* The notes written to a file are notes.
LEMMA EncodedNotes ==
  ASSUME NEW S \in SUBSET Note
  PROVE  Encoded(S) \in SUBSET Note
<1> SUFFICES ASSUME NEW n \in S
             PROVE  [pitch |-> n.pitch, start |-> n.start,
                     end |-> Least({m.end : m \in {k \in S : k.pitch = n.pitch /\ k.end > n.start}})]
                      \in Note
  BY DEF Encoded
<1> DEFINE after == {k \in S : k.pitch = n.pitch /\ k.end > n.start}
           ends  == {m.end : m \in after}
<1>1. n \in Note
  OBVIOUS
<1>2. n.end > n.start /\ n.pitch \in Pitch /\ n.start \in 0..End
  BY <1>1 DEF Note
<1>3. n \in after
  BY <1>2
<1>4. ends \in SUBSET (0..End) /\ ends # {}
  BY <1>3 DEF Note
<1>5. Least(ends) \in ends
  BY <1>4, SpanEnds
<1>6. PICK m \in after : Least(ends) = m.end
  BY <1>5
<1>7. Least(ends) \in 0..End /\ Least(ends) > n.start
  BY <1>5, <1>4, <1>6
<1> HIDE DEF after, ends
<1>8. [pitch |-> n.pitch, start |-> n.start, end |-> Least(ends)] \in Note
  BY <1>2, <1>7, NotesAssumption DEF Note
<1> QED BY <1>8 DEF after, ends

LEMMA ReplacedNotes ==
  ASSUME NEW S \in SUBSET Note, NEW a \in Correction
  PROVE  Encoded(Replaced(S, a.edit)) \in SUBSET Note
<1>1. Replaced(S, a.edit) \in SUBSET Note
  BY DEF Replaced, Kept, Correction
<1> QED BY <1>1, EncodedNotes

LEMMA Domains ==
  TypeOK => /\ DOMAIN file = 1..Len(file) /\ Len(file) \in Nat
            /\ DOMAIN rows = DOMAIN file /\ DOMAIN maker = DOMAIN file
            /\ DOMAIN jobs = 1..Len(jobs) /\ Len(jobs) \in Nat
            /\ DOMAIN at = DOMAIN jobs /\ DOMAIN output = DOMAIN jobs
            /\ \A v \in DOMAIN file : file[v] \in SUBSET Note /\ rows[v] \in SUBSET Entity
            /\ \A j \in DOMAIN jobs : jobs[j] \in Correction
<1> SUFFICES ASSUME TypeOK
             PROVE  /\ DOMAIN file = 1..Len(file) /\ Len(file) \in Nat
                    /\ DOMAIN rows = DOMAIN file /\ DOMAIN maker = DOMAIN file
                    /\ DOMAIN jobs = 1..Len(jobs) /\ Len(jobs) \in Nat
                    /\ DOMAIN at = DOMAIN jobs /\ DOMAIN output = DOMAIN jobs
                    /\ \A v \in DOMAIN file : file[v] \in SUBSET Note /\ rows[v] \in SUBSET Entity
                    /\ \A j \in DOMAIN jobs : jobs[j] \in Correction
  OBVIOUS
<1>1. /\ file \in Seq(SUBSET Note) /\ rows \in Seq(SUBSET Entity) /\ maker \in Seq(Nat)
      /\ Len(rows) = Len(file) /\ Len(maker) = Len(file)
  BY DEF TypeOK, VersionsTyped
<1>2. jobs \in Seq(Correction) /\ Len(at) = Len(jobs) /\ Len(output) = Len(jobs)
  BY DEF TypeOK, JobsTyped
<1>3. output \in Seq(Nat) /\ at \in Seq({"queued", "adding", "cleared", "filled"} \cup Ended)
  BY DEF TypeOK, JobsTyped
<1>4. DOMAIN file = 1..Len(file) /\ DOMAIN rows = 1..Len(rows) /\ DOMAIN maker = 1..Len(maker)
  BY <1>1, LenProperties
<1>5. DOMAIN jobs = 1..Len(jobs) /\ DOMAIN at = 1..Len(at) /\ DOMAIN output = 1..Len(output)
  BY <1>2, <1>3, LenProperties
<1>6. Len(file) \in Nat /\ Len(jobs) \in Nat
  BY <1>1, <1>2, LenProperties
<1>7. \A v \in DOMAIN file : file[v] \in SUBSET Note /\ rows[v] \in SUBSET Entity
  BY <1>1, <1>4, ElementOfSeq
<1>8. \A j \in DOMAIN jobs : jobs[j] \in Correction
  BY <1>2, <1>5, ElementOfSeq
<1> QED BY <1>1, <1>2, <1>4, <1>5, <1>6, <1>7, <1>8

\* A Job and its execution know of each other's Version.
Traced ==
  \A j \in DOMAIN jobs :
    /\ output[j] # 0 => output[j] \in DOMAIN file \ {1} /\ maker[output[j]] = j
    /\ at[j] \in {"adding", "cleared", "filled", "succeeded"} => output[j] # 0
    /\ at[j] = "queued" => output[j] = 0

LEMMA Created ==
  ASSUME TypeOK, NEW a \in Correction, Create(a)
  PROVE  /\ JobsTyped'
         /\ DOMAIN jobs' = DOMAIN jobs \cup {Len(jobs) + 1} /\ Len(jobs) + 1 \notin DOMAIN jobs
         /\ \A j \in DOMAIN jobs : jobs'[j] = jobs[j] /\ at'[j] = at[j] /\ output'[j] = output[j]
         /\ jobs'[Len(jobs) + 1] = a
         /\ at'[Len(jobs) + 1] = "queued" /\ output'[Len(jobs) + 1] = 0
<1> DEFINE Places == {"queued", "adding", "cleared", "filled"} \cup Ended
<1>1. /\ jobs \in Seq(Correction) /\ at \in Seq(Places) /\ output \in Seq(Nat)
      /\ Len(at) = Len(jobs) /\ Len(output) = Len(jobs)
      /\ DOMAIN at = DOMAIN jobs /\ DOMAIN output = DOMAIN jobs
  BY Domains DEF TypeOK, JobsTyped
<1>2. jobs' = Append(jobs, a) /\ at' = Append(at, "queued") /\ output' = Append(output, 0)
  BY DEF Create
<1>3. "queued" \in Places /\ 0 \in Nat
  OBVIOUS
<1>4. /\ jobs' \in Seq(Correction) /\ Len(jobs') = Len(jobs) + 1
      /\ DOMAIN jobs' = DOMAIN jobs \cup {Len(jobs) + 1} /\ Len(jobs) + 1 \notin DOMAIN jobs
      /\ \A j \in DOMAIN jobs : jobs'[j] = jobs[j]
      /\ jobs'[Len(jobs) + 1] = a
  BY <1>1, <1>2, Appended
<1> HIDE DEF Places
<1>5. /\ at' \in Seq(Places) /\ Len(at') = Len(jobs) + 1
      /\ \A j \in DOMAIN at : at'[j] = at[j]
      /\ at'[Len(jobs) + 1] = "queued"
  BY <1>1, <1>2, <1>3, Appended
<1>6. /\ output' \in Seq(Nat) /\ Len(output') = Len(jobs) + 1
      /\ \A j \in DOMAIN output : output'[j] = output[j]
      /\ output'[Len(jobs) + 1] = 0
  BY <1>1, <1>2, <1>3, Appended
<1> QED BY <1>1, <1>4, <1>5, <1>6 DEF JobsTyped, Places

LEMMA Placed ==
  ASSUME TypeOK, NEW j \in DOMAIN jobs, NEW x \in Nat,
         NEW place \in {"queued", "adding", "cleared", "filled"} \cup Ended,
         To(j, place), jobs' = jobs, output' = [output EXCEPT ![j] = x]
  PROVE  /\ JobsTyped'
         /\ at'[j] = place /\ output'[j] = x
         /\ \A k \in DOMAIN jobs \ {j} : at'[k] = at[k] /\ output'[k] = output[k]
<1> DEFINE Places == {"queued", "adding", "cleared", "filled"} \cup Ended
<1>1. /\ jobs \in Seq(Correction) /\ at \in Seq(Places) /\ output \in Seq(Nat)
      /\ Len(at) = Len(jobs) /\ Len(output) = Len(jobs)
      /\ DOMAIN at = DOMAIN jobs /\ DOMAIN output = DOMAIN jobs
  BY Domains DEF TypeOK, JobsTyped
<1>2. at' = [at EXCEPT ![j] = place]
  BY DEF To
<1> HIDE DEF Places
<1>3. place \in Places
  BY DEF Places
<1>4. at' \in Seq(Places) /\ Len(at') = Len(at)
      /\ \A k \in DOMAIN at : at'[k] = IF k = j THEN place ELSE at[k]
  BY <1>1, <1>2, <1>3, Put
<1>5. output' \in Seq(Nat) /\ Len(output') = Len(output)
      /\ \A k \in DOMAIN output : output'[k] = IF k = j THEN x ELSE output[k]
  BY <1>1, Put
<1> QED BY <1>1, <1>4, <1>5 DEF JobsTyped, Places

LEMMA OutputKept ==
  ASSUME TypeOK, NEW j \in DOMAIN jobs, UNCHANGED output
  PROVE  output[j] \in Nat /\ output' = [output EXCEPT ![j] = output[j]]
<1>1. output \in Seq(Nat) /\ DOMAIN output = DOMAIN jobs
  BY Domains DEF TypeOK, JobsTyped
<1>2. output \in [1..Len(output) -> Nat] /\ j \in 1..Len(output)
  BY <1>1, LenProperties
<1> QED BY <1>2

LEMMA RowsSet ==
  ASSUME TypeOK, NEW j \in DOMAIN jobs, output[j] \in DOMAIN file,
         NEW ids \in SUBSET Entity, SetRows(j, ids), file' = file, maker' = maker
  PROVE  /\ VersionsTyped'
         /\ rows'[output[j]] = ids
         /\ \A v \in DOMAIN file \ {output[j]} : rows'[v] = rows[v]
<1>1. /\ file \in Seq(SUBSET Note) /\ rows \in Seq(SUBSET Entity) /\ maker \in Seq(Nat)
      /\ Len(rows) = Len(file) /\ Len(maker) = Len(file)
      /\ DOMAIN rows = DOMAIN file
  BY Domains DEF TypeOK, VersionsTyped
<1>2. rows' = [rows EXCEPT ![output[j]] = ids]
  BY DEF SetRows
<1>3. /\ rows' \in Seq(SUBSET Entity) /\ Len(rows') = Len(rows)
      /\ \A k \in DOMAIN rows : rows'[k] = IF k = output[j] THEN ids ELSE rows[k]
  BY <1>1, <1>2, Put
<1> QED BY <1>1, <1>3 DEF VersionsTyped

LEMMA PublishEffect ==
  ASSUME TypeOK, NEW j \in DOMAIN jobs, jobs[j].source \in DOMAIN file, Publish(j)
  PROVE  /\ VersionsTyped' /\ JobsTyped'
         /\ DOMAIN file' = DOMAIN file \cup {Len(file) + 1} /\ Len(file) + 1 \notin DOMAIN file
         /\ \A v \in DOMAIN file : file'[v] = file[v] /\ rows'[v] = rows[v] /\ maker'[v] = maker[v]
         /\ file'[Len(file) + 1] = Encoded(Replaced(file[jobs[j].source], jobs[j].edit))
         /\ rows'[Len(file) + 1] = {} /\ maker'[Len(file) + 1] = j
         /\ at'[j] = "adding" /\ output'[j] = Len(file) + 1
         /\ \A k \in DOMAIN jobs \ {j} : at'[k] = at[k] /\ output'[k] = output[k]
<1> DEFINE new == Encoded(Replaced(file[jobs[j].source], jobs[j].edit))
<1>1. /\ file \in Seq(SUBSET Note) /\ rows \in Seq(SUBSET Entity) /\ maker \in Seq(Nat)
      /\ Len(rows) = Len(file) /\ Len(maker) = Len(file) /\ Len(file) \in Nat
      /\ DOMAIN rows = DOMAIN file /\ DOMAIN maker = DOMAIN file
      /\ DOMAIN jobs = 1..Len(jobs)
  BY Domains DEF TypeOK, VersionsTyped
<1>2. new \in SUBSET Note /\ {} \in SUBSET Entity /\ j \in Nat
  <2>1. file[jobs[j].source] \in SUBSET Note /\ jobs[j] \in Correction
    BY Domains
  <2>2. new \in SUBSET Note
    BY ONLY <2>1, ReplacedNotes
  <2>3. j \in Nat
    BY <1>1, Domains
  <2> QED BY <2>2, <2>3
<1>3. file' = Append(file, new) /\ rows' = Append(rows, {}) /\ maker' = Append(maker, j)
  BY DEF Publish
<1>4. UNCHANGED jobs /\ To(j, "adding") /\ output' = [output EXCEPT ![j] = Len(file) + 1]
  BY DEF Publish
<1> HIDE DEF new
<1>5. /\ file' \in Seq(SUBSET Note) /\ Len(file') = Len(file) + 1
      /\ DOMAIN file' = DOMAIN file \cup {Len(file) + 1} /\ Len(file) + 1 \notin DOMAIN file
      /\ \A v \in DOMAIN file : file'[v] = file[v]
      /\ file'[Len(file) + 1] = new
  BY <1>1, <1>2, <1>3, Appended
<1>6. /\ rows' \in Seq(SUBSET Entity) /\ Len(rows') = Len(rows) + 1
      /\ \A v \in DOMAIN rows : rows'[v] = rows[v]
      /\ rows'[Len(rows) + 1] = {}
  BY <1>1, <1>2, <1>3, Appended
<1>7. /\ maker' \in Seq(Nat) /\ Len(maker') = Len(maker) + 1
      /\ \A v \in DOMAIN maker : maker'[v] = maker[v]
      /\ maker'[Len(maker) + 1] = j
  BY <1>1, <1>2, <1>3, Appended
<1>8. VersionsTyped'
  BY <1>1, <1>5, <1>6, <1>7 DEF VersionsTyped
<1>9. Len(file) + 1 \in Nat
  BY <1>1
<1>10. /\ JobsTyped'
       /\ at'[j] = "adding" /\ output'[j] = Len(file) + 1
       /\ \A k \in DOMAIN jobs \ {j} : at'[k] = at[k] /\ output'[k] = output[k]
  BY <1>4, <1>9, Placed
<1> QED BY <1>1, <1>5, <1>6, <1>7, <1>8, <1>10 DEF new

(* What a step of the handler does *)

Publishes(j) ==
  /\ DOMAIN file' = DOMAIN file \cup {Len(file) + 1} /\ Len(file) + 1 \notin DOMAIN file
  /\ \A v \in DOMAIN file : file'[v] = file[v] /\ rows'[v] = rows[v] /\ maker'[v] = maker[v]
  /\ file'[Len(file) + 1] = Encoded(Replaced(file[jobs[j].source], jobs[j].edit))
  /\ rows'[Len(file) + 1] = {} /\ maker'[Len(file) + 1] = j
  /\ at'[j] = "adding" /\ output'[j] = Len(file) + 1

Rewrites(j) ==
  /\ UNCHANGED <<file, maker>>
  /\ output'[j] = output[j] /\ output[j] \in DOMAIN file
  /\ \A v \in DOMAIN file \ {output[j]} : rows'[v] = rows[v]
  /\ \/ at[j] = "adding" /\ at'[j] = "adding" /\ rows[output[j]] \subseteq rows'[output[j]]
     \/ at'[j] = "cleared" /\ rows'[output[j]] = {}
     \/ at'[j] = "filled" /\ rows'[output[j]] = Whole(file[output[j]])

Moves(j) ==
  /\ UNCHANGED versions
  /\ \/ at[j] = "filled" /\ at'[j] = "succeeded" /\ output'[j] = output[j]
     \/ at'[j] = "queued" /\ output'[j] = 0
     \/ at'[j] = "failed" /\ output'[j] = output[j]

LEMMA HandlerEffect ==
  ASSUME TypeOK, Traced, NEW j \in DOMAIN jobs, jobs[j].source \in DOMAIN file, Handles(j)
  PROVE  /\ VersionsTyped' /\ JobsTyped' /\ UNCHANGED jobs
         /\ \A k \in DOMAIN jobs \ {j} : at'[k] = at[k] /\ output'[k] = output[k]
         /\ Publishes(j) \/ Rewrites(j) \/ Moves(j)
<1> USE DEF Ended
<1>0. VersionsTyped /\ JobsTyped /\ output[j] \in Nat
  BY OutputKept, Domains, LenProperties DEF TypeOK, JobsTyped
<1>1. CASE Publish(j)
  <2>1. UNCHANGED jobs
    BY <1>1 DEF Publish
  <2> QED BY <1>1, <2>1, PublishEffect DEF Publishes
<1>2. CASE AddRow(j)
  <2>1. at[j] = "adding" /\ UNCHANGED <<file, maker, queue>>
    BY <1>2 DEF AddRow
  <2>2. output[j] \in DOMAIN file
    BY <2>1 DEF Traced
  <2>3. PICK row \in OwnRows(j) : SetRows(j, rows[output[j]] \cup {row})
    BY <1>2 DEF AddRow
  <2>4. jobs[j] \in Correction /\ rows[output[j]] \in SUBSET Entity
    BY <2>2, Domains
  <2>5. rows[output[j]] \cup {row} \in SUBSET Entity
    BY <2>3, <2>4 DEF OwnRows, Entity, Correction
  <2>6. /\ VersionsTyped'
        /\ rows'[output[j]] = rows[output[j]] \cup {row}
        /\ \A v \in DOMAIN file \ {output[j]} : rows'[v] = rows[v]
    BY <2>1, <2>2, <2>3, <2>5, RowsSet
  <2>7. JobsTyped' /\ UNCHANGED <<jobs, at, output>>
    BY <1>0, <2>1 DEF JobsTyped, queue
  <2> QED BY <2>1, <2>2, <2>6, <2>7 DEF Rewrites
<1>3. CASE Clear(j)
  <2>1. /\ at[j] = "adding" /\ UNCHANGED <<file, maker, jobs, output>>
        /\ SetRows(j, {}) /\ To(j, "cleared")
    BY <1>3 DEF Clear
  <2>2. output[j] \in DOMAIN file
    BY <2>1 DEF Traced
  <2>3. /\ VersionsTyped' /\ rows'[output[j]] = {}
        /\ \A v \in DOMAIN file \ {output[j]} : rows'[v] = rows[v]
    BY <2>1, <2>2, RowsSet
  <2>4. /\ JobsTyped' /\ at'[j] = "cleared"
        /\ \A k \in DOMAIN jobs \ {j} : at'[k] = at[k] /\ output'[k] = output[k]
    BY <2>1, OutputKept, Placed
  <2> QED BY <2>1, <2>2, <2>3, <2>4 DEF Rewrites
<1>4. CASE Fill(j)
  <2>1. /\ at[j] = "cleared" /\ UNCHANGED <<file, maker, jobs, output>>
        /\ SetRows(j, Whole(file[output[j]])) /\ To(j, "filled")
    BY <1>4 DEF Fill
  <2>2. output[j] \in DOMAIN file
    BY <2>1 DEF Traced
  <2>3. Whole(file[output[j]]) \in SUBSET Entity
    BY <2>2, Domains DEF Whole, Entity
  <2>4. /\ VersionsTyped' /\ rows'[output[j]] = Whole(file[output[j]])
        /\ \A v \in DOMAIN file \ {output[j]} : rows'[v] = rows[v]
    BY <2>1, <2>2, <2>3, RowsSet
  <2>5. /\ JobsTyped' /\ at'[j] = "filled"
        /\ \A k \in DOMAIN jobs \ {j} : at'[k] = at[k] /\ output'[k] = output[k]
    BY <2>1, OutputKept, Placed
  <2> QED BY <2>1, <2>2, <2>4, <2>5 DEF Rewrites
<1>5. CASE Succeed(j)
  <2>1. at[j] = "filled" /\ UNCHANGED <<versions, jobs, output>> /\ To(j, "succeeded")
    BY <1>5 DEF Succeed
  <2>2. /\ JobsTyped' /\ at'[j] = "succeeded"
        /\ \A k \in DOMAIN jobs \ {j} : at'[k] = at[k] /\ output'[k] = output[k]
    BY <2>1, OutputKept, Placed
  <2>3. VersionsTyped'
    BY <1>0, <2>1 DEF VersionsTyped, versions
  <2> QED BY <2>1, <2>2, <2>3 DEF Moves
<1>6. CASE Restart(j)
  <2>1. /\ UNCHANGED <<versions, jobs>> /\ To(j, "queued")
        /\ output' = [output EXCEPT ![j] = 0]
    BY <1>6 DEF Restart
  <2>2. /\ JobsTyped' /\ at'[j] = "queued" /\ output'[j] = 0
        /\ \A k \in DOMAIN jobs \ {j} : at'[k] = at[k] /\ output'[k] = output[k]
    BY <2>1, Placed
  <2>3. VersionsTyped'
    BY <1>0, <2>1 DEF VersionsTyped, versions
  <2> QED BY <2>1, <2>2, <2>3 DEF Moves
<1>7. CASE Stop(j)
  <2>1. UNCHANGED <<versions, jobs, output>> /\ To(j, "failed")
    BY <1>7 DEF Stop
  <2>2. /\ JobsTyped' /\ at'[j] = "failed"
        /\ \A k \in DOMAIN jobs \ {j} : at'[k] = at[k] /\ output'[k] = output[k]
    BY <2>1, OutputKept, Placed
  <2>3. VersionsTyped'
    BY <1>0, <2>1 DEF VersionsTyped, versions
  <2> QED BY <2>1, <2>2, <2>3 DEF Moves
<1> QED BY <1>1, <1>2, <1>3, <1>4, <1>5, <1>6, <1>7 DEF Handles

(* The invariant *)

\* The Versions and the Jobs that made them.
Made ==
  /\ 1 \in DOMAIN file
  /\ \A v \in DOMAIN file \ {1} :
       /\ maker[v] \in DOMAIN jobs
       /\ file[v] = Encoded(Replaced(file[jobs[maker[v]].source], jobs[maker[v]].edit))

Filled ==
  \A j \in DOMAIN jobs :
    /\ at[j] = "cleared" => rows[output[j]] = {}
    /\ at[j] \in {"filled", "succeeded"} => rows[output[j]] = Whole(file[output[j]])

SameKey(a, b) == a.source = b.source /\ a.edit.from = b.edit.from /\ a.edit.to = b.edit.to

Distinct == \A j, k \in DOMAIN jobs : SameKey(jobs[j], jobs[k]) => j = k

\* The edit of a correction whose author saw all notes makes its draft.
Sound ==
  \A a \in Known :
    /\ a.source \in DOMAIN file
    /\ a.whole => Replaced(file[a.source], a.edit) = a.meant

Numbered ==
  \A a \in Known : /\ action # None /\ a.id <= action.id
                   /\ \A b \in Known : a.id = b.id => a = b

QueueInv == VersionsTyped /\ JobsTyped /\ Traced /\ Made /\ Filled /\ Distinct

\* Each Job is about a source that is there, and no step changes a file.
LEMMA Grows ==
  ASSUME TypeOK, Traced, Sound, [Next]_vars
  PROVE  /\ \A v \in DOMAIN file : v \in DOMAIN file' /\ file'[v] = file[v] /\ maker'[v] = maker[v]
         /\ \A j \in DOMAIN jobs : j \in DOMAIN jobs' /\ jobs'[j] = jobs[j]
         /\ VersionsTyped' /\ JobsTyped'
<1>0. VersionsTyped /\ JobsTyped /\ \A j \in DOMAIN jobs : jobs[j].source \in DOMAIN file
  BY DEF TypeOK, Sound, Known
<1>1. Known \subseteq Correction
  BY Domains DEF Known, TypeOK, BrowserTyped
<1>2. CASE BrowserStep
  <2>1. VersionsTyped' /\ UNCHANGED versions
    BY <1>0, <1>2 DEF BrowserStep, VersionsTyped, versions
  <2>2. CASE UNCHANGED queue
    BY <1>0, <2>1, <2>2 DEF JobsTyped, queue, versions
  <2>3. CASE \E a \in Known : Create(a)
    BY <1>1, <2>1, <2>3, Created DEF versions
  <2> QED BY <1>2, <2>2, <2>3 DEF BrowserStep
<1>3. CASE HandlerStep
  <2>1. PICK j \in DOMAIN jobs : Handles(j)
    BY <1>3 DEF HandlerStep
  <2>2. VersionsTyped' /\ JobsTyped' /\ UNCHANGED jobs
    BY <1>0, <2>1, HandlerEffect
  <2>3. \A v \in DOMAIN file : v \in DOMAIN file' /\ file'[v] = file[v] /\ maker'[v] = maker[v]
    BY <1>0, <2>1, HandlerEffect DEF Publishes, Rewrites, Moves, versions
  <2> QED BY <2>2, <2>3
<1> QED BY <1>2, <1>3, Steps

LEMMA QueueSteps ==
  ASSUME TypeOK, QueueInv, Sound, [Next]_vars
  PROVE  QueueInv'
<1> USE DEF Ended
<1>0. \A j \in DOMAIN jobs : jobs[j].source \in DOMAIN file
  BY DEF Sound, Known
<1>1. VersionsTyped' /\ JobsTyped'
  BY Grows DEF QueueInv
<1>2. Traced /\ Made /\ Filled /\ Distinct
  BY DEF QueueInv
<1>3. CASE BrowserStep
  <2>1. UNCHANGED versions
    BY <1>3 DEF BrowserStep
  <2>2. CASE UNCHANGED queue
    BY <1>1, <1>2, <2>1, <2>2
       DEF QueueInv, Traced, Made, Filled, Distinct, SameKey, versions, queue
  <2>3. CASE \E a \in Known : ~KeyTaken(a) /\ Create(a)
    <3>1. PICK a \in Known : ~KeyTaken(a) /\ Create(a)
      BY <2>3
    <3>2. a \in Correction
      BY <3>1, Domains DEF Known, TypeOK, BrowserTyped
    <3> DEFINE N == Len(jobs) + 1
    <3>3. /\ DOMAIN jobs' = DOMAIN jobs \cup {N} /\ N \notin DOMAIN jobs
          /\ \A j \in DOMAIN jobs : jobs'[j] = jobs[j] /\ at'[j] = at[j] /\ output'[j] = output[j]
          /\ jobs'[N] = a /\ at'[N] = "queued" /\ output'[N] = 0
      BY <3>1, <3>2, Created
    <3> HIDE DEF N
    <3>4. Traced'
      BY <1>2, <2>1, <3>3 DEF Traced, versions
    <3>5. Made'
      BY <1>2, <2>1, <3>3 DEF Made, versions
    <3>6. Filled'
      BY <1>2, <2>1, <3>3 DEF Filled, versions
    <3>7. Distinct'
      <4>1. \A j \in DOMAIN jobs : ~SameKey(jobs[j], a) /\ ~SameKey(a, jobs[j])
        BY <3>1 DEF KeyTaken, SameKey
      <4> QED BY <1>2, <3>3, <4>1 DEF Distinct, SameKey
    <3> QED BY <1>1, <3>4, <3>5, <3>6, <3>7 DEF QueueInv
  <2> QED BY <1>3, <2>2, <2>3 DEF BrowserStep
<1>4. CASE HandlerStep
  <2>1. PICK j \in DOMAIN jobs : Handles(j)
    BY <1>4 DEF HandlerStep
  <2>2. /\ UNCHANGED jobs
        /\ \A k \in DOMAIN jobs \ {j} : at'[k] = at[k] /\ output'[k] = output[k]
        /\ Publishes(j) \/ Rewrites(j) \/ Moves(j)
    BY <1>0, <1>2, <2>1, HandlerEffect
  <2>3. Distinct'
    BY <1>2, <2>2 DEF Distinct, SameKey
  <2>4. CASE Publishes(j)
    <3>1. Traced'
      <4>1. Len(file) + 1 # 1
        BY <1>2, Domains, <2>4 DEF Made, Publishes
      <4> QED BY <1>2, <2>2, <2>4, <4>1 DEF Traced, Publishes
    <3>2. Made'
      BY <1>2, <1>0, <2>2, <2>4 DEF Made, Publishes
    <3>3. Filled'
      <4>1. \A k \in DOMAIN jobs \ {j} :
              at[k] \in {"cleared", "filled", "succeeded"} => output[k] \in DOMAIN file
        BY <1>2 DEF Traced
      <4> QED BY <1>2, <2>2, <2>4, <4>1 DEF Filled, Publishes
    <3> QED BY <1>1, <2>3, <3>1, <3>2, <3>3 DEF QueueInv
  <2>5. CASE Rewrites(j)
    <3>1. Traced'
      <4>1. output[j] # 0
        BY <2>5, Domains DEF Rewrites
      <4>2. output'[j] \in DOMAIN file' \ {1} /\ maker'[output'[j]] = j /\ at'[j] # "queued"
        BY <1>2, <2>5, <4>1 DEF Traced, Rewrites
      <4> QED BY <1>2, <2>2, <2>5, <4>1, <4>2 DEF Traced, Rewrites
    <3>2. Made'
      BY <1>2, <2>2, <2>5 DEF Made, Rewrites
    <3>3. Filled'
      <4>1. output[j] # 0
        BY <2>5, Domains DEF Rewrites
      <4>2. \A k \in DOMAIN jobs \ {j} :
              at[k] \in {"cleared", "filled", "succeeded"} =>
                output[k] \in DOMAIN file \ {output[j]}
        BY <1>2, <4>1 DEF Traced
      <4>3. ASSUME NEW k \in DOMAIN jobs \ {j}
            PROVE  /\ at'[k] = "cleared" => rows'[output'[k]] = {}
                   /\ at'[k] \in {"filled", "succeeded"} =>
                        rows'[output'[k]] = Whole(file'[output'[k]])
        BY <1>2, <2>2, <2>5, <4>2 DEF Filled, Rewrites
      <4>4. /\ at'[j] = "cleared" => rows'[output'[j]] = {}
            /\ at'[j] \in {"filled", "succeeded"} =>
                 rows'[output'[j]] = Whole(file'[output'[j]])
        BY <2>5 DEF Rewrites
      <4> QED BY <2>2, <4>3, <4>4 DEF Filled
    <3> QED BY <1>1, <2>3, <3>1, <3>2, <3>3 DEF QueueInv
  <2>6. CASE Moves(j)
    <3>1. Traced'
      BY <1>2, <2>2, <2>6 DEF Traced, Moves, versions
    <3>2. Made'
      BY <1>2, <2>2, <2>6 DEF Made, Moves, versions
    <3>3. Filled'
      BY <1>2, <2>2, <2>6 DEF Filled, Moves, versions
    <3> QED BY <1>1, <2>3, <3>1, <3>2, <3>3 DEF QueueInv
  <2> QED BY <2>2, <2>4, <2>5, <2>6
<1> QED BY <1>3, <1>4, Steps

(* The browser's part *)

\* No step loses the notes that were given: while a Job adds its entities the
\* roll shows some of them, and afterwards all of the file, or nothing is read.
Seen ==
  roll # None =>
    /\ \A j \in DOMAIN jobs :
         at[j] = "adding" /\ output[j] = roll.version => roll.rows \subseteq rows[roll.version]
    /\ \/ roll.rows \subseteq rows[roll.version]
       \/ rows[roll.version] = {}
       \/ rows[roll.version] = Whole(file[roll.version])

Drafted ==
  draft # None =>
    /\ roll # None
    /\ draft.whole =>
         /\ file[roll.version] \subseteq NotesOf(Given(roll.rows))
         /\ \A i \in DOMAIN draft.notes : i[1] = "draft" \/ i[2] \in file[roll.version]

Loaded == load.at = "rows" /\ roll # None => roll.version = load.version

BrowserInv == DraftTyped /\ BrowserTyped /\ Seen /\ Drafted /\ Loaded

LEMMA GivenNotes ==
  ASSUME NEW seen \in SUBSET Entity
  PROVE  /\ DOMAIN Given(seen) = seen
         /\ \A i \in seen : Given(seen)[i] = i[2] /\ i[2] \in Note /\ i[1] # "draft"
         /\ NotesOf(Given(seen)) \subseteq Note
<1>1. DOMAIN Given(seen) = seen /\ \A i \in seen : Given(seen)[i] = i[2]
  BY DEF Given
<1>2. \A i \in seen : i[2] \in Note /\ i[1] # "draft"
  BY DEF Entity
<1> QED BY <1>1, <1>2 DEF NotesOf

LEMMA DraftNotes ==
  ASSUME NEW f, NEW g \in Drafts(f),
         DOMAIN f \subseteq Entity \cup ({"draft"} \X Note), NotesOf(f) \subseteq Note
  PROVE  /\ DOMAIN g \subseteq Entity \cup ({"draft"} \X Note)
         /\ NotesOf(g) \subseteq Note
         /\ \A i \in DOMAIN g : i \in DOMAIN f \/ i[1] = "draft"
<1>1. CASE \E i \in DOMAIN f : g = [k \in DOMAIN f \ {i} |-> f[k]]
  BY <1>1 DEF NotesOf
<1>2. CASE \E n \in NewNote : g = [k \in DOMAIN f \cup {<<"draft", n>>} |->
                                     IF k = <<"draft", n>> THEN n ELSE f[k]]
  BY <1>2, CorrectionsAssumption DEF NotesOf
<1>3. CASE \E i \in DOMAIN f : \E p \in Pitch :
             g = [f EXCEPT ![i] = [pitch |-> p, start |-> f[i].start, end |-> f[i].end]]
  <2>1. PICK i \in DOMAIN f, p \in Pitch :
          g = [f EXCEPT ![i] = [pitch |-> p, start |-> f[i].start, end |-> f[i].end]]
    BY <1>3
  <2> DEFINE n == [pitch |-> p, start |-> f[i].start, end |-> f[i].end]
  <2>2. f[i] \in Note
    BY DEF NotesOf
  <2>3. n \in Note
    BY <2>2 DEF Note
  <2> HIDE DEF n
  <2>4. DOMAIN g = DOMAIN f /\ \A k \in DOMAIN f : g[k] = IF k = i THEN n ELSE f[k]
    BY <2>1 DEF n
  <2> QED BY <2>3, <2>4 DEF NotesOf
<1>4. \/ \E i \in DOMAIN f : g = [k \in DOMAIN f \ {i} |-> f[k]]
      \/ \E n \in NewNote : g = [k \in DOMAIN f \cup {<<"draft", n>>} |->
                                 IF k = <<"draft", n>> THEN n ELSE f[k]]
      \/ \E i \in DOMAIN f : \E p \in Pitch :
           g = [f EXCEPT ![i] = [pitch |-> p, start |-> f[i].start, end |-> f[i].end]]
  <2> DEFINE Transposed(i, p) == [f EXCEPT ![i] = [pitch |-> p, start |-> f[i].start, end |-> f[i].end]]
             Without(i)       == [k \in DOMAIN f \ {i} |-> f[k]]
             With(n)          == [k \in DOMAIN f \cup {<<"draft", n>>} |->
                                    IF k = <<"draft", n>> THEN n ELSE f[k]]
             Near(i)          == {f[i].pitch - 1, f[i].pitch + 1} \cap Pitch
  <2>1. g \in {Without(i) : i \in DOMAIN f}
                \cup {With(n) : n \in {m \in NewNote : <<"draft", m>> \notin DOMAIN f}}
                \cup UNION {{Transposed(i, p) : p \in Near(i)} : i \in DOMAIN f}
    BY Zenon DEF Drafts
  <2> HIDE DEF Transposed, Without, With, Near
  <2>2. \/ \E i \in DOMAIN f : g = Without(i)
        \/ \E n \in NewNote : g = With(n)
        \/ \E i \in DOMAIN f : \E p \in Near(i) : g = Transposed(i, p)
    BY <2>1
  <2>3. \A i \in DOMAIN f : Near(i) \subseteq Pitch
    BY DEF Near
  <2> QED BY Zenon, <2>2, <2>3 DEF Transposed, Without, With
<1> QED BY <1>1, <1>2, <1>3, <1>4

LEMMA KnownSteps ==
  ASSUME TypeOK, Traced, Sound, [Next]_vars
  PROVE  \/ Known' \subseteq Known /\ action' = action
         \/ Save /\ Known' \subseteq Known \cup {action'}
<1>0. saving.at # "idle" => saving.action # None
  BY DEF TypeOK, BrowserTyped
<1>1. CASE Save
  BY <1>1 DEF Save, Known, queue
<1>2. CASE Edit \/ Change \/ Cancel \/ (\E v \in listed : Choose(v)) \/ Loading
  BY <1>0, <1>2 DEF Edit, Change, Cancel, Choose, Loading, LoadBundle, LoadRows, Refresh, Unmount,
     Cancelled, Resting, Known, queue
<1>3. CASE Handle \/ FindProject \/ Observe \/ LoseJob \/ UNCHANGED vars
  BY <1>0, <1>3 DEF Handle, FindProject, Observe, LoseJob, Cancelled, Over, Resting, Known, queue,
     vars, browser
<1>4. ASSUME NEW a \in Known, Create(a)
      PROVE  {jobs'[j] : j \in DOMAIN jobs'} \subseteq Known
  <2>1. a \in Correction
    BY Domains DEF Known, TypeOK, BrowserTyped
  <2> QED BY <1>4, <2>1, Created DEF Known
<1>5. UNCHANGED queue => {jobs'[j] : j \in DOMAIN jobs'} \subseteq Known
  BY DEF Known, queue
<1>6. CASE Post \/ LoseRequest
  <2>1. saving.action \in Known
    BY <1>0, <1>6 DEF Post, LoseRequest, Known
  <2>2. {jobs'[j] : j \in DOMAIN jobs'} \subseteq Known
    BY <1>4, <1>5, <1>6, <2>1 DEF Post, LoseRequest
  <2>3. UNCHANGED <<strays, action>> /\ saving'.action \in {None, saving.action}
    BY <1>6 DEF Post, LoseRequest, Over, Resting
  <2> QED BY <2>2, <2>3 DEF Known
<1>7. CASE \E a \in strays : StrayPost(a)
  <2>1. PICK a \in strays : StrayPost(a)
    BY <1>7
  <2>2. {jobs'[j] : j \in DOMAIN jobs'} \subseteq Known
    BY <1>4, <1>5, <2>1 DEF StrayPost, Known
  <2>3. UNCHANGED <<action, saving>> /\ strays' \subseteq strays
    BY <2>1 DEF StrayPost
  <2> QED BY <2>2, <2>3 DEF Known
<1>8. CASE HandlerStep
  <2>1. UNCHANGED <<jobs, strays, action, saving>>
    BY <1>8 DEF HandlerStep, Handles, Publish, AddRow, Clear, Fill, Succeed, Restart, Stop, browser,
       queue
  <2> QED BY <2>1 DEF Known
<1>9. (\E j \in DOMAIN jobs : Handles(j)) => HandlerStep
  BY DEF HandlerStep, Handles, Publish, AddRow, Clear, Fill, Succeed, Restart, Stop
<1> QED BY <1>1, <1>2, <1>3, <1>6, <1>7, <1>8, <1>9
        DEF Next, Working, Faults, User, Coordinating, Handles

\* The steps that leave the roll alone.
LEMMA SeenSteps ==
  ASSUME TypeOK, QueueInv, Sound, Seen, [Next]_vars, roll' = roll
  PROVE  Seen'
<1>0. /\ Traced /\ Filled /\ \A j \in DOMAIN jobs : jobs[j].source \in DOMAIN file
      /\ roll # None => roll.version \in DOMAIN file
  BY DEF QueueInv, Sound, Known, TypeOK, BrowserTyped
<1> SUFFICES ASSUME roll # None
             PROVE  Seen'
  BY DEF Seen
<1> DEFINE v == roll.version
<1>1. /\ v \in DOMAIN file
      /\ \A j \in DOMAIN jobs : at[j] = "adding" /\ output[j] = v => roll.rows \subseteq rows[v]
      /\ \/ roll.rows \subseteq rows[v]
         \/ rows[v] = {}
         \/ rows[v] = Whole(file[v])
  BY <1>0 DEF Seen
<1>2. SUFFICES
        /\ \A j \in DOMAIN jobs' :
             at'[j] = "adding" /\ output'[j] = v => roll.rows \subseteq rows'[v]
        /\ \/ roll.rows \subseteq rows'[v]
           \/ rows'[v] = {}
           \/ rows'[v] = Whole(file'[v])
  BY DEF Seen
<1> HIDE DEF v
<1>3. CASE BrowserStep
  <2>1. UNCHANGED versions
    BY <1>3 DEF BrowserStep
  <2>2. CASE UNCHANGED queue
    BY <1>1, <2>1, <2>2 DEF versions, queue
  <2>3. CASE \E a \in Known : Create(a)
    <3>1. PICK a \in Known : Create(a)
      BY <2>3
    <3>2. a \in Correction
      BY Domains DEF Known, TypeOK, BrowserTyped
    <3>3. \A j \in DOMAIN jobs' : at'[j] = "adding" =>
            j \in DOMAIN jobs /\ at[j] = "adding" /\ output'[j] = output[j]
      BY <3>1, <3>2, Created
    <3> QED BY <1>1, <2>1, <3>3 DEF versions
  <2> QED BY <1>3, <2>2, <2>3 DEF BrowserStep
<1>4. CASE HandlerStep
  <2>1. PICK j \in DOMAIN jobs : Handles(j)
    BY <1>4 DEF HandlerStep
  <2>2. /\ UNCHANGED jobs
        /\ \A k \in DOMAIN jobs \ {j} : at'[k] = at[k] /\ output'[k] = output[k]
        /\ Publishes(j) \/ Rewrites(j) \/ Moves(j)
    BY <1>0, <2>1, HandlerEffect
  <2>3. CASE Publishes(j)
    BY <1>1, <2>2, <2>3 DEF Publishes
  <2>4. CASE Rewrites(j) /\ output[j] # v
    BY <1>1, <2>2, <2>4 DEF Rewrites
  <2>5. CASE Rewrites(j) /\ output[j] = v
    <3>1. ASSUME NEW k \in DOMAIN jobs \ {j} PROVE output'[k] # v
      <4>1. output[j] # 0
        BY <2>5, Domains DEF Rewrites
      <4> QED BY <1>0, <2>2, <2>5, <4>1 DEF Traced, Rewrites
    <3>2. CASE at[j] = "adding" /\ at'[j] = "adding" /\ rows[v] \subseteq rows'[v]
      BY <1>1, <2>2, <2>5, <3>1, <3>2
    <3>3. CASE at'[j] = "cleared" /\ rows'[v] = {}
      BY <2>2, <3>1, <3>3
    <3>4. CASE at'[j] = "filled" /\ rows'[v] = Whole(file[v])
      BY <2>2, <2>5, <3>1, <3>4 DEF Rewrites
    <3> QED BY <2>5, <3>2, <3>3, <3>4 DEF Rewrites
  <2>6. CASE Moves(j)
    BY <1>1, <2>2, <2>6 DEF Moves, versions
  <2> QED BY <2>2, <2>3, <2>4, <2>5, <2>6
<1> QED BY <1>3, <1>4, Steps

\* BrowserTyped but for the roll
WayTyped ==
  /\ listed \subseteq DOMAIN file
  /\ selected \in {0} \cup DOMAIN file
  /\ load \in [at : {"bundle", "rows", "idle"}, version : {0} \cup DOMAIN file, active : BOOLEAN]
  /\ load.at = "rows" => load.version # 0
  /\ action \in {None} \cup Correction
  /\ operation \in {"idle", "running", "success", "error", "disconnected"}
  /\ handled \in Nat
  /\ saving \in [at : {"idle", "bundle", "post", "wait"}, action : {None} \cup Correction,
                 job : {0} \cup DOMAIN jobs]
  /\ saving.at # "idle" => saving.action # None
  /\ saving.at = "wait" => saving.job # 0
  /\ strays \subseteq Correction

LEMMA SavedCorrection ==
  ASSUME TypeOK, Drafted, Save
  PROVE  action' \in Correction
<1> DEFINE given == Given(roll.rows)
           r     == Replacement(given, draft.notes)
<1>1. roll # None /\ roll \in Shown /\ roll.version \in DOMAIN file
  BY DEF Save, Editing, Drafted, TypeOK, BrowserTyped
<1>2. NotesOf(given) \subseteq Note
  BY <1>1, GivenNotes DEF Shown
<1>3. /\ draft.whole \in BOOLEAN /\ NotesOf(draft.notes) \subseteq Note
      /\ ~Unchanged(given, draft.notes)
  BY DEF Save, Editing, TypeOK, DraftTyped
<1> HIDE DEF given
<1>4. r \in [from : 0..End, to : 0..End, notes : SUBSET Note]
  BY <1>2, <1>3, SpanHoldsTheChanges
<1> HIDE DEF r
<1>5. roll.version \in Nat \ {0}
  BY <1>1 DEF Shown
<1>6. (IF action = None THEN 1 ELSE action.id + 1) \in Nat
  BY DEF TypeOK, BrowserTyped, Correction
<1>7. action' = [id |-> IF action = None THEN 1 ELSE action.id + 1, source |-> roll.version,
                 edit |-> r, meant |-> NotesOf(draft.notes), whole |-> draft.whole]
  BY DEF Save, given, r
<1> QED BY <1>3, <1>4, <1>5, <1>6, <1>7 DEF Correction

LEMMA WaySteps ==
  ASSUME TypeOK, QueueInv, Sound, Drafted, [Next]_vars
  PROVE  WayTyped'
<1>0. WayTyped
  BY DEF TypeOK, BrowserTyped, WayTyped
<1>1. DOMAIN file \subseteq DOMAIN file' /\ DOMAIN jobs \subseteq DOMAIN jobs'
  BY Grows DEF QueueInv
<1>2. CASE UNCHANGED <<listed, selected, load, action, operation, handled, saving, strays>>
  BY <1>0, <1>1, <1>2 DEF WayTyped
<1>3. (\E j \in DOMAIN jobs : Handles(j)) => UNCHANGED browser
  BY DEF Handles, Publish, AddRow, Clear, Fill, Succeed, Restart, Stop
<1>4. saving.at = "post" => saving.action \in Correction
  BY <1>0 DEF WayTyped
<1>5. ASSUME NEW v \in {0} \cup DOMAIN file, Select(v)
      PROVE  /\ selected' \in {0} \cup DOMAIN file'
             /\ load' \in [at : {"bundle", "rows", "idle"}, version : {0} \cup DOMAIN file',
                           active : BOOLEAN]
             /\ load'.at = "rows" => load'.version # 0
  BY <1>0, <1>1, <1>5 DEF Select, WayTyped
<1>6. CASE Edit \/ Change \/ Cancel
  <2>1. UNCHANGED <<listed, selected, load, action, handled, saving, strays>>
        /\ operation' \in {"idle", operation}
    BY <1>6 DEF Edit, Change, Cancel
  <2> QED BY <1>0, <1>1, <2>1 DEF WayTyped
<1>7. CASE Save
  <2>1. UNCHANGED <<listed, selected, load, operation, handled, saving, strays>>
    BY <1>7 DEF Save
  <2>2. action' \in Correction
    BY <1>7, SavedCorrection
  <2> QED BY <1>0, <1>1, <2>1, <2>2 DEF WayTyped
<1>8. CASE \E v \in listed : Choose(v)
  <2>1. PICK v \in listed : Choose(v)
    BY <1>8
  <2>2. UNCHANGED <<listed, action, operation, handled, saving, strays>> /\ Select(v)
    BY <2>1 DEF Choose
  <2>3. v \in DOMAIN file
    BY <1>0 DEF WayTyped
  <2> QED BY <1>0, <1>1, <1>5, <2>2, <2>3 DEF WayTyped
<1>9. CASE LoadBundle
  <2>1. /\ load' \in [at : {"rows"}, version : {Wanted}, active : BOOLEAN]
        /\ listed' = DOMAIN file
        /\ UNCHANGED <<selected, action, operation, handled>>
        /\ saving' \in {saving, Resting}
        /\ strays' \in {strays, strays \cup Cancelled}
    BY <1>9 DEF LoadBundle, Unmount
  <2>2. Wanted \in DOMAIN file \ {0}
    BY <1>0, Domains DEF Wanted, WayTyped, QueueInv, Made
  <2>3. strays' \subseteq Correction
    BY <1>0, <1>4, <2>1 DEF WayTyped, Cancelled
  <2>4. /\ saving' \in [at : {"idle", "bundle", "post", "wait"}, action : {None} \cup Correction,
                        job : {0} \cup DOMAIN jobs']
        /\ saving'.at # "idle" => saving'.action # None
        /\ saving'.at = "wait" => saving'.job # 0
    BY <1>0, <1>1, <2>1 DEF WayTyped, Resting
  <2> QED BY <1>0, <1>1, <2>1, <2>2, <2>3, <2>4 DEF WayTyped
<1>10. CASE LoadRows
  <2>1. /\ load' = [at |-> "idle", version |-> load.version, active |-> load.active]
        /\ handled' \in {0, handled}
        /\ UNCHANGED <<listed, selected, action, operation, saving, strays>>
    BY <1>10 DEF LoadRows, Mounted
  <2> QED BY <1>0, <1>1, <2>1 DEF WayTyped
<1>11. CASE Refresh
  <2>1. /\ load' = [at |-> "bundle", version |-> load.version, active |-> load.active]
        /\ UNCHANGED <<listed, selected, action, operation, handled, saving, strays>>
    BY <1>11 DEF Refresh
  <2> QED BY <1>0, <1>1, <2>1 DEF WayTyped
<1>12. CASE Handle
  <2>1. /\ action # None /\ handled' = action.id /\ operation' = "running"
        /\ saving' = [at |-> "bundle", action |-> action, job |-> 0]
        /\ strays' = strays \cup Cancelled
        /\ UNCHANGED <<listed, selected, load, action>>
    BY <1>12 DEF Handle
  <2>2. action \in Correction /\ action.id \in Nat
    BY <1>0, <2>1 DEF WayTyped, Correction
  <2>3. strays' \subseteq Correction
    BY <1>0, <1>4, <2>1 DEF WayTyped, Cancelled
  <2> QED BY <1>0, <1>1, <2>1, <2>2, <2>3 DEF WayTyped
<1>13. CASE FindProject
  <2>1. /\ saving.at = "bundle" /\ saving' = [at |-> "post", action |-> saving.action, job |-> 0]
        /\ UNCHANGED <<listed, selected, load, action, operation, handled, strays>>
    BY <1>13 DEF FindProject
  <2> QED BY <1>0, <1>1, <2>1 DEF WayTyped
<1>14. CASE Post
  <2>1. UNCHANGED <<listed, selected, load, action, handled, strays>> /\ saving.at = "post"
    BY <1>14 DEF Post
  <2>2. CASE Over("error")
    BY <1>0, <1>1, <2>1, <2>2 DEF Over, Resting, WayTyped
  <2>3. CASE /\ Create(saving.action) /\ UNCHANGED operation
             /\ saving' = [at |-> "wait", action |-> saving.action, job |-> Len(jobs) + 1]
    <3>1. Len(jobs) + 1 \in DOMAIN jobs' /\ Len(jobs) + 1 # 0
      BY <1>4, <2>1, <2>3, Created, Domains
    <3> QED BY <1>0, <1>1, <2>1, <2>3, <3>1 DEF WayTyped
  <2> QED BY <1>14, <2>2, <2>3 DEF Post
<1>15. CASE \E a \in strays : StrayPost(a)
  <2>1. /\ UNCHANGED <<listed, selected, load, action, operation, handled, saving>>
        /\ strays' \subseteq strays
    BY <1>15 DEF StrayPost
  <2> QED BY <1>0, <1>1, <2>1 DEF WayTyped
<1>16. CASE LoseRequest \/ LoseJob
  <2>1. /\ UNCHANGED <<listed, selected, load, action, handled, strays>>
        /\ Over("error") \/ Over("disconnected")
    BY <1>16 DEF LoseRequest, LoseJob
  <2> QED BY <1>0, <1>1, <2>1 DEF Over, Resting, WayTyped
<1>17. CASE Observe
  <2>1. UNCHANGED <<listed, action, handled, strays>> /\ saving.at = "wait"
    BY <1>17 DEF Observe
  <2>2. Over("success") \/ Over("error")
    BY <1>17 DEF Observe
  <2>3. UNCHANGED <<selected, load>>
          \/ (at[saving.job] = "succeeded" /\ Select(output[saving.job]))
    BY <1>17 DEF Observe
  <2>4. at[saving.job] = "succeeded" => output[saving.job] \in DOMAIN file
    <3>1. saving.job \in DOMAIN jobs
      BY <1>0, <2>1 DEF WayTyped
    <3> QED BY <3>1 DEF QueueInv, Traced
  <2>5. /\ selected' \in {0} \cup DOMAIN file'
        /\ load' \in [at : {"bundle", "rows", "idle"}, version : {0} \cup DOMAIN file',
                      active : BOOLEAN]
        /\ load'.at = "rows" => load'.version # 0
    BY <1>0, <1>1, <1>5, <2>3, <2>4 DEF WayTyped
  <2> QED BY <1>0, <1>1, <2>1, <2>2, <2>5 DEF Over, Resting, WayTyped
<1>18. CASE UNCHANGED browser
  BY <1>2, <1>18 DEF browser
<1>19. UNCHANGED vars => UNCHANGED browser
  BY DEF vars
<1> QED BY <1>3, <1>6, <1>7, <1>8, <1>9, <1>10, <1>11, <1>12, <1>13, <1>14, <1>15, <1>16, <1>17,
           <1>18, <1>19
        DEF Next, Working, Faults, User, Coordinating, Loading, Handles

\* The roll and the draft of it.
LEMMA BrowserSteps ==
  ASSUME TypeOK, QueueInv, Sound, BrowserInv, [Next]_vars
  PROVE  BrowserInv'
<1>0. WayTyped' /\ Seen /\ Drafted /\ Loaded /\ DraftTyped
  BY WaySteps DEF BrowserInv
<1>1. \A v \in DOMAIN file : v \in DOMAIN file' /\ file'[v] = file[v]
  BY Grows DEF QueueInv
<1>2. roll \in {None} \cup Shown /\ (roll # None => roll.version \in DOMAIN file)
  BY DEF TypeOK, BrowserTyped
<1>3. ASSUME UNCHANGED roll PROVE BrowserTyped' /\ Seen'
  BY <1>0, <1>1, <1>2, <1>3, SeenSteps DEF BrowserTyped, WayTyped
<1>4. ASSUME UNCHANGED <<roll, draft>> PROVE DraftTyped' /\ Drafted'
  BY <1>0, <1>1, <1>2, <1>4 DEF DraftTyped, Drafted
<1>5. ASSUME UNCHANGED load, roll' \in {roll, None} PROVE Loaded'
  BY <1>0, <1>5 DEF Loaded
<1>6. ASSUME load'.at \in {"bundle", "idle"} PROVE Loaded'
  BY <1>6 DEF Loaded
<1>7. CASE UNCHANGED <<roll, draft, load>>
  BY <1>3, <1>4, <1>5, <1>7 DEF BrowserInv
<1>8. CASE Edit
  <2>1. /\ roll # None /\ UNCHANGED <<versions, roll, load>>
        /\ draft' = [notes |-> Given(roll.rows), whole |-> SeesAll]
    BY <1>8 DEF Edit
  <2>2. roll.rows \in SUBSET Entity
    BY <1>2, <2>1 DEF Shown
  <2>3. /\ DOMAIN Given(roll.rows) = roll.rows /\ NotesOf(Given(roll.rows)) \subseteq Note
        /\ \A i \in roll.rows : Given(roll.rows)[i] = i[2]
    BY <2>2, GivenNotes
  <2>4. DraftTyped'
    BY <2>1, <2>2, <2>3 DEF DraftTyped, SeesAll
  <2>5. SeesAll => /\ file[roll.version] \subseteq NotesOf(Given(roll.rows))
                   /\ \A i \in roll.rows : i[2] \in file[roll.version]
    BY <2>3 DEF SeesAll, NotesOf
  <2>6. Drafted'
    BY <2>1, <2>3, <2>5 DEF Drafted, versions
  <2> QED BY <1>3, <1>5, <2>1, <2>4, <2>6 DEF BrowserInv
<1>9. CASE Change
  <2>1. /\ draft # None /\ UNCHANGED <<versions, roll, load>>
    BY <1>9 DEF Change, Editing
  <2>2. PICK f \in Drafts(draft.notes) : draft' = [notes |-> f, whole |-> draft.whole]
    BY <1>9 DEF Change
  <2>3. /\ DOMAIN f \subseteq Entity \cup ({"draft"} \X Note) /\ NotesOf(f) \subseteq Note
        /\ \A i \in DOMAIN f : i \in DOMAIN draft.notes \/ i[1] = "draft"
    BY <1>0, <2>1, <2>2, DraftNotes DEF DraftTyped
  <2>4. DraftTyped'
    BY <1>0, <2>1, <2>2, <2>3 DEF DraftTyped
  <2>5. Drafted'
    BY <1>0, <2>1, <2>2, <2>3 DEF Drafted, versions
  <2> QED BY <1>3, <1>5, <2>1, <2>4, <2>5 DEF BrowserInv
<1>10. CASE Cancel
  <2>1. draft' = None /\ UNCHANGED <<roll, load>>
    BY <1>10 DEF Cancel
  <2>2. DraftTyped' /\ Drafted'
    BY <2>1 DEF DraftTyped, Drafted
  <2> QED BY <1>3, <1>5, <2>1, <2>2 DEF BrowserInv
<1>11. CASE \/ \E v \in listed : Choose(v)
            \/ Observe
            \/ Refresh
  <2>1. UNCHANGED <<roll, draft>> /\ (UNCHANGED load \/ load'.at = "bundle")
    BY <1>11 DEF Choose, Observe, Refresh, Select
  <2> QED BY <1>3, <1>4, <1>5, <1>6, <2>1 DEF BrowserInv
<1>12. CASE LoadBundle
  <2>1. load' = [at |-> "rows", version |-> Wanted, active |-> load'.active]
    BY <1>12 DEF LoadBundle
  <2>2. CASE UNCHANGED <<roll, draft>> /\ (roll # None => roll.version = Wanted)
    <3>1. Loaded'
      BY <2>1, <2>2 DEF Loaded
    <3> QED BY <1>3, <1>4, <2>2, <3>1 DEF BrowserInv
  <2>3. CASE Unmount
    <3>1. roll' = None /\ draft' = None
      BY <2>3 DEF Unmount
    <3>2. DraftTyped' /\ Drafted' /\ Loaded' /\ Seen'
      BY <3>1 DEF DraftTyped, Drafted, Loaded, Seen
    <3>3. BrowserTyped'
      BY <1>0, <3>1 DEF BrowserTyped, WayTyped
    <3> QED BY <3>2, <3>3 DEF BrowserInv
  <2> QED BY <1>12, <2>2, <2>3 DEF LoadBundle
<1>13. CASE LoadRows
  <2>1. /\ load.at = "rows" /\ UNCHANGED <<versions, queue, draft>>
        /\ load' = [at |-> "idle", version |-> load.version, active |-> load.active]
        /\ roll' = IF rows[load.version] = {} THEN roll
                   ELSE [version |-> load.version, rows |-> rows[load.version]]
    BY <1>13 DEF LoadRows
  <2>2. Loaded'
    BY <1>6, <2>1
  <2>3. CASE UNCHANGED roll
    BY <1>3, <1>4, <2>1, <2>2, <2>3 DEF BrowserInv
  <2>4. CASE /\ rows[load.version] # {}
             /\ roll' = [version |-> load.version, rows |-> rows[load.version]]
    <3> DEFINE v == load.version
    <3>1. v \in DOMAIN file /\ v # 0
      BY <2>1 DEF TypeOK, BrowserTyped
    <3>2. v \in Nat /\ rows[v] \in SUBSET Entity
      BY <3>1, Domains
    <3>3. roll' \in Shown /\ roll' # None
      BY <2>4, <3>1, <3>2, NoneIsNothing DEF Shown
    <3>4. BrowserTyped'
      BY <1>0, <1>1, <2>4, <3>1, <3>3 DEF BrowserTyped, WayTyped
    <3>5. DraftTyped'
      BY <1>0, <2>1 DEF DraftTyped
    <3>6. Seen'
      BY <2>1, <2>4 DEF Seen, versions
    <3>7. Drafted'
      <4>1. SUFFICES ASSUME draft # None, draft.whole
                     PROVE  /\ file[v] \subseteq NotesOf(Given(rows[v]))
                            /\ \A i \in DOMAIN draft.notes : i[1] = "draft" \/ i[2] \in file[v]
        BY <2>1, <2>4, <3>3 DEF Drafted, versions
      <4>2. /\ roll # None /\ roll.version = v
            /\ file[v] \subseteq NotesOf(Given(roll.rows))
            /\ \A i \in DOMAIN draft.notes : i[1] = "draft" \/ i[2] \in file[v]
        BY <1>0, <2>1, <4>1 DEF Drafted, Loaded
      <4>3. roll.rows \in SUBSET Entity
        BY <1>2, <4>2 DEF Shown
      <4>4. /\ DOMAIN Given(roll.rows) = roll.rows
            /\ \A i \in roll.rows : Given(roll.rows)[i] = i[2]
        BY <4>3, GivenNotes
      <4>5. /\ DOMAIN Given(rows[v]) = rows[v]
            /\ \A i \in rows[v] : Given(rows[v])[i] = i[2]
        BY <3>2, GivenNotes
      <4>6. CASE roll.rows \subseteq rows[v]
        BY <4>2, <4>4, <4>5, <4>6 DEF NotesOf
      <4>7. CASE rows[v] = Whole(file[v])
        <5>1. \A n \in file[v] : <<"whole", n>> \in rows[v] /\ Given(rows[v])[<<"whole", n>>] = n
          BY <4>5, <4>7 DEF Whole
        <5>2. file[v] \subseteq NotesOf(Given(rows[v]))
          BY <4>5, <5>1 DEF NotesOf
        <5> QED BY <4>2, <5>2
      <4> QED BY <1>0, <2>4, <4>2, <4>6, <4>7 DEF Seen
    <3> QED BY <2>2, <3>4, <3>5, <3>6, <3>7 DEF BrowserInv
  <2> QED BY <2>1, <2>3, <2>4
<1>14. CASE Save \/ Handle \/ FindProject \/ Post \/ (\E a \in strays : StrayPost(a))
            \/ LoseRequest \/ LoseJob
  <2>1. UNCHANGED <<roll, draft, load>>
    BY <1>14 DEF Save, Handle, FindProject, Post, StrayPost, LoseRequest, LoseJob
  <2> QED BY <1>7, <2>1
<1>15. CASE (\E j \in DOMAIN jobs : Handles(j)) \/ UNCHANGED vars
  <2>1. UNCHANGED browser
    BY <1>15 DEF vars, Handles, Publish, AddRow, Clear, Fill, Succeed, Restart, Stop
  <2> QED BY <1>7, <2>1 DEF browser
<1> QED BY <1>8, <1>9, <1>10, <1>11, <1>12, <1>13, <1>14, <1>15
        DEF Next, Working, Faults, User, Coordinating, Loading, Handles

\* The correction that is saved makes the draft, by ReplacementMakesTheDraft.
LEMMA SaveIsSound ==
  ASSUME TypeOK, Drafted, Save
  PROVE  /\ action'.source \in DOMAIN file
         /\ action'.whole => Replaced(file[action'.source], action'.edit) = action'.meant
<1> DEFINE given == Given(roll.rows)
           to    == draft.notes
<1>1. /\ roll # None /\ roll \in Shown /\ roll.version \in DOMAIN file
      /\ draft # None
  BY DEF Save, Editing, Drafted, TypeOK, BrowserTyped
<1>2. action'.source = roll.version /\ action'.whole = draft.whole
  BY DEF Save
<1>3. action'.edit = Replacement(given, to) /\ action'.meant = NotesOf(to)
  BY DEF Save
<1>4. ~Unchanged(given, to) /\ NotesOf(to) \subseteq Note
  BY DEF Save, Editing, TypeOK, DraftTyped
<1>5. /\ DOMAIN given = roll.rows /\ NotesOf(given) \subseteq Note
      /\ \A i \in roll.rows : given[i] = i[2] /\ i[1] # "draft"
  BY <1>1, GivenNotes DEF Shown
<1>6. ASSUME draft.whole
      PROVE  Replaced(file[roll.version], Replacement(given, to)) = NotesOf(to)
  <2>1. /\ file[roll.version] \subseteq NotesOf(given)
        /\ \A i \in DOMAIN to : i[1] = "draft" \/ i[2] \in file[roll.version]
    BY <1>1, <1>6 DEF Drafted
  <2>2. \A i \in DOMAIN given \cap DOMAIN to : to[i] = given[i] => given[i] \in file[roll.version]
    BY <1>5, <2>1
  <2> HIDE DEF given, to
  <2> QED BY ONLY <1>4, <1>5, <2>1, <2>2, ReplacementMakesTheDraft
<1> QED BY <1>1, <1>2, <1>3, <1>6

LEMMA SoundSteps ==
  ASSUME TypeOK, QueueInv, Sound, Numbered, Drafted, [Next]_vars
  PROVE  Sound' /\ Numbered'
<1>1. /\ \A v \in DOMAIN file : v \in DOMAIN file' /\ file'[v] = file[v]
      /\ \/ Known' \subseteq Known /\ action' = action
         \/ Save /\ Known' \subseteq Known \cup {action'}
  BY Grows, KnownSteps DEF QueueInv
<1>2. ASSUME NEW a \in Known
      PROVE  /\ a.source \in DOMAIN file'
             /\ a.whole => Replaced(file'[a.source], a.edit) = a.meant
  BY <1>1 DEF Sound
<1>3. CASE Known' \subseteq Known /\ action' = action
  BY <1>2, <1>3 DEF Sound, Numbered
<1>4. CASE Save /\ Known' \subseteq Known \cup {action'}
  <2>1. Sound'
    <3>1. /\ action'.source \in DOMAIN file'
          /\ action'.whole => Replaced(file'[action'.source], action'.edit) = action'.meant
      BY <1>1, <1>4, SaveIsSound
    <3> QED BY <1>2, <1>4, <3>1 DEF Sound
  <2>2. action' # None /\ action'.id = IF action = None THEN 1 ELSE action.id + 1
    <3>1. action' \in Correction
      BY <1>4, SavedCorrection
    <3> QED BY <1>4, <3>1, NoneIsNothing DEF Save
  <2>3. action # None => action.id \in Nat
    BY DEF TypeOK, BrowserTyped, Correction
  <2>4. \A a \in Known : a.id \in Nat /\ a.id < action'.id
    <3>1. \A a \in Known : a \in Correction
      BY Domains DEF Known, TypeOK, BrowserTyped
    <3> QED BY <2>2, <2>3, <3>1 DEF Numbered, Correction
  <2>5. action'.id \in Nat
    BY <2>2, <2>3
  <2>6. Numbered'
    BY <1>4, <2>2, <2>4, <2>5 DEF Numbered
  <2> QED BY <2>1, <2>6
<1> QED BY <1>1, <1>3, <1>4

Inv == TypeOK /\ QueueInv /\ BrowserInv /\ Sound /\ Numbered

LEMMA InitInv == Init => Inv
<1> SUFFICES ASSUME Init PROVE Inv
  OBVIOUS
<1> USE DEF Init
<1>1. /\ DOMAIN file = {1} /\ Len(file) = 1 /\ Len(rows) = 1 /\ Len(maker) = 1
      /\ DOMAIN jobs = {} /\ Len(jobs) = 0 /\ Len(at) = 0 /\ Len(output) = 0
  OBVIOUS
<1>2. Whole(Transcription) \in SUBSET Entity /\ Transcription \in SUBSET Note
  BY CorrectionsAssumption DEF Whole, Entity
<1>3. file \in Seq(SUBSET Note) /\ rows \in Seq(SUBSET Entity) /\ maker \in Seq(Nat)
  BY <1>2
<1>4. VersionsTyped
  BY <1>1, <1>3 DEF VersionsTyped
<1>5. JobsTyped
  BY <1>1 DEF JobsTyped
<1>6. DraftTyped /\ BrowserTyped
  BY <1>1 DEF DraftTyped, BrowserTyped, Resting
<1>7. Known = {}
  BY <1>1 DEF Known, Resting
<1>8. Sound /\ Numbered
  BY <1>7 DEF Sound, Numbered
<1>9. Traced /\ Filled /\ Distinct /\ Made
  BY <1>1 DEF Traced, Filled, Distinct, Made
<1>10. Seen /\ Drafted /\ Loaded
  BY DEF Seen, Drafted, Loaded
<1> QED BY <1>4, <1>5, <1>6, <1>8, <1>9, <1>10 DEF Inv, TypeOK, QueueInv, BrowserInv

LEMMA NextInv == Inv /\ [Next]_vars => Inv'
<1> SUFFICES ASSUME Inv, [Next]_vars PROVE Inv'
  OBVIOUS
<1>1. QueueInv'
  BY QueueSteps DEF Inv
<1>2. BrowserInv'
  BY BrowserSteps DEF Inv
<1>3. Sound' /\ Numbered'
  BY SoundSteps DEF Inv, BrowserInv
<1>4. moves' \in Nat /\ faults' \in Nat
  <2>1. moves \in Nat /\ faults \in Nat
    BY DEF Inv, TypeOK
  <2>2. moves' \in {moves, moves + 1} /\ faults' \in {faults, faults + 1}
    BY DEF Next, Working, Faults, User, Coordinating, Loading, Publish, AddRow, Clear, Fill, Succeed,
           Restart, Stop, LoseRequest, LoseJob, Edit, Change, Cancel, Save, Choose, Handle,
           FindProject, Post, StrayPost, Observe, LoadBundle, LoadRows, Refresh, Move, Fault, vars
  <2> QED BY <2>1, <2>2
<1> QED BY <1>1, <1>2, <1>3, <1>4 DEF Inv, TypeOK, QueueInv, BrowserInv

LEMMA Invariant == Spec => []Inv
BY InitInv, NextInv, PTL DEF Spec

\* The state of the editor, of the loads and of the Jobs keeps its types; what
\* is loaded, chosen, and waited for is there.
THEOREM CorrectionTypesCorrect == Spec => []TypeOK
<1>1. Inv => TypeOK
  BY DEF Inv
<1> QED BY <1>1, Invariant, PTL

\* A saved correction makes the notes that were drafted, for recordings of any
\* length, any drafts, and any number of saves, choices, reloads and faults.
THEOREM SavedCorrectionsAreTheirDrafts == Spec => []SavedIsTheDraft
<1>1. Inv => SavedIsTheDraft
  <2> SUFFICES ASSUME Inv, NEW v \in DOMAIN file \ {1}, jobs[maker[v]].whole
               PROVE  file[v] = Encoded(jobs[maker[v]].meant)
    BY DEF SavedIsTheDraft
  <2> DEFINE a == jobs[maker[v]]
  <2>1. a \in Known /\ file[v] = Encoded(Replaced(file[a.source], a.edit))
    BY DEF Inv, QueueInv, Made, Known
  <2>2. Replaced(file[a.source], a.edit) = a.meant
    BY <2>1 DEF Inv, Sound
  <2> QED BY <2>1, <2>2
<1> QED BY <1>1, Invariant, PTL

\* A Job that succeeded left the entities of its whole file.
THEOREM SucceededCorrectionsAreWhole == Spec => []SucceededIsWhole
<1>1. Inv => SucceededIsWhole
  BY DEF Inv, QueueInv, Filled, SucceededIsWhole
<1> QED BY <1>1, Invariant, PTL

\* A correction that is sent again makes no second Job: the cache_key refuses.
THEOREM CorrectionsMakeOneJob == Spec => []OneJobPerSave
<1>1. Inv => OneJobPerSave
  <2> SUFFICES ASSUME Inv, NEW j \in DOMAIN jobs, NEW k \in DOMAIN jobs, jobs[j].id = jobs[k].id
               PROVE  j = k
    BY DEF OneJobPerSave
  <2>1. jobs[j] \in Known /\ jobs[k] \in Known
    BY DEF Known
  <2>2. jobs[j] = jobs[k]
    BY <2>1 DEF Inv, Numbered
  <2>3. SameKey(jobs[j], jobs[k])
    BY <2>2 DEF SameKey
  <2> QED BY <2>3 DEF Inv, QueueInv, Distinct
<1> QED BY <1>1, Invariant, PTL
=============================================================================
