----------------------- MODULE WorkspaceSession_proofs -----------------------
(***************************************************************************)
(* Proofs about WorkspaceSession, for every set of Works and every bound   *)
(* on gestures and failures: its types; that what is shown and heard is of *)
(* the open Work; that a load waits for a request that was sent; that a    *)
(* deleted Work leaves the list; and that a Work said to be processed is   *)
(* going to be looked at again.                                            *)
(*                                                                         *)
(* The types need more than themselves: that a Job's number stays in its   *)
(* range rests on every Job being owed to a gesture, and on nothing in the *)
(* browser naming a Job the server has not made.                           *)
(***************************************************************************)
EXTENDS WorkspaceSession, FiniteSets, FiniteSetTheorems, TLAPS

(* The inductive invariant, one part for each piece of the state. *)

Loads  == [work : Work \cup {None}, keep : BOOLEAN, at : {"none", "bundle", "children"},
           own : Fetch, seen : Snapshot]
Panels == [job : JobId, processing : Work \cup {None}, pending : Work \cup {None},
           stage : {"idle", "uploading", "processing", "success", "error", "disconnected"}]
Calls  == [at : {"idle", "upload", "saved", "listed", "post", "reply",
                 "refused", "wait", "settling", "failing"},
           job : JobId, work : Work \cup {None}]

\* What was read of a Work was so once: the number of its Jobs only grows.
Staged(s)    == s.n = 0 <=> s.stage = "none"
Honest(s, w) == Staged(s) /\ s.n <= server[w].n

\* A Job that the server has made.
Real(j) == j.work \in Work /\ 0 < j.n /\ j.n <= server[j.work].n

ServerOK == server \in [Work -> Snapshot] /\ \A w \in Work : Staged(server[w])

EntryOK == entry \in [Work -> Fetch] /\ \A w \in Work : Honest(entry[w].seen, w)

\* A load is of the Work that was loaded last.
LoadOK ==
  /\ load \in Loads /\ loaded \in Work \cup {None}
  /\ load.at # "none" =>
       /\ loaded \in Work /\ load.work = loaded
       /\ Honest(load.own.seen, loaded) /\ Honest(load.seen, loaded)

PanelOK == panel \in Panels /\ (panel.job = NoJob \/ Real(panel.job))

\* A handler keeps the Work of its request, and an answered one names a real Job.
Handled(k) ==
  LET o == op[k]
  IN  o.at # "idle" =>
        IF k = "import" /\ o.at \in {"upload", "saved", "listed"} THEN o.work \in Work
        ELSE /\ o.job.work \in Work
             /\ k # "delete" /\ (o.at \in {"reply", "wait"} \/ k \in {"retry", "cancel"})
                  => Real(o.job)
OpOK == op \in [Kind -> Calls] /\ \A k \in Kind : Handled(k)

\* The player has sources of the Work that was loaded last, which is the open
\* Work once the effect has run.
ViewOK ==
  /\ active \in Work \cup {None} /\ due \in BOOLEAN /\ timer \in Work \cup {None}
  /\ content \in {None, active} /\ sound \in {None, loaded}
  /\ ~due => active \in {None, loaded}

ListOK ==
  /\ life \in [Work -> {"unborn", "saved", "gone"}] /\ owned \in [Work -> BOOLEAN]
  /\ rows \in SUBSET Work /\ previous \in SUBSET Work
  /\ listing \in [at : {"idle", "asked", "read", "failed"}, seen : SUBSET Work]

\* Every Job after the first was asked for by a gesture, and no gesture asks twice.
Owed == {k \in Kind : op[k].at \in {"upload", "saved", "listed", "post"}}
BudgetOK ==
  /\ events \in [done : 0..MaxGestures, failed : 0..MaxFailures]
  /\ \A w \in Work : server[w].n + Cardinality(Owed) <= events.done + 1

Inv == ServerOK /\ EntryOK /\ LoadOK /\ PanelOK /\ OpOK /\ ViewOK /\ ListOK /\ BudgetOK

----------------------------------------------------------------------------
(* What a part needs when its own variables stay as they are: the Jobs of a *)
(* Work only become more.                                                   *)

Grows == \A w \in Work : server[w].n <= server'[w].n

LEMMA NoneIsNoWork == None \notin Work
BY SessionAssumption

LEMMA Typed ==
  ASSUME Inv
  PROVE  TypeOK
BY DEF Inv, TypeOK, ServerOK, EntryOK, LoadOK, PanelOK, OpOK, ViewOK, ListOK, BudgetOK,
       Loads, Panels, Calls

LEMMA HonestStays ==
  ASSUME ServerOK, ServerOK', Grows, NEW w \in Work, NEW s \in Snapshot, Honest(s, w)
  PROVE  s.n <= server'[w].n /\ Staged(s)
BY DEF ServerOK, Honest, Grows, Snapshot

LEMMA RealStays ==
  ASSUME ServerOK, ServerOK', Grows, NEW j \in JobId, Real(j)
  PROVE  j.work \in Work /\ 0 < j.n /\ j.n <= server'[j.work].n
BY DEF ServerOK, Real, Grows, Snapshot, JobId

LEMMA EntryStays ==
  ASSUME ServerOK, ServerOK', Grows, EntryOK, entry' = entry
  PROVE  EntryOK'
<1>1. \A w \in Work : entry[w].seen \in Snapshot
  BY DEF EntryOK, Fetch
<1> QED
  BY <1>1, HonestStays DEF EntryOK, Honest

LEMMA LoadStays ==
  ASSUME ServerOK, ServerOK', Grows, LoadOK, load' = load, loaded' = loaded
  PROVE  LoadOK'
<1>1. load.own.seen \in Snapshot /\ load.seen \in Snapshot
  BY DEF LoadOK, Loads, Fetch
<1> QED
  BY <1>1, HonestStays DEF LoadOK, Honest

LEMMA PanelStays ==
  ASSUME ServerOK, ServerOK', Grows, PanelOK, panel' \in Panels, panel'.job \in {panel.job, NoJob}
  PROVE  PanelOK'
<1>1. panel.job \in JobId
  BY DEF PanelOK, Panels
<1> QED
  BY <1>1, RealStays DEF PanelOK, Real

LEMMA CallsStay ==
  ASSUME ServerOK, ServerOK', Grows, OpOK, op' = op
  PROVE  OpOK'
<1>1. \A k \in Kind : op[k].job \in JobId
  BY DEF OpOK, Calls
<1> QED
  BY <1>1, RealStays DEF OpOK, Handled, Real

\* A list that is read, or no longer waited for, lets its handlers go on.
LEMMA ListedKeeps ==
  ASSUME OpOK, NEW k \in Kind
  PROVE  /\ Listed(op) \in [Kind -> Calls]
         /\ Listed(op)[k] # op[k] =>
              \/ op[k].at = "saved" /\ Listed(op)[k] = [op[k] EXCEPT !.at = "listed"]
              \/ Listed(op)[k] = NoOp
BY SessionAssumption DEF OpOK, Listed, Calls, NoOp, NoJob, JobId, MaxAttempts

----------------------------------------------------------------------------
(* The steps the actions are built from. *)

LEMMA NothingIsTyped ==
  /\ Unread \in Snapshot /\ Absent \in Fetch /\ Asked \in Fetch
  /\ NoJob \in JobId /\ NoLoad \in Loads /\ NoOp \in Calls
BY SessionAssumption
DEF Unread, Snapshot, Absent, Asked, Fetch, NoJob, JobId, NoLoad, Loads, NoOp, Calls,
    JobStage, MaxAttempts

LEMMA UnreadIsHonest ==
  ASSUME ServerOK, NEW w \in Work
  PROVE  Honest(Unread, w)
BY DEF ServerOK, Honest, Staged, Unread, Snapshot

\* Advancing the keys of some Works, and asking for the bundle of one.
LEMMA ClearedKeeps ==
  ASSUME ServerOK, EntryOK, NEW gone
  PROVE  /\ Cleared(gone) \in [Work -> Fetch]
         /\ \A w \in Work : Honest(Cleared(gone)[w].seen, w)
<1>1. \A w \in Work : Cleared(gone)[w] = Absent \/ Cleared(gone)[w] = entry[w]
  BY DEF Cleared
<1>2. ASSUME NEW w \in Work
      PROVE  Cleared(gone)[w] \in Fetch /\ Honest(Cleared(gone)[w].seen, w)
  <2>1. Absent \in Fetch /\ Honest(Absent.seen, w)
    BY NothingIsTyped, UnreadIsHonest DEF Absent
  <2>2. entry[w] \in Fetch /\ Honest(entry[w].seen, w)
    BY DEF EntryOK
  <2> QED
    BY <1>1, <2>1, <2>2
<1> QED
  BY <1>2 DEF Cleared

LEMMA RequestKeeps ==
  ASSUME ServerOK, NEW cache \in [Work -> Fetch], \A w \in Work : Honest(cache[w].seen, w),
         NEW v \in Work
  PROVE  /\ Request(cache, v) \in [Work -> Fetch]
         /\ \A w \in Work : Honest(Request(cache, v)[w].seen, w)
<1>1. \A w \in Work : Request(cache, v)[w] = Asked \/ Request(cache, v)[w] = cache[w]
  BY DEF Request
<1>2. ASSUME NEW w \in Work
      PROVE  Request(cache, v)[w] \in Fetch /\ Honest(Request(cache, v)[w].seen, w)
  <2>1. Asked \in Fetch /\ Honest(Asked.seen, w)
    BY NothingIsTyped, UnreadIsHonest DEF Asked
  <2> QED
    BY <1>1, <2>1
<1> QED
  BY <1>2 DEF Request

LEMMA DetachedKeeps ==
  ASSUME LoadOK, EntryOK, NEW gone, load' = Detached(gone), loaded' = loaded,
         server' = server
  PROVE  LoadOK'
<1>1. CASE load' = load
  BY <1>1 DEF LoadOK, Honest
<1>2. CASE /\ \E w \in gone : Shares(w)
           /\ load' = [load EXCEPT !.own = entry[load.work]]
  <2>1. load.at = "bundle" /\ load.work = loaded /\ loaded \in Work
    BY <1>2 DEF Shares, LoadOK
  <2>2. entry[load.work] \in Fetch /\ Honest(entry[load.work].seen, loaded)
    BY <2>1 DEF EntryOK
  <2> QED
    BY <1>2, <2>1, <2>2 DEF LoadOK, Loads, Honest
<1> QED
  BY <1>1, <1>2 DEF Detached

LEMMA InvalidateKeeps ==
  ASSUME ServerOK, LoadOK, EntryOK, NEW gone, Invalidate(gone), loaded' = loaded,
         server' = server
  PROVE  LoadOK' /\ EntryOK'
<1>1. EntryOK'
  BY ClearedKeeps DEF Invalidate, EntryOK, Honest
<1> QED
  BY <1>1, DetachedKeeps DEF Invalidate

LEMMA LoadWorkKeeps ==
  ASSUME ServerOK, LoadOK, EntryOK, ViewOK, NEW w, NEW gone, NEW shown \in Panels,
         shown.job = NoJob \/ Real(shown.job), LoadWork(w, gone, shown),
         server' = server, active' = active, due' = due \/ (w = active /\ due' = FALSE)
  PROVE  LoadOK' /\ EntryOK' /\ PanelOK' /\ ViewOK'
<1>1. CASE active # w \/ w = None
  <2>1. /\ Invalidate(gone) /\ panel' = shown
        /\ UNCHANGED <<loaded, timer, content, sound>>
    BY <1>1 DEF LoadWork
  <2>2. PanelOK'
    BY <2>1 DEF PanelOK, Real
  <2>3. ViewOK'
    BY <1>1, <2>1 DEF ViewOK
  <2> QED
    BY <2>1, <2>2, <2>3, InvalidateKeeps
<1>2. CASE active = w /\ w # None
  <2> DEFINE keep == loaded = w
  <2>1. /\ entry' = Request(Cleared(gone), w)
        /\ load' = [NoLoad EXCEPT !.work = w, !.keep = keep, !.at = "bundle"]
        /\ loaded' = w /\ timer' = None
        /\ panel' = IF keep THEN shown
                    ELSE [shown EXCEPT !.job = NoJob, !.processing = None, !.pending = None]
        /\ content' = IF keep THEN content ELSE None
        /\ sound' = IF keep THEN sound ELSE None
    BY <1>2 DEF LoadWork
  <2>2. w \in Work
    BY <1>2 DEF ViewOK
  <2>3. EntryOK'
    BY <2>1, <2>2, ClearedKeeps, RequestKeeps DEF EntryOK, Honest
  <2>4. LoadOK'
    <3>1. load' \in Loads /\ load'.work = w /\ load'.own.seen = Unread /\ load'.seen = Unread
      BY <2>1, <2>2, NothingIsTyped DEF NoLoad, Loads, Absent
    <3> QED
      BY <2>1, <2>2, <3>1, UnreadIsHonest DEF LoadOK, Honest
  <2>5. PanelOK'
    <3>1. CASE keep
      BY <2>1, <3>1 DEF PanelOK, Real
    <3>2. CASE ~keep
      BY <2>1, <3>2, NothingIsTyped DEF PanelOK, Panels
    <3> QED
      BY <3>1, <3>2
  <2>6. ViewOK'
    BY <1>2, <2>1, <2>2 DEF ViewOK
  <2> QED
    BY <2>3, <2>4, <2>5, <2>6
<1> QED
  BY <1>1, <1>2

\* Opening a Work: until the effect has run, the sources may be the last one's.
LEMMA ActivateKeeps ==
  ASSUME ViewOK, NEW w \in Work \cup {None}, Activate(w), loaded' = loaded,
         sound' \in {None, sound}, timer' \in {None, timer}
  PROVE  ViewOK'
BY DEF ViewOK, Activate

LEMMA ServerStays ==
  ASSUME ServerOK, server' = server
  PROVE  ServerOK' /\ Grows
BY DEF ServerOK, Grows, Snapshot

LEMMA ListStays ==
  ASSUME ListOK, UNCHANGED <<life, list>>, owned' \in [Work -> BOOLEAN]
  PROVE  ListOK'
BY DEF ListOK, list

LEMMA OwedIsFinite ==
  ASSUME NEW S \in SUBSET Kind
  PROVE  IsFiniteSet(S) /\ Cardinality(S) \in Nat
<1>1. IsFiniteSet({"import", "start", "retry", "cancel", "score", "studio", "delete"})
  <2>1. IsFiniteSet({"import"})
    BY FS_Singleton
  <2>2. IsFiniteSet({"import"} \cup {"start"})
    BY <2>1, FS_AddElement
  <2>3. IsFiniteSet({"import"} \cup {"start"} \cup {"retry"})
    BY <2>2, FS_AddElement
  <2>4. IsFiniteSet({"import"} \cup {"start"} \cup {"retry"} \cup {"cancel"})
    BY <2>3, FS_AddElement
  <2>5. IsFiniteSet({"import"} \cup {"start"} \cup {"retry"} \cup {"cancel"} \cup {"score"})
    BY <2>4, FS_AddElement
  <2>6. IsFiniteSet({"import"} \cup {"start"} \cup {"retry"} \cup {"cancel"} \cup {"score"}
                    \cup {"studio"})
    BY <2>5, FS_AddElement
  <2>7. IsFiniteSet({"import"} \cup {"start"} \cup {"retry"} \cup {"cancel"} \cup {"score"}
                    \cup {"studio"} \cup {"delete"})
    BY <2>6, FS_AddElement
  <2>8. {"import", "start", "retry", "cancel", "score", "studio", "delete"}
        = {"import"} \cup {"start"} \cup {"retry"} \cup {"cancel"} \cup {"score"}
          \cup {"studio"} \cup {"delete"}
    OBVIOUS
  <2> QED
    BY <2>7, <2>8
<1> QED
  BY <1>1, FS_Subset, FS_CardinalityType DEF Kind

\* No step takes a gesture back; without a new Job, or one more thing owed, the
\* budget holds.
LEMMA BudgetStays ==
  ASSUME ServerOK, BudgetOK, events' = events \/ Event \/ Gesture,
         \A w \in Work : server'[w].n = server[w].n, Owed' \subseteq Owed
  PROVE  BudgetOK'
<1>1. Cardinality(Owed') <= Cardinality(Owed) /\ Cardinality(Owed) \in Nat
      /\ Cardinality(Owed') \in Nat
  BY OwedIsFinite, FS_Subset DEF Owed
<1>2. /\ events' \in [done : 0..MaxGestures, failed : 0..MaxFailures]
      /\ events.done <= events'.done /\ events.done \in Nat
  BY SessionAssumption DEF BudgetOK, Event, Gesture
<1>3. \A w \in Work : server[w].n \in Nat
  BY DEF ServerOK, Snapshot
<1> HIDE DEF Owed
<1> QED
  BY <1>1, <1>2, <1>3 DEF BudgetOK

LEMMA BudgetSpent ==
  ASSUME ServerOK, BudgetOK, Gesture, server' = server, NEW k \in Kind,
         Owed' \subseteq Owed \cup {k}
  PROVE  BudgetOK'
<1>1. /\ Cardinality(Owed') <= Cardinality(Owed) + 1 /\ Cardinality(Owed) \in Nat
      /\ Cardinality(Owed') \in Nat
  <2>1. IsFiniteSet(Owed) /\ Cardinality(Owed) \in Nat
    BY OwedIsFinite DEF Owed
  <2>2. IsFiniteSet(Owed \cup {k}) /\ Cardinality(Owed \cup {k}) <= Cardinality(Owed) + 1
    BY <2>1, FS_AddElement
  <2>3. Cardinality(Owed') <= Cardinality(Owed \cup {k})
    BY <2>2, FS_Subset
  <2>4. Cardinality(Owed') \in Nat /\ Cardinality(Owed \cup {k}) \in Nat
    BY <2>2, FS_Subset, FS_CardinalityType
  <2> QED
    BY <2>1, <2>2, <2>3, <2>4
<1>2. /\ events' \in [done : 0..MaxGestures, failed : 0..MaxFailures]
      /\ events'.done = events.done + 1 /\ events.done \in Nat
  BY SessionAssumption DEF BudgetOK, Gesture
<1>3. \A w \in Work : server[w].n \in Nat
  BY DEF ServerOK, Snapshot
<1> HIDE DEF Owed
<1> QED
  BY <1>1, <1>2, <1>3 DEF BudgetOK

\* A step of the browser that sends no request of a handler.
LEMMA AtRest ==
  ASSUME Inv, UNCHANGED <<server, life, list, op>>, owned' \in [Work -> BOOLEAN],
         events' = events \/ Event \/ Gesture
  PROVE  ServerOK' /\ Grows /\ OpOK' /\ ListOK' /\ BudgetOK'
<1>1. ServerOK' /\ Grows
  BY ServerStays DEF Inv
<1>2. OpOK'
  BY <1>1, CallsStay DEF Inv
<1>3. ListOK'
  BY ListStays DEF Inv
<1>4. BudgetOK'
  BY BudgetStays DEF Inv, Owed
<1> QED
  BY <1>1, <1>2, <1>3, <1>4

LEMMA ShowBundleKeeps ==
  ASSUME Inv, Current, NEW seen \in Snapshot, Honest(seen, load.work), ShowBundle(seen),
         UNCHANGED <<server, active, due, loaded, timer>>
  PROVE  LoadOK' /\ PanelOK' /\ ViewOK'
<1> USE DEF Inv
<1>1. load.at # "none" /\ load.work = active /\ active = loaded /\ loaded \in Work
  BY DEF Current, LoadOK
<1>2. LoadOK'
  <2>1. load' = [load EXCEPT !.at = "children", !.own = Absent, !.seen = seen]
    BY DEF ShowBundle
  <2>2. load' \in Loads /\ load'.work = loaded /\ load'.own = Absent /\ load'.seen = seen
    BY <1>1, <2>1, NothingIsTyped DEF LoadOK, Loads
  <2>3. Honest(Absent.seen, loaded)
    BY <1>1, UnreadIsHonest DEF Absent
  <2> QED
    BY <1>1, <2>2, <2>3 DEF LoadOK, Honest
<1>3. PanelOK'
  <2>1. CASE panel' = panel
    BY <2>1 DEF PanelOK, Real
  <2>2. CASE /\ seen.stage = "active"
             /\ panel' = [job |-> [work |-> load.work, n |-> seen.n], processing |-> load.work,
                          pending |-> None, stage |-> "processing"]
    <3>1. seen.n \in 0..MaxAttempts /\ 0 < seen.n /\ seen.n <= server[load.work].n
      BY <2>2 DEF Honest, Staged, Snapshot
    <3>2. Real(panel.job)'
      BY <1>1, <2>2, <3>1 DEF Real
    <3>3. panel' \in Panels
      BY <1>1, <2>2, <3>1 DEF Panels, JobId
    <3> QED
      BY <2>2, <3>2, <3>3 DEF PanelOK
  <2> QED
    BY <2>1, <2>2 DEF ShowBundle
<1>4. ViewOK'
  BY <1>1 DEF ViewOK, ShowBundle
<1> QED
  BY <1>2, <1>3, <1>4

\* The loads: the effect, the answers, the end of a load and the timer.
LEMMA LoadsKeep ==
  ASSUME Inv, Effect \/ Settle \/ Refresh \/ ServerReadsOld \/ AnswerOld \/ AnswerCached
              \/ AnswerOldFails
  PROVE  Inv'
<1> USE DEF view
<1>1. ServerOK' /\ Grows /\ OpOK' /\ ListOK' /\ BudgetOK'
  <2>1. UNCHANGED <<server, life, list, op, owned>> /\ (events' = events \/ Event)
    BY DEF Effect, Settle, Refresh, ServerReadsOld, AnswerOld, AnswerCached, AnswerOldFails,
           FailOr
  <2> QED
    BY <2>1, AtRest DEF Inv, ListOK
<1> SUFFICES EntryOK' /\ LoadOK' /\ PanelOK' /\ ViewOK'
  BY <1>1 DEF Inv
<1> USE DEF Inv
<1>2. entry' = entry => EntryOK'
  BY <1>1, EntryStays
<1>3. load' = NoLoad /\ loaded' = loaded => LoadOK'
  BY NothingIsTyped DEF LoadOK, NoLoad
<1>4. UNCHANGED view => ViewOK'
  BY DEF ViewOK
<1>5. panel' = panel => PanelOK'
  BY <1>1, PanelStays DEF PanelOK
<1>6. CASE Effect
  BY <1>6, LoadWorkKeeps DEF Effect, PanelOK, ViewOK
<1>7. CASE Settle
  <2>1. UNCHANGED <<server, entry, active, due, loaded, content, sound>> /\ load' = NoLoad
    BY <1>7 DEF Settle
  <2>2. load.at # "none" /\ load.work = loaded /\ loaded \in Work
    BY <1>7 DEF Settle, LoadOK
  <2>3. ViewOK'
    BY <1>7, <2>1, <2>2 DEF Settle, ViewOK
  <2>4. load.seen \in Snapshot /\ Honest(load.seen, load.work)
    BY <2>2 DEF LoadOK, Loads
  <2>5. PanelOK'
    <3>1. CASE load.seen.stage = "active"
      BY <1>5, <1>7, <3>1 DEF Settle
    <3>2. CASE load.seen.stage = "failed"
      <4>1. panel' = [panel EXCEPT !.job = [work |-> load.work, n |-> load.seen.n],
                                   !.processing = load.work, !.stage = "error"]
        BY <1>7, <3>2 DEF Settle
      <4>2. load.seen.n \in 0..MaxAttempts /\ 0 < load.seen.n
            /\ load.seen.n <= server[load.work].n
        BY <2>4, <3>2 DEF Honest, Staged, Snapshot
      <4>3. panel' \in Panels /\ panel'.job = [work |-> load.work, n |-> load.seen.n]
        BY <2>2, <4>1, <4>2 DEF PanelOK, Panels, JobId
      <4>4. Real(panel.job)'
        BY <2>1, <2>2, <4>2, <4>3 DEF Real
      <4> QED
        BY <4>3, <4>4 DEF PanelOK
    <3>3. CASE load.seen.stage \notin {"active", "failed"}
      <4>1. panel' \in Panels /\ panel'.job = NoJob
        BY <1>7, <2>2, <3>3, NothingIsTyped DEF Settle, Panels
      <4> QED
        BY <4>1 DEF PanelOK
    <3> QED
      BY <3>1, <3>2, <3>3
  <2> QED
    BY <1>2, <1>3, <2>1, <2>3, <2>5
<1>8. CASE Refresh
  <2>1. CASE active = timer /\ loaded = timer
    <3>1. LoadWork(timer, {}, panel) /\ UNCHANGED <<server, active, due>>
      BY <1>8, <2>1 DEF Refresh
    <3> QED
      BY <3>1, LoadWorkKeeps DEF PanelOK, ViewOK
  <2>2. CASE ~(active = timer /\ loaded = timer)
    BY <1>1, <1>2, <1>5, <1>8, <2>2, LoadStays DEF Refresh, ViewOK
  <2> QED
    BY <2>1, <2>2
<1>9. CASE ServerReadsOld
  <2>1. /\ UNCHANGED <<server, view, entry, panel>> /\ load.own.at = "asked"
        /\ load.work \in Work
        /\ load' = [load EXCEPT !.own = [at |-> "read", seen |-> server[load.work]]]
    BY <1>9 DEF ServerReadsOld, Saved
  <2>2. [at |-> "read", seen |-> server[load.work]] \in Fetch
        /\ Honest(server[load.work], load.work)
    BY <2>1 DEF ServerOK, Fetch, Honest, Snapshot
  <2>3. LoadOK'
    BY <2>1, <2>2 DEF LoadOK, Loads, Honest
  <2> QED
    BY <1>2, <1>4, <1>5, <2>1, <2>3
<1>10. CASE AnswerOld
  <2>1. load.own.seen \in Snapshot /\ Honest(load.own.seen, load.work)
    BY <1>10 DEF AnswerOld, Current, LoadOK, Loads, Fetch
  <2> QED
    BY <1>2, <1>10, <2>1, ShowBundleKeeps DEF AnswerOld
<1>11. CASE AnswerCached
  <2>1. load.work \in Work
    BY <1>11 DEF AnswerCached, Current, LoadOK
  <2>2. entry[load.work].seen \in Snapshot /\ Honest(entry[load.work].seen, load.work)
    BY <2>1 DEF EntryOK, Fetch
  <2> QED
    BY <1>2, <1>11, <2>2, ShowBundleKeeps DEF AnswerCached
<1>12. CASE AnswerOldFails
  <2>1. UNCHANGED <<view, entry>> /\ load' = NoLoad
    BY <1>12 DEF AnswerOldFails, Catch
  <2>2. panel' \in Panels /\ panel'.job = panel.job
    BY <1>12 DEF AnswerOldFails, Catch, PanelOK, LoadOK, Loads, Panels
  <2> QED
    BY <1>1, <1>2, <1>3, <1>4, <2>1, <2>2, PanelStays
<1> QED
  BY <1>6, <1>7, <1>8, <1>9, <1>10, <1>11, <1>12

\* The requests under the current keys.
LEMMA RequestsKeep ==
  ASSUME Inv, NEW w \in Work, ServerReads(w) \/ Answer(w) \/ AnswerFails(w)
  PROVE  Inv'
<1> USE DEF view
<1>1. ServerOK' /\ Grows /\ OpOK' /\ ListOK' /\ BudgetOK'
  <2>1. UNCHANGED <<server, life, list, op>> /\ (events' = events \/ Event)
    BY DEF ServerReads, Answer, AnswerFails, FailOr
  <2>2. owned' \in [Work -> BOOLEAN]
    BY DEF ServerReads, Answer, AnswerFails, Inv, ListOK
  <2> QED
    BY <2>1, <2>2, AtRest
<1> SUFFICES EntryOK' /\ LoadOK' /\ PanelOK' /\ ViewOK'
  BY <1>1 DEF Inv
<1> USE DEF Inv
<1>2. UNCHANGED view => ViewOK'
  BY DEF ViewOK
<1>3. ASSUME NEW f \in Fetch, Honest(f.seen, w), entry' = [entry EXCEPT ![w] = f],
             server' = server
      PROVE  EntryOK'
  BY <1>3 DEF EntryOK, Honest
<1>4. entry[w] \in Fetch /\ entry[w].seen \in Snapshot /\ Honest(entry[w].seen, w)
  BY DEF EntryOK, Fetch
<1>5. Absent \in Fetch /\ Honest(Absent.seen, w)
  BY NothingIsTyped, UnreadIsHonest DEF Absent
<1>6. CASE ServerReads(w)
  <2>1. [at |-> "read", seen |-> server[w]] \in Fetch /\ Honest(server[w], w)
    BY DEF ServerOK, Fetch, Honest, Snapshot
  <2>2. EntryOK'
    BY <1>3, <1>6, <2>1 DEF ServerReads
  <2> QED
    BY <1>1, <1>2, <1>6, <2>2, LoadStays, PanelStays DEF ServerReads, PanelOK
<1>7. CASE Answer(w)
  <2>1. Advance(entry[w].seen) \in Fetch /\ Honest(Advance(entry[w].seen).seen, w)
    BY <1>4, <1>5 DEF Advance, Fetch
  <2>2. EntryOK'
    BY <1>3, <1>7, <2>1 DEF Answer
  <2>3. CASE Shares(w) /\ Current
    BY <1>4, <1>7, <2>2, <2>3, ShowBundleKeeps DEF Answer, Shares
  <2>4. CASE ~(Shares(w) /\ Current)
    BY <1>1, <1>2, <1>7, <2>2, <2>4, LoadStays, PanelStays DEF Answer, PanelOK
  <2> QED
    BY <2>3, <2>4
<1>8. CASE AnswerFails(w)
  <2>1. EntryOK'
    BY <1>3, <1>5, <1>8 DEF AnswerFails
  <2>2. load' \in {load, NoLoad} /\ UNCHANGED view
    BY <1>8 DEF AnswerFails, Catch
  <2>3. LoadOK'
    <3>1. CASE load' = load
      BY <1>1, <2>2, <3>1, LoadStays
    <3>2. CASE load' = NoLoad
      BY <2>2, <3>2, NothingIsTyped DEF LoadOK, NoLoad
    <3> QED
      BY <2>2, <3>1, <3>2
  <2>4. panel' \in Panels /\ panel'.job = panel.job
    BY <1>8 DEF AnswerFails, Catch, PanelOK, LoadOK, Loads, Panels
  <2> QED
    BY <1>1, <1>2, <2>1, <2>2, <2>3, <2>4, PanelStays
<1> QED
  BY <1>6, <1>7, <1>8

LEMMA JobEndsKeeps ==
  ASSUME Inv, NEW w \in Work, JobEnds(w)
  PROVE  Inv'
<1> USE DEF Inv
<1>1. PICK s \in {"succeeded", "failed"} : server' = [server EXCEPT ![w].stage = s]
  BY DEF JobEnds
<1>2. /\ UNCHANGED <<life, list, view, load, entry, owned, panel, op, events>>
      /\ server[w].stage = "active"
  BY DEF JobEnds
<1>3. ServerOK' /\ Grows /\ \A v \in Work : server'[v].n = server[v].n
  BY <1>1, <1>2 DEF ServerOK, Grows, Staged, Snapshot, JobStage, MaxAttempts
<1>4. EntryOK' /\ OpOK'
  BY <1>2, <1>3, EntryStays, CallsStay
<1>5. LoadOK' /\ PanelOK' /\ ViewOK'
  BY <1>2, <1>3, LoadStays, PanelStays DEF PanelOK, ViewOK, view
<1>6. ListOK'
  BY <1>2, ListStays DEF ListOK
<1>7. BudgetOK'
  BY <1>2, <1>3, BudgetStays DEF Owed
<1> QED
  BY <1>3, <1>4, <1>5, <1>6, <1>7

\* What the user does to the view, and the effect on the list.
LEMMA ViewsKeep ==
  ASSUME Inv, \/ \E w \in Work : Open(w) \/ Prefetch(w)
              \/ Reselect \/ PanelRefresh \/ LeaveUnlisted
  PROVE  Inv'
<1>1. ServerOK' /\ Grows /\ OpOK' /\ ListOK' /\ BudgetOK'
  <2>1. UNCHANGED <<server, life, list, op>> /\ (events' = events \/ Gesture)
    BY DEF Open, Prefetch, Reselect, PanelRefresh, LeaveUnlisted
  <2>2. owned' \in [Work -> BOOLEAN]
    BY DEF Open, Prefetch, Reselect, PanelRefresh, LeaveUnlisted, Inv, ListOK
  <2> QED
    BY <2>1, <2>2, AtRest
<1>2. PanelOK'
  <2>1. panel' = panel
    BY DEF Open, Prefetch, Reselect, PanelRefresh, LeaveUnlisted
  <2> QED
    BY <1>1, <2>1, PanelStays DEF Inv, PanelOK
<1> SUFFICES EntryOK' /\ LoadOK' /\ ViewOK'
  BY <1>1, <1>2 DEF Inv
<1> USE DEF Inv
<1>3. UNCHANGED <<load, loaded, entry>> => EntryOK' /\ LoadOK'
  BY <1>1, EntryStays, LoadStays
<1>4. ASSUME NEW w \in Work, Open(w)
      PROVE  EntryOK' /\ LoadOK' /\ ViewOK'
  BY <1>3, <1>4, ActivateKeeps DEF Open
<1>5. ASSUME NEW w \in Work, Prefetch(w)
      PROVE  EntryOK' /\ LoadOK' /\ ViewOK'
  <2>1. EntryOK'
    BY <1>5, RequestKeeps DEF Prefetch, EntryOK, Honest
  <2> QED
    BY <1>1, <1>5, <2>1, LoadStays DEF Prefetch, ViewOK, view
<1>6. CASE Reselect
  BY <1>3, <1>6 DEF Reselect, ViewOK
<1>7. CASE PanelRefresh
  <2>1. /\ entry' = Request(Cleared(Work), active) /\ load' = Detached(Work)
        /\ active \in Work /\ UNCHANGED <<server, view>>
    BY <1>7 DEF PanelRefresh, ViewOK
  <2>2. EntryOK'
    BY <2>1, ClearedKeeps, RequestKeeps DEF EntryOK, Honest
  <2> QED
    BY <2>1, <2>2, DetachedKeeps DEF ViewOK, view
<1>8. CASE LeaveUnlisted
  <2>1. PICK w \in IF rows = {} THEN {None} ELSE rows : Activate(w)
    BY <1>8 DEF LeaveUnlisted
  <2>2. w \in Work \cup {None}
    BY <2>1 DEF ListOK
  <2>3. ViewOK'
    BY <1>8, <2>1, <2>2, ActivateKeeps DEF LeaveUnlisted
  <2> QED
    BY <1>3, <1>8, <2>3 DEF LeaveUnlisted
<1> QED
  BY <1>4, <1>5, <1>6, <1>7, <1>8

----------------------------------------------------------------------------
(* The handlers: a step moves one of them, and those that wait for the list. *)

Owing == {"upload", "saved", "listed", "post"}

LEMMA HandledStays ==
  ASSUME ServerOK, ServerOK', Grows, OpOK, NEW k \in Kind,
         op'[k] = op[k] \/ op'[k] = Listed(op)[k]
  PROVE  Handled(k)' /\ (op'[k].at \in Owing => op[k].at \in Owing)
<1>1. op[k] \in Calls /\ op[k].job \in JobId
  BY DEF OpOK, Calls
<1>2. Handled(k)
  BY DEF OpOK
<1>3. Real(op[k].job) /\ op'[k].job = op[k].job => Real(op[k].job)'
  BY <1>1, RealStays DEF Real
<1>4. CASE op'[k] = op[k]
  BY <1>2, <1>3, <1>4 DEF Handled
<1>5. CASE op[k].at = "saved" /\ op'[k] = [op[k] EXCEPT !.at = "listed"]
  <2>1. /\ op'[k].at = "listed" /\ op'[k].job = op[k].job /\ op'[k].work = op[k].work
        /\ op[k].at = "saved"
    BY <1>1, <1>5 DEF Calls
  <2> QED
    BY <1>2, <1>3, <2>1 DEF Handled, Owing
<1>6. CASE op'[k] = NoOp
  BY <1>6 DEF Handled, NoOp, Owing
<1> QED
  BY <1>4, <1>5, <1>6, ListedKeeps

LEMMA ListedMoves ==
  ASSUME ServerOK, ServerOK', Grows, OpOK, op' = Listed(op)
  PROVE  OpOK' /\ Owed' \subseteq Owed
<1>1. op' \in [Kind -> Calls]
  <2>1. "import" \in Kind
    BY DEF Kind
  <2> QED
    BY <2>1, ListedKeeps
<1>2. \A k \in Kind : Handled(k)' /\ (op'[k].at \in Owing => op[k].at \in Owing)
  BY HandledStays
<1> QED
  BY <1>1, <1>2 DEF OpOK, Owed, Owing

LEMMA CallsMove ==
  ASSUME ServerOK, ServerOK', Grows, OpOK, NEW k \in Kind, NEW c \in Calls,
         \/ op' = [op EXCEPT ![k] = c]
         \/ op' = [Listed(op) EXCEPT ![k] = c],
         Handled(k)'
  PROVE  /\ OpOK' /\ op'[k] = c /\ Owed' \subseteq Owed \cup {k}
         /\ c.at \notin Owing \/ op[k].at \in Owing => Owed' \subseteq Owed
         /\ c.at \notin Owing => k \notin Owed'
<1>1. op \in [Kind -> Calls] /\ Listed(op) \in [Kind -> Calls]
  BY ListedKeeps DEF OpOK
<1>2. op' \in [Kind -> Calls] /\ op'[k] = c
  BY <1>1
<1>3. \A i \in Kind \ {k} : op'[i] = op[i] \/ op'[i] = Listed(op)[i]
  BY <1>1
<1>4. \A i \in Kind \ {k} : Handled(i)' /\ (op'[i].at \in Owing => op[i].at \in Owing)
  BY <1>3, HandledStays
<1> QED
  BY <1>2, <1>4 DEF OpOK, Owed, Owing

LEMMA DoneMoves ==
  ASSUME ServerOK, ServerOK', Grows, OpOK, NEW k \in Kind, Done(k)
  PROVE  OpOK' /\ Owed' \subseteq Owed
<1>1. op' = [op EXCEPT ![k] = NoOp] /\ NoOp \in Calls
  BY NothingIsTyped DEF Done
<1>2. op'[k] = NoOp
  BY <1>1 DEF OpOK
<1>3. Handled(k)'
  BY <1>2 DEF Handled, NoOp
<1>4. NoOp.at \notin Owing
  BY DEF NoOp, Owing
<1> QED
  BY <1>1, <1>3, <1>4, CallsMove

\* What the answers of the list, or of nobody, leave as it was.
LEMMA ListsKeep ==
  ASSUME Inv, ReadList \/ ListAnswers \/ ListFails
  PROVE  Inv'
<1> USE DEF Inv
<1>1. /\ UNCHANGED <<server, life, previous, view, load, entry, owned>>
      /\ events' = events \/ Event
  BY DEF ReadList, ListAnswers, ListFails
<1>2. ServerOK' /\ Grows
  BY <1>1, ServerStays
<1>3. EntryOK' /\ LoadOK' /\ ViewOK'
  BY <1>1, <1>2, EntryStays, LoadStays DEF ViewOK, view
<1>4. PanelOK'
  <2>1. panel' \in Panels /\ panel'.job = panel.job
    BY DEF ReadList, ListAnswers, ListFails, PanelOK, Panels
  <2> QED
    BY <1>2, <2>1, PanelStays
<1>5. OpOK' /\ Owed' \subseteq Owed
  <2>1. CASE op' = op
    BY <1>2, <2>1, CallsStay DEF Owed
  <2> QED
    BY <1>2, <2>1, ListedMoves DEF ReadList, ListAnswers, ListFails
<1>6. BudgetOK'
  BY <1>1, <1>5, BudgetStays
<1>7. ListOK'
  BY <1>1 DEF ReadList, ListAnswers, ListFails, ListOK, Still, Saved
<1> QED
  BY <1>2, <1>3, <1>4, <1>5, <1>6, <1>7

\* A gesture that sends a request, or a handler's step.
LEMMA RequestsOf ==
  ASSUME Inv, NEW k \in Kind, NEW c \in Calls,
         op' = [op EXCEPT ![k] = c] \/ op' = [Listed(op) EXCEPT ![k] = c], Handled(k)',
         server' = server, \/ Gesture
                           \/ /\ events' = events \/ Event
                              /\ c.at \notin Owing \/ op[k].at \in Owing
  PROVE  ServerOK' /\ Grows /\ OpOK' /\ BudgetOK'
<1> USE DEF Inv
<1>1. ServerOK' /\ Grows
  BY ServerStays
<1>2. /\ OpOK' /\ Owed' \subseteq Owed \cup {k}
      /\ c.at \notin Owing \/ op[k].at \in Owing => Owed' \subseteq Owed
  BY <1>1, CallsMove
<1>3. BudgetOK'
  BY <1>2, BudgetSpent, BudgetStays
<1> QED
  BY <1>1, <1>2, <1>3

\* The handlers up to their first request: what the user asks for.
LEMMA GesturesKeep ==
  ASSUME Inv, \/ \E w \in Work : Import(w) \/ Delete(w)
              \/ StartPending \/ RetryJob \/ CancelJob
              \/ \E k \in {"score", "studio"} : Rebuild(k)
  PROVE  Inv'
<1> USE DEF Inv
<1>1. ASSUME NEW w \in Work, Import(w)
      PROVE  Inv'
  <2> DEFINE c == [at |-> "upload", job |-> NoJob, work |-> w]
  <2>1. /\ op' = [op EXCEPT !["import"] = c] /\ c \in Calls /\ "import" \in Kind /\ Gesture
        /\ UNCHANGED <<server, life, list, view, load, entry, owned>>
    BY <1>1, NothingIsTyped DEF Import, Begin, Calls, Kind
  <2>2. op'["import"] = c
    BY <2>1 DEF OpOK
  <2>3. Handled("import")'
    BY <2>2 DEF Handled
  <2>4. ServerOK' /\ Grows /\ OpOK' /\ BudgetOK'
    BY <2>1, <2>3, RequestsOf
  <2>5. panel' \in Panels /\ panel'.job = NoJob
    BY <1>1, NothingIsTyped DEF Import, Panels
  <2> QED
    BY <2>1, <2>4, <2>5, EntryStays, LoadStays, PanelStays, ListStays
    DEF ViewOK, view, ListOK
<1>2. ASSUME NEW w \in Work, Delete(w)
      PROVE  Inv'
  <2> DEFINE c == [at |-> "post", job |-> [NoJob EXCEPT !.work = w], work |-> active]
  <2>1. /\ op' = [Listed(op) EXCEPT !["delete"] = c] /\ "delete" \in Kind /\ Gesture
        /\ UNCHANGED <<server, life, loaded, load, entry, owned, panel>>
    BY <1>2 DEF Delete, Kind
  <2>2. c \in Calls /\ c.job.work = w
    BY NothingIsTyped DEF Calls, NoJob, JobId, ViewOK
  <2>3. op'["delete"] = c
    BY <2>1, ListedKeeps
  <2>4. Handled("delete")'
    BY <2>2, <2>3 DEF Handled
  <2>5. ServerOK' /\ Grows /\ OpOK' /\ BudgetOK'
    <3> HIDE DEF c
    <3> QED
      BY <2>1, <2>2, <2>4, RequestsOf
  <2>6. ViewOK'
    <3>1. CASE UNCHANGED <<active, due, content, sound, timer>>
      BY <2>1, <3>1 DEF ViewOK
    <3>2. CASE active = w
      <4>1. PICK next \in IF rows = {w} THEN {None} ELSE rows \ {w} : Activate(next)
        BY <1>2, <3>2 DEF Delete
      <4>2. next \in Work \cup {None} /\ sound' = None /\ timer' \in {None, timer}
        BY <1>2, <3>2 DEF Delete, ListOK
      <4> QED
        BY <2>1, <4>1, <4>2, ActivateKeeps
    <3> QED
      BY <1>2, <3>1, <3>2 DEF Delete
  <2>7. ListOK'
    BY <1>2 DEF Delete, ListOK, Still
  <2> QED
    BY <2>1, <2>5, <2>6, <2>7, EntryStays, LoadStays, PanelStays DEF PanelOK
<1>3. CASE StartPending
  <2> DEFINE c == [at |-> "post", job |-> [work |-> panel.pending, n |-> 0], work |-> Subject]
  <2>1. /\ op' = [op EXCEPT !["start"] = c] /\ "start" \in Kind /\ Gesture
        /\ UNCHANGED <<server, life, list, view, owned>> /\ Invalidate(Owners(panel.pending))
        /\ panel' = [panel EXCEPT !.stage = "processing"] /\ panel.pending # None
    BY <1>3 DEF StartPending, Begin, Kind
  <2>2. c \in Calls /\ c.job.work \in Work
    BY <2>1, SessionAssumption DEF Calls, JobId, Subject, PanelOK, Panels, ViewOK, MaxAttempts
  <2>3. op'["start"] = c
    BY <2>1 DEF OpOK
  <2>4. Handled("start")'
    BY <2>2, <2>3 DEF Handled
  <2>5. ServerOK' /\ Grows /\ OpOK' /\ BudgetOK'
    <3> HIDE DEF c
    <3> QED
      BY <2>1, <2>2, <2>4, RequestsOf
  <2>6. panel' \in Panels /\ panel'.job = panel.job
    BY <2>1 DEF PanelOK, Panels
  <2> QED
    BY <2>1, <2>5, <2>6, InvalidateKeeps, PanelStays, ListStays DEF ViewOK, view, ListOK
<1>4. CASE RetryJob
  <2> DEFINE c == [at |-> "post", job |-> panel.job, work |-> Subject]
  <2>1. /\ op' = [op EXCEPT !["retry"] = c] /\ "retry" \in Kind /\ Gesture
        /\ UNCHANGED <<server, life, list, view>> /\ Invalidate(Work)
        /\ owned' \in [Work -> BOOLEAN]
        /\ panel' = [panel EXCEPT !.stage = "processing"] /\ panel.job # NoJob
    BY <1>4 DEF RetryJob, Begin, Kind, ClearCache
  <2>2. c \in Calls /\ Real(c.job)
    BY <2>1 DEF Calls, Subject, PanelOK, Panels, ViewOK
  <2>3. op'["retry"] = c /\ op'["retry"].job = panel.job
    BY <2>1 DEF OpOK
  <2>4. Handled("retry")'
    <3>1. Real(op["retry"].job)'
      BY <2>1, <2>2, <2>3 DEF Real
    <3> QED
      BY <2>1, <2>2, <2>3, <3>1 DEF Handled, Real
  <2>5. ServerOK' /\ Grows /\ OpOK' /\ BudgetOK'
    <3> HIDE DEF c
    <3> QED
      BY <2>1, <2>2, <2>4, RequestsOf
  <2>6. panel' \in Panels /\ panel'.job = panel.job
    BY <2>1 DEF PanelOK, Panels
  <2> QED
    BY <2>1, <2>5, <2>6, InvalidateKeeps, PanelStays, ListStays DEF ViewOK, view
<1>5. CASE CancelJob
  <2> DEFINE c == [at |-> "post", job |-> panel.job, work |-> Subject]
  <2>1. /\ op' = [op EXCEPT !["cancel"] = c] /\ "cancel" \in Kind /\ Gesture
        /\ UNCHANGED <<server, life, list, view, load, entry, owned, panel>>
        /\ panel.job # NoJob
    BY <1>5 DEF CancelJob, Begin, Kind
  <2>2. c \in Calls /\ Real(c.job)
    BY <2>1 DEF Calls, Subject, PanelOK, Panels, ViewOK
  <2>3. op'["cancel"] = c /\ op'["cancel"].job = panel.job
    BY <2>1 DEF OpOK
  <2>4. Handled("cancel")'
    <3>1. Real(op["cancel"].job)'
      BY <2>1, <2>2, <2>3 DEF Real
    <3> QED
      BY <2>1, <2>2, <2>3, <3>1 DEF Handled, Real
  <2>5. ServerOK' /\ Grows /\ OpOK' /\ BudgetOK'
    <3> HIDE DEF c
    <3> QED
      BY <2>1, <2>2, <2>4, RequestsOf
  <2> QED
    BY <2>1, <2>5, EntryStays, LoadStays, PanelStays, ListStays
    DEF PanelOK, ViewOK, view, ListOK
<1>6. ASSUME NEW k \in {"score", "studio"}, Rebuild(k)
      PROVE  Inv'
  <2> DEFINE c == [at |-> "post", job |-> [work |-> active, n |-> 0], work |-> active]
  <2>1. /\ op' = [op EXCEPT ![k] = c] /\ k \in Kind /\ Gesture
        /\ UNCHANGED <<server, life, list, view, owned>> /\ Invalidate(Owners(active))
        /\ active # None
    BY <1>6 DEF Rebuild, Begin, Kind
  <2>2. c \in Calls /\ c.job.work \in Work
    BY <2>1, SessionAssumption DEF Calls, JobId, ViewOK, MaxAttempts
  <2>3. op'[k] = c
    BY <2>1 DEF OpOK
  <2>4. Handled(k)'
    BY <2>2, <2>3 DEF Handled
  <2>5. ServerOK' /\ Grows /\ OpOK' /\ BudgetOK'
    <3> HIDE DEF c
    <3> QED
      BY <2>1, <2>2, <2>4, RequestsOf
  <2>6. panel' \in Panels /\ panel'.job = panel.job
    BY <1>6, <2>1 DEF Rebuild, PanelOK, Panels, ViewOK
  <2> QED
    BY <2>1, <2>5, <2>6, InvalidateKeeps, PanelStays, ListStays DEF ViewOK, view, ListOK
<1> QED
  BY <1>1, <1>2, <1>3, <1>4, <1>5, <1>6

\* A handler that only goes to its next stage.
LEMMA GotoMoves ==
  ASSUME Inv, NEW k \in Kind, NEW state, [op[k] EXCEPT !.at = state] \in Calls,
         \/ op' = [op EXCEPT ![k].at = state]
         \/ op' = [Listed(op) EXCEPT ![k].at = state],
         Listed(op)[k] = op[k], server' = server, events' = events \/ Event,
         state \notin Owing \/ op[k].at \in Owing,
         k = "import" \/ ~(op[k].at \in {"idle", "upload", "saved", "listed"}),
         k = "import" => \/ state = "saved" /\ op[k].at = "upload"
                         \/ state \notin {"upload", "saved", "listed"}
                            /\ op[k].job.work \in Work,
         state \in {"reply", "wait"} /\ k # "delete" => Real(op[k].job)
  PROVE  ServerOK' /\ Grows /\ OpOK' /\ BudgetOK'
<1> DEFINE c == [op[k] EXCEPT !.at = state]
<1>1. op' = [op EXCEPT ![k] = c] \/ op' = [Listed(op) EXCEPT ![k] = c]
  OBVIOUS
<1>2. op \in [Kind -> Calls] /\ Listed(op) \in [Kind -> Calls] /\ op[k] \in Calls
  BY ListedKeeps DEF Inv, OpOK
<1>3. op'[k] = c
  BY <1>1, <1>2
<1>4. c.at = state /\ c.job = op[k].job /\ c.work = op[k].work
  BY <1>2 DEF Calls
<1>5. Handled(k)
  BY DEF Inv, OpOK
<1>6. Real(op[k].job) => Real(op[k].job)'
  BY <1>3, <1>4 DEF Real
<1>7. Handled(k)'
  BY <1>3, <1>4, <1>5, <1>6 DEF Handled
<1>8. c \in Calls
  OBVIOUS
<1> HIDE DEF c
<1> QED
  BY <1>1, <1>4, <1>7, <1>8, RequestsOf

LEMMA DoneKeeps ==
  ASSUME Inv, NEW k \in Kind, Done(k), server' = server, events' = events \/ Event
  PROVE  ServerOK' /\ Grows /\ OpOK' /\ BudgetOK'
<1> USE DEF Inv
<1>1. ServerOK' /\ Grows
  BY ServerStays
<1>2. OpOK' /\ Owed' \subseteq Owed
  BY <1>1, DoneMoves
<1> QED
  BY <1>1, <1>2, BudgetStays

\* The import, up to its request for a Job.
LEMMA ImportKeeps ==
  ASSUME Inv, Uploaded \/ UploadFails \/ Enter
  PROVE  Inv'
<1> USE DEF Inv
<1> DEFINE w == op["import"].work
<1>0. "import" \in Kind /\ op["import"] \in Calls /\ op \in [Kind -> Calls] /\ Handled("import")
  BY DEF Kind, OpOK
<1>1. CASE Uploaded
  <2>1. /\ op' = [Listed(op) EXCEPT !["import"].at = "saved"] /\ op["import"].at = "upload"
        /\ Invalidate({w}) /\ UNCHANGED <<server, rows, previous, view, events>>
        /\ life' = [life EXCEPT ![w] = "saved"] /\ owned' = [owned EXCEPT ![w] = TRUE]
        /\ panel' = [panel EXCEPT !.pending = w, !.processing = w]
        /\ listing' = [Still EXCEPT !.at = "asked"]
    BY <1>1 DEF Uploaded
  <2>2. w \in Work
    BY <1>0, <2>1 DEF Handled
  <2>3. Listed(op)["import"] = op["import"] /\ [op["import"] EXCEPT !.at = "saved"] \in Calls
    BY <1>0, <2>1 DEF Listed, Calls
  <2>4. ServerOK' /\ Grows /\ OpOK' /\ BudgetOK'
    BY <1>0, <2>1, <2>3, GotoMoves DEF Owing
  <2>5. panel' \in Panels /\ panel'.job = panel.job
    BY <2>1, <2>2 DEF PanelOK, Panels
  <2>6. ListOK'
    BY <2>1, <2>2 DEF ListOK, Still
  <2> QED
    BY <2>1, <2>4, <2>5, <2>6, InvalidateKeeps, PanelStays DEF ViewOK, view
<1>2. CASE UploadFails
  <2>1. /\ Done("import") /\ UNCHANGED <<server, life, list, view, load, entry, owned>> /\ Event
        /\ panel' = [panel EXCEPT !.pending = None, !.processing = None, !.stage = "error"]
    BY <1>2 DEF UploadFails
  <2>2. panel' \in Panels /\ panel'.job = panel.job
    BY <2>1 DEF PanelOK, Panels
  <2> QED
    BY <1>0, <2>1, <2>2, DoneKeeps, EntryStays, LoadStays, PanelStays, ListStays
    DEF ViewOK, view, ListOK
<1>3. CASE Enter
  <2> DEFINE c == [at |-> "post", job |-> [work |-> w, n |-> 0], work |-> w]
  <2>1. /\ op' = [op EXCEPT !["import"] = c] /\ op["import"].at = "listed"
        /\ UNCHANGED <<server, life, list, loaded, timer, owned, sound, events>>
        /\ Activate(w) /\ Invalidate(Owners(w))
        /\ panel' = [panel EXCEPT !.stage = "processing"]
    BY <1>3 DEF Enter, Begin
  <2>2. w \in Work
    BY <1>0, <2>1 DEF Handled
  <2>3. c \in Calls /\ c.job.work \in Work
    BY <2>2, SessionAssumption DEF Calls, JobId, MaxAttempts
  <2>4. op'["import"] = c
    BY <1>0, <2>1
  <2>5. Handled("import")'
    BY <2>3, <2>4 DEF Handled
  <2>6. ServerOK' /\ Grows /\ OpOK' /\ BudgetOK'
    <3> HIDE DEF c
    <3> QED
      BY <1>0, <2>1, <2>3, <2>5, RequestsOf DEF Owing
  <2>7. panel' \in Panels /\ panel'.job = panel.job
    BY <2>1 DEF PanelOK, Panels
  <2>8. ViewOK'
    BY <2>1, <2>2, ActivateKeeps
  <2> QED
    BY <2>1, <2>6, <2>7, <2>8, InvalidateKeeps, PanelStays, ListStays DEF ListOK
<1> QED
  BY <1>1, <1>2, <1>3

\* Deleting a Work, from its request on.
LEMMA DeletionKeeps ==
  ASSUME Inv, ServeDelete \/ DeleteReplies \/ DeleteFails \/ Restore
  PROVE  Inv'
<1> USE DEF Inv
<1> DEFINE o == op["delete"]
<1>0. "delete" \in Kind /\ o \in Calls /\ op \in [Kind -> Calls]
      /\ o.job.work \in Work \cup {None} /\ (o.at # "idle" => o.job.work \in Work)
  BY DEF Kind, OpOK, Handled, Calls, JobId
<1>1. CASE ServeDelete
  <2>1. /\ op' = [op EXCEPT !["delete"].at = "reply"] /\ o.at = "post"
        /\ life' = [life EXCEPT ![o.job.work] = "gone"]
        /\ UNCHANGED <<server, list, view, load, entry, owned, panel, events>>
    BY <1>1 DEF ServeDelete, Goto
  <2>2. Listed(op)["delete"] = o /\ [o EXCEPT !.at = "reply"] \in Calls
    BY <1>0, <2>1 DEF Listed, Calls
  <2>3. ServerOK' /\ Grows /\ OpOK' /\ BudgetOK'
    BY <1>0, <2>1, <2>2, GotoMoves DEF Owing
  <2>4. ListOK'
    BY <1>0, <2>1 DEF ListOK, list
  <2> QED
    BY <2>1, <2>3, <2>4, EntryStays, LoadStays, PanelStays DEF PanelOK, ViewOK, view
<1>2. CASE DeleteReplies
  <2>1. /\ op' = [Listed(op) EXCEPT !["delete"].at = "settling"] /\ o.at = "reply"
        /\ Invalidate({o.job.work}) /\ listing' = [Still EXCEPT !.at = "asked"]
        /\ previous' = {}
        /\ UNCHANGED <<server, life, rows, view, owned, panel, events>>
    BY <1>2 DEF DeleteReplies
  <2>2. Listed(op)["delete"] = o /\ [o EXCEPT !.at = "settling"] \in Calls
    BY <1>0, <2>1 DEF Listed, Calls
  <2>3. ServerOK' /\ Grows /\ OpOK' /\ BudgetOK'
    BY <1>0, <2>1, <2>2, GotoMoves DEF Owing
  <2>4. ListOK'
    BY <2>1 DEF ListOK, Still
  <2> QED
    BY <2>1, <2>3, <2>4, InvalidateKeeps, PanelStays DEF PanelOK, ViewOK, view
<1>3. CASE DeleteFails
  <2>1. /\ op' = [Listed(op) EXCEPT !["delete"].at = "failing"] /\ o.at \in {"post", "reply"}
        /\ listing' = [Still EXCEPT !.at = "asked"] /\ previous' = {} /\ rows' = previous
        /\ UNCHANGED <<server, life, view, load, entry, owned, panel>> /\ Event
    BY <1>3 DEF DeleteFails
  <2>2. Listed(op)["delete"] = o /\ [o EXCEPT !.at = "failing"] \in Calls
    BY <1>0, <2>1 DEF Listed, Calls
  <2>3. ServerOK' /\ Grows /\ OpOK' /\ BudgetOK'
    BY <1>0, <2>1, <2>2, GotoMoves DEF Owing
  <2>4. ListOK'
    BY <2>1 DEF ListOK, Still
  <2> QED
    BY <2>1, <2>3, <2>4, EntryStays, LoadStays, PanelStays DEF PanelOK, ViewOK, view
<1>4. CASE Restore
  <2>1. /\ Done("delete") /\ o.at = "failing"
        /\ UNCHANGED <<server, life, list, loaded, load, timer, entry, owned, sound, panel, events>>
        /\ (Activate(o.job.work) \/ UNCHANGED <<active, due, content>>)
    BY <1>4 DEF Restore
  <2>2. ViewOK'
    BY <1>0, <2>1, ActivateKeeps DEF ViewOK
  <2> QED
    BY <1>0, <2>1, <2>2, DoneKeeps, EntryStays, LoadStays, PanelStays, ListStays
    DEF PanelOK, ListOK
<1> QED
  BY <1>1, <1>2, <1>3, <1>4

\* POST: a Job that is made is the one thing owed to its gesture.
LEMMA ServeKeeps ==
  ASSUME Inv, NEW k \in Kind, Serve(k)
  PROVE  Inv'
<1> USE DEF Inv
<1> DEFINE j == op[k].job
           s == server[j.work]
<1>1. /\ op[k] \in Calls /\ op \in [Kind -> Calls] /\ op[k].at = "post" /\ k # "delete"
      /\ j \in JobId /\ j.work \in Work /\ s \in Snapshot /\ Staged(s)
      /\ k \in {"retry", "cancel"} => 0 < j.n /\ j.n <= s.n
  BY DEF Serve, OpOK, Handled, Calls, ServerOK, Real
<1>2. UNCHANGED <<life, list, view, load, loaded, entry, owned, panel, events>>
  BY DEF Serve, view
<1> SUFFICES ServerOK' /\ Grows /\ OpOK' /\ BudgetOK'
  BY <1>2, EntryStays, LoadStays, PanelStays, ListStays DEF PanelOK, ViewOK, view, ListOK
<1>3. CASE Refuses(k, j, s)
  <2>1. op' = [op EXCEPT ![k].at = "refused"] /\ server' = server
    BY <1>3 DEF Serve, Goto
  <2>2. [op[k] EXCEPT !.at = "refused"] \in Calls
    BY <1>1 DEF Calls
  <2>3. Handled(k)' /\ op' = [op EXCEPT ![k] = [op[k] EXCEPT !.at = "refused"]]
    <3>1. op'[k].at = "refused" /\ op'[k].job = j
      BY <1>1, <2>1 DEF Calls
    <3> QED
      BY <1>1, <2>1, <3>1 DEF Handled, Real
  <2> DEFINE c == [op[k] EXCEPT !.at = "refused"]
  <2>4. c \in Calls /\ c.at \notin Owing /\ op' = [op EXCEPT ![k] = c]
    BY <1>1, <2>2, <2>3 DEF Calls, Owing
  <2>5. events' = events
    BY <1>2
  <2> HIDE DEF c
  <2> QED
    BY <2>1, <2>3, <2>4, <2>5, RequestsOf
<1>4. CASE ~Refuses(k, j, s)
  <2>1. PICK made \in {Made(k, j, s)} \cup
                      (IF k = "cancel" /\ s.n = j.n /\ s.stage = "active"
                       THEN {[s EXCEPT !.stage = "cancelled"]} ELSE {}) :
               /\ server' = [server EXCEPT ![j.work] = made]
               /\ op' = [op EXCEPT ![k].at = "reply", ![k].job = Named(k, j, made)]
    BY <1>4 DEF Serve
  <2>2. s.n \in Nat /\ s.n < MaxAttempts /\ events.done \in Nat /\ MaxAttempts \in Nat
    <3>1. k \in Owed
      BY <1>1 DEF Owed
    <3>2. Cardinality(Owed) \in Nat /\ Cardinality(Owed) # 0
      BY <3>1, OwedIsFinite, FS_EmptySet DEF Owed
    <3>3. s.n + Cardinality(Owed) <= events.done + 1 /\ events.done \in 0..MaxGestures
      BY <1>1 DEF BudgetOK
    <3> HIDE DEF Owed
    <3> QED
      BY <1>1, <3>2, <3>3, SessionAssumption DEF Snapshot, MaxAttempts
  <2>3. /\ made \in Snapshot /\ Staged(made) /\ s.n <= made.n /\ made.n <= s.n + 1
        /\ k \in {"retry", "cancel"} => j.n <= made.n
        /\ k = "retry" => j.n + 1 <= made.n
        /\ k \notin {"retry", "cancel"} => 0 < made.n
    <3>1. s.n = 0 <=> s.stage = "none"
      BY <1>1 DEF Staged
    <3>2. j.n \in Nat
      BY <1>1, <2>2 DEF JobId
    <3>3. CASE made = [s EXCEPT !.stage = "cancelled"] /\ k = "cancel" /\ s.stage = "active"
      BY <1>1, <2>2, <3>1, <3>2, <3>3 DEF Snapshot, JobStage, Staged
    <3>4. CASE made = Made(k, j, s)
      <4>1. CASE k \in {"import", "start"}
        BY <1>1, <2>2, <3>1, <3>4, <4>1 DEF Made, Snapshot, JobStage, Staged
      <4>2. CASE k = "retry"
        <5>1. CASE s.n = j.n
          <6>1. s.stage \in {"failed", "cancelled"}
            BY <1>1, <1>4, <2>2, <3>1, <4>2, <5>1 DEF Refuses, Snapshot, JobStage
          <6> QED
            BY <1>1, <2>2, <3>1, <3>4, <4>2, <5>1, <6>1 DEF Made, Snapshot, JobStage, Staged
        <5>2. CASE s.n # j.n
          <6>1. made = s
            BY <3>4, <4>2, <5>2 DEF Made
          <6> QED
            BY <1>1, <2>2, <3>2, <4>2, <5>2, <6>1
        <5> QED
          BY <5>1, <5>2
      <4>3. CASE k \in {"score", "studio"}
        BY <1>1, <2>2, <3>1, <3>4, <4>3 DEF Made, Snapshot, JobStage, Staged
      <4>4. CASE k = "cancel"
        BY <1>1, <2>2, <3>1, <3>4, <4>4 DEF Made
      <4> QED
        BY <1>1, <4>1, <4>2, <4>3, <4>4 DEF Kind
    <3> QED
      BY <2>1, <3>3, <3>4
  <2>4. ServerOK' /\ Grows /\ server'[j.work] = made
        /\ \A w \in Work : server'[w].n <= server[w].n + 1
    BY <1>1, <2>1, <2>2, <2>3 DEF ServerOK, Grows, Snapshot
  <2> DEFINE named == Named(k, j, made)
             c == [op[k] EXCEPT !.at = "reply", !.job = named]
  <2>5. named \in JobId /\ named.work = j.work /\ 0 < named.n /\ named.n <= made.n
    <3>1. j.n \in Nat /\ made.n \in 0..MaxAttempts
      BY <1>1, <2>2, <2>3 DEF JobId, Snapshot
    <3> QED
      BY <1>1, <2>2, <2>3, <3>1 DEF Named, JobId
  <2>6. c \in Calls /\ c.at = "reply" /\ c.job = named /\ op' = [op EXCEPT ![k] = c]
    <3> HIDE DEF named
    <3>1. c \in Calls
      BY <1>1, <2>5 DEF Calls
    <3>2. c.at = "reply" /\ c.job = named
      BY <1>1 DEF Calls
    <3>3. op' = [op EXCEPT ![k].at = "reply", ![k].job = named]
      BY <2>1 DEF named
    <3>4. op' = [op EXCEPT ![k] = c]
      BY <1>1, <3>3
    <3> QED
      BY <3>1, <3>2, <3>4
  <2>7. Handled(k)'
    <3>1. op'[k] = c
      BY <1>1, <2>6
    <3>2. op'[k].at = "reply" /\ op'[k].job = named
      BY <2>6, <3>1
    <3>3. Real(op[k].job)' /\ op'[k].job.work \in Work
      BY <1>1, <2>4, <2>5, <3>2 DEF Real
    <3> QED
      BY <1>1, <3>2, <3>3 DEF Handled
  <2>8. /\ OpOK' /\ Owed' \subseteq Owed \cup {k} /\ k \notin Owed'
        /\ Owed' \subseteq Owed
    <3>1. c.at \notin Owing /\ c \in Calls /\ op' = [op EXCEPT ![k] = c]
      BY <2>6 DEF Owing
    <3> HIDE DEF c
    <3> QED
      BY <2>4, <2>7, <3>1, CallsMove
  <2>9. BudgetOK'
    <3>1. k \in Owed /\ IsFiniteSet(Owed)
      BY <1>1, OwedIsFinite DEF Owed
    <3>2. IsFiniteSet(Owed \ {k}) /\ Cardinality(Owed \ {k}) = Cardinality(Owed) - 1
      BY <3>1, FS_RemoveElement
    <3>3. Cardinality(Owed') <= Cardinality(Owed \ {k})
      BY <2>8, <3>2, FS_Subset
    <3>4. Cardinality(Owed) \in Nat /\ Cardinality(Owed') \in Nat
      BY OwedIsFinite DEF Owed
    <3>5. \A w \in Work : server[w].n \in Nat /\ server'[w].n \in Nat
      BY <2>2, <2>4 DEF ServerOK, Snapshot
    <3>6. events.done \in Nat
      BY <2>2
    <3>7. \A w \in Work : server[w].n + Cardinality(Owed) <= events.done + 1
      BY DEF BudgetOK
    <3>8. events' = events /\ events \in [done : 0..MaxGestures, failed : 0..MaxFailures]
      BY <1>2 DEF BudgetOK
    <3> HIDE DEF Owed
    <3>9. \A w \in Work : server'[w].n + Cardinality(Owed') <= events'.done + 1
      BY <2>4, <3>2, <3>3, <3>4, <3>5, <3>6, <3>7, <3>8
    <3> QED
      BY <3>8, <3>9 DEF BudgetOK
  <2> QED
    BY <2>4, <2>8, <2>9
<1> QED
  BY <1>3, <1>4

\* The answers to the handlers' requests, and the end of a Job they wait for.
LEMMA RepliesKeep ==
  ASSUME Inv, \/ RetryReplies \/ CancelReplies
              \/ \E k \in Kind : StartReplies(k) \/ RebuildReplies(k) \/ Rebuilt(k)
  PROVE  Inv'
<1> USE DEF Inv
<1>0. \A k \in Kind : op[k] \in Calls /\ op[k].job \in JobId /\ Handled(k)
  BY DEF OpOK, Calls
<1>1. ASSUME NEW k \in Kind, NEW gone, NEW shown \in Panels,
             shown.job = NoJob \/ Real(shown.job), LoadWork(op[k].work, gone, shown), Done(k),
             UNCHANGED <<server, life, list, active, due, events>>,
             owned' \in [Work -> BOOLEAN]
      PROVE  Inv'
  <2>1. ServerOK' /\ Grows /\ OpOK' /\ BudgetOK'
    BY <1>1, DoneKeeps
  <2>2. LoadOK' /\ EntryOK' /\ PanelOK' /\ ViewOK'
    BY <1>1, LoadWorkKeeps
  <2> QED
    BY <1>1, <2>1, <2>2, ListStays
<1>2. panel \in Panels /\ (panel.job = NoJob \/ Real(panel.job)) /\ owned \in [Work -> BOOLEAN]
  BY DEF PanelOK, ListOK
<1>3. CASE RetryReplies
  <2>1. "retry" \in Kind /\ op["retry"].at = "reply"
    BY <1>3 DEF RetryReplies, Kind
  <2>2. Real(op["retry"].job) /\ op["retry"].job \in JobId
    BY <1>0, <2>1 DEF Handled
  <2> DEFINE shown == [panel EXCEPT !.job = op["retry"].job]
  <2>3. shown \in Panels /\ Real(shown.job)
    BY <1>2, <2>2 DEF Panels
  <2>4. /\ LoadWork(op["retry"].work, {}, shown) /\ Done("retry")
        /\ UNCHANGED <<server, life, list, active, due, owned, events>>
    BY <1>3 DEF RetryReplies
  <2> HIDE DEF shown
  <2> QED
    BY <1>1, <1>2, <2>1, <2>3, <2>4
<1>4. CASE CancelReplies
  <2>1. /\ "cancel" \in Kind /\ owned' \in [Work -> BOOLEAN]
        /\ LoadWork(op["cancel"].work, Work, panel) /\ Done("cancel")
        /\ UNCHANGED <<server, life, list, active, due, events>>
    BY <1>4 DEF CancelReplies, Kind
  <2> QED
    BY <1>1, <1>2, <2>1
<1>5. ASSUME NEW k \in Kind, StartReplies(k)
      PROVE  Inv'
  <2>1. Real(op[k].job) /\ op[k].job \in JobId
    BY <1>0, <1>5 DEF StartReplies, Handled
  <2> DEFINE shown == [panel EXCEPT !.job = op[k].job, !.pending = None]
  <2>2. shown \in Panels /\ Real(shown.job)
    BY <1>2, <2>1 DEF Panels
  <2>3. /\ LoadWork(op[k].work, Owners(op[k].job.work), shown) /\ Done(k)
        /\ UNCHANGED <<server, life, list, active, due, owned, events>>
    BY <1>5 DEF StartReplies
  <2> HIDE DEF shown
  <2> QED
    BY <1>1, <1>2, <2>2, <2>3
<1>6. ASSUME NEW k \in Kind, Rebuilt(k)
      PROVE  Inv'
  <2>1. /\ LoadWork(op[k].work, {}, panel) /\ Done(k)
        /\ UNCHANGED <<server, life, list, active, due, owned, events>>
    BY <1>6 DEF Rebuilt
  <2> QED
    BY <1>1, <1>2, <2>1
<1>7. ASSUME NEW k \in Kind, RebuildReplies(k)
      PROVE  Inv'
  <2>1. /\ k \in {"score", "studio"} /\ op[k].at = "reply" /\ Invalidate(Owners(op[k].work))
        /\ UNCHANGED <<server, life, list, view, owned, events>>
    BY <1>7 DEF RebuildReplies
  <2>2. Real(op[k].job) /\ op[k].job \in JobId /\ op[k].job.work \in Work
    BY <1>0, <2>1 DEF Handled
  <2>3. CASE active = op[k].work
    <3>1. op' = [op EXCEPT ![k].at = "wait"] /\ panel' \in {panel, [panel EXCEPT !.job = op[k].job]}
      BY <1>7, <2>3 DEF RebuildReplies, Goto
    <3>2. Listed(op)[k] = op[k] /\ [op[k] EXCEPT !.at = "wait"] \in Calls
      BY <1>0, <2>1 DEF Listed, Calls
    <3>3. ServerOK' /\ Grows /\ OpOK' /\ BudgetOK'
      <4>1. k # "import" /\ events' = events /\ server' = server
        BY <2>1
      <4> QED
        BY <2>1, <2>2, <3>1, <3>2, <4>1, GotoMoves DEF Owing
    <3>4. PanelOK'
      <4>1. CASE panel' = panel
        BY <2>1, <4>1 DEF PanelOK, Real
      <4>2. CASE panel' = [panel EXCEPT !.job = op[k].job]
        <5>1. panel' \in Panels /\ panel'.job = op[k].job
          BY <1>2, <2>2, <4>2 DEF Panels
        <5>2. Real(panel.job)'
          BY <2>1, <2>2, <5>1 DEF Real
        <5> QED
          BY <5>1, <5>2 DEF PanelOK
      <4> QED
        BY <3>1, <4>1, <4>2
    <3> QED
      BY <2>1, <3>3, <3>4, InvalidateKeeps, ListStays DEF ViewOK, view, ListOK
  <2>4. CASE active # op[k].work
    <3>1. Done(k) /\ panel' = panel
      BY <1>7, <2>4 DEF RebuildReplies
    <3>2. ServerOK' /\ Grows /\ OpOK' /\ BudgetOK'
      BY <2>1, <3>1, DoneKeeps
    <3> QED
      BY <2>1, <3>1, <3>2, InvalidateKeeps, PanelStays, ListStays
      DEF PanelOK, ViewOK, view, ListOK
  <2> QED
    BY <2>3, <2>4
<1> QED
  BY <1>3, <1>4, <1>5, <1>6, <1>7

\* The catch of each handler.
LEMMA CatchesKeep ==
  ASSUME Inv, NEW k \in Kind, HandlerFails(k) \/ \E lost \in BOOLEAN : RebuildFails(k, lost)
  PROVE  Inv'
<1> USE DEF Inv
<1>1. /\ Done(k) /\ UNCHANGED <<server, life, list, view, load, entry, owned>>
      /\ events' = events \/ Event
  BY DEF HandlerFails, RebuildFails, FailOr
<1>2. ServerOK' /\ Grows /\ OpOK' /\ BudgetOK'
  BY <1>1, DoneKeeps
<1>3. panel \in Panels /\ op[k].work \in Work \cup {None}
  BY DEF PanelOK, OpOK, Calls
<1>4. panel' \in Panels /\ panel'.job \in {panel.job, NoJob}
  <2>1. CASE HandlerFails(k)
    BY <1>3, <2>1, NothingIsTyped DEF HandlerFails, Panels
  <2>2. ASSUME NEW lost \in BOOLEAN, RebuildFails(k, lost)
        PROVE  panel' \in Panels /\ panel'.job \in {panel.job, NoJob}
    BY <1>3, <2>2, NothingIsTyped DEF RebuildFails, Panels
  <2> QED
    BY <2>1, <2>2
<1> QED
  BY <1>1, <1>2, <1>4, EntryStays, LoadStays, PanelStays, ListStays DEF ViewOK, view, ListOK

----------------------------------------------------------------------------
(* The theorems. *)

LEMMA InitIsFine ==
  ASSUME Init
  PROVE  Inv
<1> USE SessionAssumption DEF Init
<1>1. ServerOK /\ \A w \in Work : server[w].n <= 1 /\ server[w].n \in Nat
  <2>1. server \in [Work -> {x \in Snapshot : x.n < 2 /\ x.stage # "cancelled"
                                               /\ (x.n = 0 <=> x.stage = "none")}]
    OBVIOUS
  <2>2. \A w \in Work : server[w] \in Snapshot /\ server[w].n < 2 /\ Staged(server[w])
    BY <2>1 DEF Staged
  <2> QED
    BY <2>1, <2>2 DEF ServerOK, Snapshot
<1>2. EntryOK
  BY <1>1, NothingIsTyped, UnreadIsHonest DEF EntryOK, Absent
<1>3. LoadOK
  BY NothingIsTyped DEF LoadOK, NoLoad
<1>4. PanelOK
  BY NothingIsTyped DEF PanelOK, Panels
<1>5. OpOK /\ Owed = {}
  BY NothingIsTyped DEF OpOK, Handled, NoOp, Owed
<1>6. ViewOK /\ ListOK
  BY DEF ViewOK, ListOK, Still
<1>7. BudgetOK
  <2>1. Cardinality(Owed) = 0
    BY <1>5, FS_EmptySet
  <2> HIDE DEF Owed
  <2> QED
    BY <1>1, <2>1 DEF BudgetOK
<1> QED
  BY <1>1, <1>2, <1>3, <1>4, <1>5, <1>6, <1>7 DEF Inv

LEMMA NextKeeps ==
  ASSUME Inv, [Next]_vars
  PROVE  Inv'
<1>1. CASE UNCHANGED vars
  <2>1. UNCHANGED <<server, life, rows, previous, listing, active, due, loaded, load, timer,
                    entry, owned, content, sound, panel, op, events>>
    BY <1>1 DEF vars
  <2>2. ServerOK' /\ Grows /\ OpOK' /\ ListOK' /\ BudgetOK'
    BY <2>1, AtRest DEF Inv, ListOK, list
  <2> QED
    BY <2>1, <2>2, EntryStays, LoadStays, PanelStays DEF Inv, PanelOK, ViewOK
<1>2. CASE Step
  <2>1. CASE Effect \/ Settle \/ Refresh \/ ServerReadsOld \/ AnswerOld \/ AnswerCached
             \/ (load.work \notin Saved /\ AnswerOldFails)
    BY <2>1, LoadsKeep
  <2>2. CASE ReadList \/ ListAnswers
    BY <2>2, ListsKeep
  <2>3. CASE LeaveUnlisted
    BY <2>3, ViewsKeep
  <2>4. CASE ServeDelete \/ DeleteReplies \/ Restore
    BY <2>4, DeletionKeeps
  <2>5. CASE Uploaded \/ Enter
    BY <2>5, ImportKeeps
  <2>6. CASE RetryReplies \/ CancelReplies
    BY <2>6, RepliesKeep
  <2>7. ASSUME NEW w \in Work, ServerReads(w) \/ Answer(w) \/ AnswerFails(w)
        PROVE  Inv'
    BY <2>7, RequestsKeep
  <2>8. ASSUME NEW w \in Work, JobEnds(w)
        PROVE  Inv'
    BY <2>8, JobEndsKeeps
  <2>9. ASSUME NEW k \in Kind, Handler(k)
        PROVE  Inv'
    <3>1. CASE Serve(k)
      BY <3>1, ServeKeeps
    <3>2. CASE StartReplies(k) \/ RebuildReplies(k) \/ Rebuilt(k)
      BY <3>2, RepliesKeep
    <3>3. CASE RebuildFails(k, FALSE)
      BY <3>3, CatchesKeep
    <3> QED
      BY <2>9, <3>1, <3>2, <3>3 DEF Handler
  <2>10. ASSUME NEW k \in Kind, HandlerFails(k) \/ RebuildFails(k, TRUE)
         PROVE  Inv'
    BY <2>10, CatchesKeep
  <2> QED
    BY <1>2, <2>1, <2>2, <2>3, <2>4, <2>5, <2>6, <2>7, <2>8, <2>9, <2>10 DEF Step
<1>3. CASE User
  <2>1. CASE Reselect \/ PanelRefresh \/ \E w \in Work : Open(w) \/ Prefetch(w)
    BY <2>1, ViewsKeep
  <2>2. CASE \/ StartPending \/ RetryJob \/ CancelJob
             \/ \E w \in Work : Import(w) \/ Delete(w)
             \/ \E k \in {"score", "studio"} : Rebuild(k)
    BY <2>2, GesturesKeep
  <2> QED
    BY <1>3, <2>1, <2>2 DEF User
<1>4. CASE Fault
  <2>1. CASE AnswerOldFails
    BY <2>1, LoadsKeep
  <2>2. CASE UploadFails
    BY <2>2, ImportKeeps
  <2>3. CASE ListFails
    BY <2>3, ListsKeep
  <2>4. CASE DeleteFails
    BY <2>4, DeletionKeeps
  <2>5. ASSUME NEW w \in Work, AnswerFails(w)
        PROVE  Inv'
    BY <2>5, RequestsKeep
  <2>6. ASSUME NEW k \in Kind, HandlerFails(k) \/ RebuildFails(k, TRUE)
        PROVE  Inv'
    BY <2>6, CatchesKeep
  <2> QED
    BY <1>4, <2>1, <2>2, <2>3, <2>4, <2>5, <2>6 DEF Fault
<1> QED
  BY <1>1, <1>2, <1>3, <1>4 DEF Next

\* The Jobs, requests and Works of the browser agree with the server at every
\* step: no number is made up, and none is owed to nobody.
THEOREM SessionIsFine == Spec => []Inv
<1>1. Init => Inv
  BY InitIsFine
<1>2. Inv /\ [Next]_vars => Inv'
  BY NextKeeps
<1> QED
  BY <1>1, <1>2, PTL DEF Spec

\* Every variable of the workspace keeps its type: above all, no gesture, retry
\* or rebuild numbers a Job beyond those the user asked for.
THEOREM SessionTypesCorrect == Spec => []TypeOK
<1>1. Inv => TypeOK
  BY Typed
<1> QED
  BY <1>1, SessionIsFine, PTL

\* The screen and the player show the open Work or nothing (isCurrentLoad),
\* whatever answers come late and wherever the user goes meanwhile.
THEOREM ShownIsOfTheOpenWork == Spec => []ContentIsOfActiveWork
<1>1. Inv => ContentIsOfActiveWork
  BY DEF Inv, ViewOK, ContentIsOfActiveWork
<1> QED
  BY <1>1, SessionIsFine, PTL

\* No handler, and no notice on the screen, names a Job the server has not made:
\* the number of a retry, which the browser takes from the answer, included.
NamesAreReal ==
  /\ panel.job = NoJob \/ Real(panel.job)
  /\ \A k \in Kind \ {"delete"} : op[k].at \in {"reply", "wait"} => Real(op[k].job)
THEOREM NoJobIsMadeUp == Spec => []NamesAreReal
<1>1. Inv => NamesAreReal
  BY DEF Inv, PanelOK, OpOK, Handled, NamesAreReal
<1> QED
  BY <1>1, SessionIsFine, PTL

----------------------------------------------------------------------------
(* A load of the open Work never waits for a request that nobody sent. It   *)
(* is disturbed where keys are advanced, where an answer is taken, and      *)
(* where the user comes back to a Work whose load went unanswered; there,   *)
(* the effect that is due loads it again.                                   *)

\* The open Work stays, or the effect is about to load another one.
Turns == due' \/ (active' = active /\ due' = due)

LEMMA ActivateTurns ==
  ASSUME Inv, NEW w, Activate(w)
  PROVE  Turns
<1>1. CASE active = w
  BY <1>1 DEF Activate, Turns, Inv, ViewOK
<1>2. CASE active # w
  BY <1>2 DEF Activate, Turns
<1> QED
  BY <1>1, <1>2

LEMMA ServedInPlace ==
  ASSUME LoadsAreServed, Turns, load' = load,
         entry[load.work].at # "absent" => entry'[load.work].at # "absent"
  PROVE  LoadsAreServed'
BY DEF LoadsAreServed, Turns, Current, Shares

LEMMA ServedWhenCleared ==
  ASSUME Inv, LoadsAreServed, Turns, NEW gone, load' = Detached(gone),
         entry' = Cleared(gone) \/ Work \subseteq gone
  PROVE  LoadsAreServed'
<1> SUFFICES ASSUME Current', ~due', Shares(load.work)'
             PROVE  entry'[load'.work].at # "absent"
  BY DEF LoadsAreServed
<1>1. load \in Loads /\ load' \in Loads /\ load'.work = load.work /\ load'.at = load.at
  BY DEF Inv, LoadOK, EntryOK, Detached, Shares, Loads
<1>2. load.at # "none" /\ load.at = "bundle" /\ load'.own.at = "absent" /\ Current /\ ~due
  BY <1>1 DEF Current, Shares, Turns
<1>3. load.work \in Work
  BY <1>2 DEF Inv, LoadOK
<1>4. CASE \E w \in gone : Shares(w)
  <2>1. Shares(load.work) /\ load' = [load EXCEPT !.own = entry[load.work]]
    BY <1>4 DEF Detached, Shares
  <2>2. load'.own = entry[load.work]
    BY <1>1, <2>1 DEF Loads
  <2> QED
    BY <1>2, <2>1, <2>2 DEF LoadsAreServed
<1>5. CASE ~\E w \in gone : Shares(w)
  <2>1. load' = load /\ Shares(load.work)
    BY <1>2, <1>5 DEF Detached, Shares
  <2>2. load.work \notin gone
    BY <1>5, <2>1
  <2>3. entry'[load.work] = entry[load.work]
    BY <1>3, <2>2 DEF Cleared
  <2> QED
    BY <1>2, <2>1, <2>3 DEF LoadsAreServed
<1> QED
  BY <1>4, <1>5

LEMMA ServedWhenLoaded ==
  ASSUME Inv, LoadsAreServed, NEW w, NEW gone, NEW shown, LoadWork(w, gone, shown),
         active' = active, due' = due \/ (w = active /\ due' = FALSE)
  PROVE  LoadsAreServed'
<1>1. CASE active = w /\ w # None
  <2>1. /\ entry' = Request(Cleared(gone), w) /\ w \in Work
        /\ load' = [NoLoad EXCEPT !.work = w, !.keep = (loaded = w), !.at = "bundle"]
    BY <1>1 DEF LoadWork, Inv, ViewOK
  <2>2. load'.work = w /\ Cleared(gone) \in [Work -> Fetch]
    BY <2>1, ClearedKeeps DEF NoLoad, Inv
  <2>3. entry'[w].at # "absent"
    BY <2>1, <2>2 DEF Request, Asked
  <2> QED
    BY <2>2, <2>3 DEF LoadsAreServed
<1>2. CASE active # w \/ w = None
  <2>1. Invalidate(gone)
    BY <1>2 DEF LoadWork
  <2>2. CASE due' = due
    BY <2>1, <2>2, ServedWhenCleared DEF Invalidate, Turns
  <2>3. CASE active = None
    <3>1. load'.at = load.at /\ load'.work = load.work
      BY <2>1 DEF Invalidate, Detached, Inv, LoadOK, Loads
    <3> QED
      BY <2>3, <3>1, SessionAssumption DEF LoadsAreServed, Current, Inv, LoadOK
  <2> QED
    BY <1>2, <2>2, <2>3
<1> QED
  BY <1>1, <1>2

\* The steps of a load itself.
LEMMA LoadsStayServed ==
  ASSUME Inv, LoadsAreServed,
         \/ Effect \/ Settle \/ Refresh \/ ServerReadsOld \/ AnswerOld \/ AnswerCached
         \/ AnswerOldFails
         \/ \E w \in Work : ServerReads(w) \/ Answer(w) \/ AnswerFails(w)
  PROVE  LoadsAreServed'
<1>0. load \in Loads /\ entry \in [Work -> Fetch]
  BY DEF Inv, LoadOK, EntryOK
<1>1. load' = NoLoad => LoadsAreServed'
  BY DEF LoadsAreServed, Current, NoLoad
<1>2. ASSUME NEW seen, ShowBundle(seen)
      PROVE  LoadsAreServed'
  <2>1. load'.at = "children"
    BY <1>0, <1>2 DEF ShowBundle, Loads
  <2> QED
    BY <2>1 DEF LoadsAreServed, Shares
<1>3. CASE Effect
  BY <1>3, ServedWhenLoaded DEF Effect
<1>4. CASE Settle \/ AnswerOldFails
  BY <1>1, <1>4 DEF Settle, AnswerOldFails, Catch
<1>5. CASE Refresh
  <2>1. CASE active = timer /\ loaded = timer
    BY <1>5, <2>1, ServedWhenLoaded DEF Refresh
  <2>2. CASE ~(active = timer /\ loaded = timer)
    BY <1>5, <2>2, ServedInPlace DEF Refresh, Turns
  <2> QED
    BY <2>1, <2>2
<1>6. CASE ServerReadsOld
  <2>1. load'.own.at = "read"
    BY <1>0, <1>6 DEF ServerReadsOld, Loads
  <2> QED
    BY <2>1 DEF LoadsAreServed, Shares
<1>7. CASE AnswerOld \/ AnswerCached
  BY <1>2, <1>7 DEF AnswerOld, AnswerCached
<1>8. ASSUME NEW w \in Work, ServerReads(w)
      PROVE  LoadsAreServed'
  <2>1. entry[load.work].at # "absent" => entry'[load.work].at # "absent"
    BY <1>0, <1>8 DEF ServerReads
  <2> QED
    BY <1>8, <2>1, ServedInPlace DEF ServerReads, view, Turns
<1>9. ASSUME NEW w \in Work, Answer(w) \/ AnswerFails(w)
      PROVE  LoadsAreServed'
  <2>1. CASE load' = load /\ ~(Shares(w) /\ Current)
    <3>1. UNCHANGED <<active, due>> /\ \A v \in Work \ {w} : entry'[v] = entry[v]
      BY <1>0, <1>9 DEF Answer, AnswerFails, view
    <3>2. ASSUME Current, Shares(load.work)
          PROVE  load.work \in Work \ {w}
      BY <2>1, <3>2 DEF Current, Shares, Inv, LoadOK
    <3> QED
      BY <2>1, <3>1, <3>2 DEF LoadsAreServed, Current, Shares
  <2> QED
    BY <1>1, <1>2, <1>9, <2>1 DEF Answer, AnswerFails, Catch
<1> QED
  BY <1>3, <1>4, <1>5, <1>6, <1>7, <1>8, <1>9

\* The user's moves and the handlers' steps.
LEMMA MovesKeepServed ==
  ASSUME Inv, LoadsAreServed, Turns,
         \/ UNCHANGED <<load, entry>>
         \/ \E gone : Invalidate(gone)
         \/ \E w \in Work : load' = load /\ entry' = Request(entry, w)
  PROVE  LoadsAreServed'
<1>1. CASE UNCHANGED <<load, entry>>
  BY <1>1, ServedInPlace
<1>2. ASSUME NEW gone, Invalidate(gone)
      PROVE  LoadsAreServed'
  BY <1>2, ServedWhenCleared DEF Invalidate
<1>3. ASSUME NEW w \in Work, load' = load, entry' = Request(entry, w)
      PROVE  LoadsAreServed'
  <2>1. entry[load.work].at # "absent" => entry'[load.work].at # "absent"
    BY <1>3 DEF Request, Inv, EntryOK
  <2> QED
    BY <1>3, <2>1, ServedInPlace
<1> QED
  BY <1>1, <1>2, <1>3

LEMMA NextKeepsServed ==
  ASSUME Inv, LoadsAreServed, [Next]_vars
  PROVE  LoadsAreServed'
<1> USE DEF view
<1>1. CASE UNCHANGED vars
  BY <1>1, MovesKeepServed DEF vars, Turns
<1>2. CASE \/ Effect \/ Settle \/ Refresh \/ ServerReadsOld \/ AnswerOld \/ AnswerCached
           \/ AnswerOldFails
           \/ \E w \in Work : ServerReads(w) \/ Answer(w) \/ AnswerFails(w)
  BY <1>2, LoadsStayServed
<1>3. CASE \/ ReadList \/ ListAnswers \/ ListFails \/ ServeDelete \/ DeleteFails \/ UploadFails
           \/ CancelJob \/ \E w \in Work : JobEnds(w) \/ Import(w)
           \/ \E k \in Kind : Serve(k) \/ HandlerFails(k)
                              \/ \E lost \in BOOLEAN : RebuildFails(k, lost)
  <2>1. UNCHANGED <<load, entry, active, due>>
    BY <1>3 DEF ReadList, ListAnswers, ListFails, ServeDelete, DeleteFails, UploadFails,
                CancelJob, JobEnds, Import, Serve, HandlerFails, RebuildFails
  <2> QED
    BY <2>1, MovesKeepServed DEF Turns
<1>4. CASE LeaveUnlisted \/ Restore \/ Reselect \/ \E w \in Work : Open(w) \/ Delete(w)
  <2>1. UNCHANGED <<load, entry>> /\ (Reselect \/ UNCHANGED <<active, due>> \/ \E w : Activate(w))
    BY <1>4 DEF LeaveUnlisted, Restore, Reselect, Open, Delete
  <2>2. Turns
    BY <2>1, ActivateTurns DEF Turns, Reselect
  <2> QED
    BY <2>1, <2>2, MovesKeepServed
<1>5. CASE \/ DeleteReplies \/ Uploaded \/ Enter \/ StartPending \/ RetryJob
           \/ \E k \in Kind : RebuildReplies(k) \/ Rebuild(k)
  <2>1. (\E gone : Invalidate(gone)) /\ (UNCHANGED <<active, due>> \/ \E w : Activate(w))
    BY <1>5 DEF DeleteReplies, Uploaded, Enter, StartPending, RetryJob, RebuildReplies, Rebuild,
                ClearCache
  <2>2. Turns
    BY <2>1, ActivateTurns DEF Turns
  <2> QED
    BY <2>1, <2>2, MovesKeepServed
<1>6. ASSUME NEW w \in Work, Prefetch(w)
      PROVE  LoadsAreServed'
  BY <1>6, MovesKeepServed DEF Prefetch, Turns
<1>7. CASE PanelRefresh
  BY <1>7, ServedWhenCleared DEF PanelRefresh, Turns
<1>8. CASE \/ RetryReplies \/ CancelReplies \/ \E k \in Kind : StartReplies(k) \/ Rebuilt(k)
  <2>1. UNCHANGED <<active, due>> /\ \E w, gone, shown : LoadWork(w, gone, shown)
    BY <1>8 DEF RetryReplies, CancelReplies, StartReplies, Rebuilt
  <2> QED
    BY <2>1, ServedWhenLoaded
<1> QED
  BY <1>1, <1>2, <1>3, <1>4, <1>5, <1>6, <1>7, <1>8
  DEF Next, Step, User, Fault, Handler, Kind

\* A load of the open Work is always waiting for a request that was sent:
\* clearing the cache hands it the request it shared (invalidateQueries after
\* fetchQuery), and an answer it does not take was for a Work that was left.
THEOREM LoadsWaitForRequests == Spec => []LoadsAreServed
<1>1. Init => LoadsAreServed
  BY DEF Init, LoadsAreServed
<1>2. Inv /\ LoadsAreServed /\ [Next]_vars => LoadsAreServed'
  BY NextKeepsServed
<1> QED
  BY <1>1, <1>2, SessionIsFine, PTL DEF Spec

----------------------------------------------------------------------------
(* A deleted Work leaves the list: a reading of the list that still has it  *)
(* was begun before the deletion was served, and the answer to the deletion *)
(* has the list read again.                                                 *)

ReadBefore ==
  \A w \in listing.seen : listing.at = "read" /\ life[w] = "gone" => op["delete"].at = "reply"

\* No other handler's step touches the deletion.
DeletionStays == op["delete"].at \in {"post", "reply"} => op'["delete"].at = op["delete"].at

LEMMA DeletionAlone ==
  ASSUME Inv,
         \/ op' = op
         \/ op' = Listed(op)
         \/ \E k \in Kind \ {"delete"} : \E c : op' = [op EXCEPT ![k] = c]
         \/ \E c : op' = [Listed(op) EXCEPT !["import"] = c]
         \/ op["delete"].at \notin {"post", "reply"}
  PROVE  DeletionStays
<1>1. "delete" \in Kind /\ "delete" # "import"
  BY DEF Kind
<1>2. op["delete"].at \in {"post", "reply"} => Listed(op)["delete"] = op["delete"]
  BY <1>1 DEF Listed
<1>3. op \in [Kind -> Calls] /\ Listed(op) \in [Kind -> Calls]
  BY <1>1, ListedKeeps DEF Inv, OpOK
<1> QED
  BY <1>1, <1>2, <1>3 DEF DeletionStays

LEMMA GhostsInPlace ==
  ASSUME DeletedWorksLeave, ReadBefore, UNCHANGED <<life, rows, listing>>, DeletionStays
  PROVE  DeletedWorksLeave' /\ ReadBefore'
BY DEF DeletedWorksLeave, ReadBefore, DeletionStays

LEMMA NextKeepsGhosts ==
  ASSUME Inv, DeletedWorksLeave, ReadBefore, [Next]_vars
  PROVE  DeletedWorksLeave' /\ ReadBefore'
<1> USE DEF list
<1>0. op \in [Kind -> Calls] /\ "delete" \in Kind /\ "import" \in Kind
  BY DEF Inv, OpOK, Kind
<1>1. CASE UNCHANGED <<life, list, op>>
  BY <1>1, DeletionAlone, GhostsInPlace
<1>2. ASSUME NEW k \in Kind, UNCHANGED <<life, list>>,
             \/ k # "delete" \/ op[k].at \notin {"post", "reply"},
             Done(k) \/ (\E state : Goto(k, state)) \/ (\E state, job, w : Begin(k, state, job, w))
      PROVE  DeletedWorksLeave' /\ ReadBefore'
  <2>1. \E c : op' = [op EXCEPT ![k] = c]
    BY <1>0, <1>2 DEF Done, Goto, Begin
  <2> QED
    BY <1>2, <2>1, DeletionAlone, GhostsInPlace
<1>3. \/ UNCHANGED vars \/ Effect \/ Settle \/ Refresh \/ ServerReadsOld \/ AnswerOld
      \/ AnswerCached \/ AnswerOldFails \/ LeaveUnlisted \/ Reselect \/ PanelRefresh
      \/ (\E w \in Work : ServerReads(w) \/ Answer(w) \/ AnswerFails(w) \/ JobEnds(w) \/ Open(w)
                         \/ Prefetch(w))
      => UNCHANGED <<life, list, op>>
  BY DEF vars, Effect, Settle, Refresh, ServerReadsOld, AnswerOld, AnswerCached, AnswerOldFails,
         LeaveUnlisted, Reselect, PanelRefresh, ServerReads, Answer, AnswerFails, JobEnds, Open,
         Prefetch
<1>4. CASE ReadList
  BY <1>4 DEF ReadList, Saved, DeletedWorksLeave, ReadBefore
<1>5. CASE ListAnswers
  <2>1. rows' = listing.seen /\ listing' = Still /\ life' = life /\ listing.at = "read"
    BY <1>5 DEF ListAnswers
  <2>2. DeletionStays
    BY <1>5, DeletionAlone DEF ListAnswers
  <2> QED
    BY <2>1, <2>2 DEF Still, DeletedWorksLeave, ReadBefore, DeletionStays
<1>6. CASE ListFails \/ Uploaded \/ DeleteReplies \/ DeleteFails
  <2>1. listing'.at \in {"asked", "failed"}
    BY <1>6 DEF ListFails, Uploaded, DeleteReplies, DeleteFails, Still
  <2> QED
    BY <2>1 DEF DeletedWorksLeave, ReadBefore
<1>7. ASSUME NEW w \in Work, Delete(w)
      PROVE  DeletedWorksLeave' /\ ReadBefore'
  <2>1. Listed(op) \in [Kind -> Calls]
    BY <1>0, ListedKeeps DEF Inv
  <2>2. op'["delete"].at = "post" /\ listing' = Still
    BY <1>0, <1>7, <2>1 DEF Delete
  <2> QED
    BY <2>2 DEF Still, DeletedWorksLeave, ReadBefore
<1>8. CASE ServeDelete
  <2>1. op'["delete"].at = "reply"
    BY <1>0, <1>8 DEF ServeDelete, Goto, Calls
  <2> QED
    BY <2>1 DEF DeletedWorksLeave, ReadBefore
<1>9. CASE Restore
  BY <1>0, <1>2, <1>9 DEF Restore
<1>10. CASE UploadFails \/ Enter \/ \E w \in Work : Import(w)
  BY <1>0, <1>2, <1>10 DEF UploadFails, Enter, Import
<1>11. CASE StartPending \/ RetryJob \/ CancelJob \/ \E k \in {"score", "studio"} : Rebuild(k)
  <2>1. {"start", "retry", "cancel", "score", "studio"} \subseteq Kind \ {"delete"}
    BY DEF Kind
  <2> QED
    BY <1>2, <1>11, <2>1 DEF StartPending, RetryJob, CancelJob, Rebuild
<1>12. CASE RetryReplies \/ CancelReplies
  <2>1. {"retry", "cancel"} \subseteq Kind \ {"delete"}
    BY DEF Kind
  <2> QED
    BY <1>2, <1>12, <2>1 DEF RetryReplies, CancelReplies
<1>13. ASSUME NEW k \in Kind, Serve(k)
       PROVE  DeletedWorksLeave' /\ ReadBefore'
  <2>1. UNCHANGED <<life, list>> /\ k # "delete"
    BY <1>13 DEF Serve
  <2>2. \E c : op' = [op EXCEPT ![k] = c]
    <3>1. CASE Goto(k, "refused")
      BY <3>1 DEF Goto
    <3>2. ASSUME NEW j, op' = [op EXCEPT ![k].at = "reply", ![k].job = j]
          PROVE  \E c : op' = [op EXCEPT ![k] = c]
      <4>1. op' = [op EXCEPT ![k] = [op[k] EXCEPT !.at = "reply", !.job = j]]
        BY <1>0, <3>2
      <4> QED
        BY <4>1
    <3> QED
      BY <1>13, <3>1, <3>2 DEF Serve
  <2> QED
    BY <2>1, <2>2, DeletionAlone, GhostsInPlace
<1>14. ASSUME NEW k \in Kind, \/ StartReplies(k) \/ RebuildReplies(k) \/ Rebuilt(k)
                              \/ HandlerFails(k) \/ \E lost \in BOOLEAN : RebuildFails(k, lost)
       PROVE  DeletedWorksLeave' /\ ReadBefore'
  <2>1. /\ UNCHANGED <<life, list>> /\ (Done(k) \/ Goto(k, "wait"))
        /\ k # "delete" \/ op[k].at \notin {"post", "reply"}
    BY <1>14 DEF StartReplies, RebuildReplies, Rebuilt, HandlerFails, RebuildFails
  <2> QED
    BY <1>2, <2>1
<1> QED
  BY <1>1, <1>3, <1>4, <1>5, <1>6, <1>7, <1>8, <1>9, <1>10, <1>11, <1>12, <1>13, <1>14
  DEF Next, Step, User, Fault, Handler

\* A deleted Work does not come back to the list for good, although readings of
\* the list begun before the deletion may be answered after it.
THEOREM DeletedWorksAreUnlisted == Spec => []DeletedWorksLeave
<1>1. Init => DeletedWorksLeave /\ ReadBefore
  <2> SUFFICES ASSUME Init
               PROVE  DeletedWorksLeave /\ ReadBefore
    OBVIOUS
  <2>1. listing.at = "idle"
    BY DEF Init, Still
  <2>2. \A w \in rows : life[w] = "saved"
    <3>1. /\ rows = Library /\ Library \subseteq Work
          /\ life = [w \in Work |-> IF w \in Library THEN "saved" ELSE "unborn"]
      BY SessionAssumption DEF Init
    <3> QED
      BY <3>1
  <2> QED
    BY <2>1, <2>2 DEF DeletedWorksLeave, ReadBefore
<1>2. Inv /\ DeletedWorksLeave /\ ReadBefore /\ [Next]_vars => DeletedWorksLeave' /\ ReadBefore'
  BY NextKeepsGhosts
<1> QED
  BY <1>1, <1>2, SessionIsFine, PTL DEF Spec

----------------------------------------------------------------------------
(* While the workspace says that the open Work is being processed, somebody *)
(* is going to look at it again. A handler looks at the Work its gesture    *)
(* was about, the processed one if there is one: hence Strays, which says   *)
(* when that may be another Work than the open one.                         *)

\* Which handlers are ever in which place.
Places ==
  \A k \in Kind :
    /\ op[k].at \in {"upload", "saved", "listed"} => k = "import"
    /\ op[k].at \in {"settling", "failing"} => k = "delete"
    /\ op[k].at = "wait" => k \in {"score", "studio"}

\* Only a load that still waits for its bundle keeps an old request.
Bundled == load.own.at # "absent" => load.at = "bundle"

Hands      == {"import", "start", "retry", "score"}
Loading    == load.at # "none" /\ load.work = active
Importing  == op["import"].at \in {"saved", "listed"}
Looks(k) == op[k].at # "idle" /\ op[k].work = active

\* The processed Work is the open one, but for the effect that is due, an import
\* about to open its Work, or a load that will say so anew.
Strays ==
  active # None /\ panel.processing \notin {None, active} =>
    \/ due
    \/ Importing /\ panel.processing = op["import"].work
    \/ Loading /\ IF load.at = "bundle" THEN load.keep ELSE load.seen.stage # "active"

Looking == Strays /\ RunningIsLookedAfter

\* What a step leaves of the load of the open Work, of the import and of the
\* handlers that look at the open Work.
LoadGoesOn ==
  Loading => /\ load'.at = load.at /\ load'.work = load.work
             /\ load'.keep = load.keep /\ load'.seen = load.seen
ImportGoesOn == Importing => Importing' /\ op'["import"].work = op["import"].work
HandsGoOn == \A k \in Hands : Looks(k) => op'[k].at # "idle" /\ op'[k].work = op[k].work

LEMMA LookedInPlace ==
  ASSUME Looking, UNCHANGED <<active, due, loaded, timer>>, LoadGoesOn, ImportGoesOn,
         panel'.processing \in {panel.processing, None, active},
         \/ panel'.stage # "processing"
         \/ panel'.stage = panel.stage /\ HandsGoOn
         \/ active = None \/ due \/ Importing \/ Loading
         \/ \E k \in Hands : op'[k].at # "idle" /\ op'[k].work = active
  PROVE  Looking'
<1>1. Strays'
  BY DEF Looking, Strays, LoadGoesOn, ImportGoesOn, Loading
<1>2. RunningIsLookedAfter'
  <2> SUFFICES ASSUME active # None, panel'.stage = "processing", ~due, ~Importing, ~Loading,
                      ~(timer = active /\ loaded = active)
               PROVE  \E k \in Hands : op'[k].at # "idle" /\ op'[k].work = active
    BY DEF RunningIsLookedAfter, Following, LoadGoesOn, ImportGoesOn, Loading, Importing, Hands
  <2>1. CASE panel'.stage = panel.stage /\ HandsGoOn
    <3>1. \E k \in Hands : Looks(k)
      BY <2>1 DEF Looking, RunningIsLookedAfter, Following, Loading, Importing, Hands, Looks
    <3> QED
      BY <2>1, <3>1 DEF HandsGoOn, Looks
  <2> QED
    BY <2>1
<1> QED
  BY <1>1, <1>2 DEF Looking

\* Another Work is opened: the effect is due.
LEMMA LookedWhenDue ==
  ASSUME due' \/ active' = None
  PROVE  Looking'
BY DEF Looking, Strays, RunningIsLookedAfter

LEMMA LoadGoesOnWhenCleared ==
  ASSUME Inv, NEW gone, load' = load \/ load' = Detached(gone)
  PROVE  LoadGoesOn
BY DEF Inv, LoadOK, Loads, Detached, LoadGoesOn

LEMMA LookedWhenLoaded ==
  ASSUME Inv, Looking, NEW w, NEW gone, NEW shown \in Panels, LoadWork(w, gone, shown),
         active' = active, due' = due \/ (w = active /\ due' = FALSE),
         shown.stage = panel.stage, shown.processing = panel.processing, ImportGoesOn,
         \A k \in Hands : Looks(k) /\ op[k].work # w
                            => op'[k].at # "idle" /\ op'[k].work = op[k].work
  PROVE  Looking'
<1>1. CASE active = w /\ w # None
  <2> DEFINE keep == loaded = w
  <2>1. /\ load' = [NoLoad EXCEPT !.work = w, !.keep = keep, !.at = "bundle"]
        /\ panel' = IF keep THEN shown
                    ELSE [shown EXCEPT !.job = NoJob, !.processing = None, !.pending = None]
    BY <1>1 DEF LoadWork
  <2>2. load'.at = "bundle" /\ load'.work = active' /\ load'.keep = keep
    BY <1>1, <2>1 DEF NoLoad
  <2>3. ~keep => panel'.processing = None
    BY <2>1 DEF Panels
  <2>4. RunningIsLookedAfter'
    BY <2>2 DEF RunningIsLookedAfter
  <2>5. Strays'
    BY <2>2, <2>3 DEF Strays, Loading
  <2> QED
    BY <2>4, <2>5 DEF Looking
<1>2. CASE active = None
  BY <1>2, LookedWhenDue
<1>3. CASE active # w /\ active # None
  <2>1. Invalidate(gone) /\ panel' = shown /\ UNCHANGED <<active, due, loaded, timer>>
    BY <1>3 DEF LoadWork
  <2>2. LoadGoesOn
    BY <2>1, LoadGoesOnWhenCleared DEF Invalidate
  <2>3. HandsGoOn
    BY <1>3 DEF HandsGoOn, Looks
  <2> QED
    BY <2>1, <2>2, <2>3, LookedInPlace
<1> QED
  BY <1>1, <1>2, <1>3

\* The places of a handler, and what the answer of the list makes of them.
Fits(k, at) ==
  /\ at \in {"upload", "saved", "listed"} => k = "import"
  /\ at \in {"settling", "failing"} => k = "delete"
  /\ at = "wait" => k \in {"score", "studio"}

LEMMA ListedFits ==
  ASSUME Inv, Places, NEW k \in Kind
  PROVE  /\ Fits(k, op[k].at) /\ Fits(k, Listed(op)[k].at)
         /\ k # "delete" => /\ Listed(op)[k].work = op[k].work
                            /\ Listed(op)[k].at \in {op[k].at, "listed"}
                            /\ Listed(op)[k].at # op[k].at => op[k].at = "saved"
<1>1. op[k] \in Calls
  BY DEF Inv, OpOK
<1>2. CASE op[k].at = "saved"
  <2>1. Listed(op)[k] = [op[k] EXCEPT !.at = "listed"]
    BY <1>2 DEF Listed
  <2> QED
    BY <1>1, <1>2, <2>1 DEF Calls, Places, Fits
<1>3. CASE op[k].at = "settling"
  <2>1. Listed(op)[k] = NoOp
    BY <1>3 DEF Listed
  <2> QED
    BY <1>3, <2>1 DEF NoOp, Places, Fits
<1>4. CASE op[k].at \notin {"saved", "settling"}
  <2>1. Listed(op)[k] = op[k]
    BY <1>4 DEF Listed
  <2> QED
    BY <1>4, <2>1 DEF Places, Fits
<1> QED
  BY <1>2, <1>3, <1>4

LEMMA PlacesMove ==
  ASSUME Inv, Places, NEW k \in Kind, NEW c, Fits(k, c.at),
         op' = [op EXCEPT ![k] = c] \/ op' = [Listed(op) EXCEPT ![k] = c]
  PROVE  Places'
<1>1. \A i \in Kind : Fits(i, op[i].at) /\ Fits(i, Listed(op)[i].at)
  BY ListedFits
<1>2. op \in [Kind -> Calls] /\ Listed(op) \in [Kind -> Calls]
  BY ListedKeeps DEF Inv, OpOK
<1>3. \A i \in Kind : Fits(i, op'[i].at)
  BY <1>1, <1>2
<1> QED
  BY <1>3 DEF Places, Fits

LEMMA PlacesGoOn ==
  ASSUME Inv, Places, NEW k \in Kind, NEW state, Fits(k, state),
         op' = [op EXCEPT ![k].at = state] \/ op' = [Listed(op) EXCEPT ![k].at = state]
  PROVE  Places'
<1>1. op \in [Kind -> Calls] /\ Listed(op) \in [Kind -> Calls]
  BY ListedKeeps DEF Inv, OpOK
<1>2. PICK c \in {[op[k] EXCEPT !.at = state], [Listed(op)[k] EXCEPT !.at = state]} :
        op' = [op EXCEPT ![k] = c] \/ op' = [Listed(op) EXCEPT ![k] = c]
  BY <1>1
<1>3. c.at = state
  BY <1>1 DEF Calls
<1> QED
  BY <1>2, <1>3, PlacesMove

LEMMA NextKeepsPlaces ==
  ASSUME Inv, Places, [Next]_vars
  PROVE  Places'
<1>0. /\ op \in [Kind -> Calls]
      /\ {"import", "start", "retry", "cancel", "score", "studio", "delete"} \subseteq Kind
  BY DEF Inv, OpOK, Kind
<1>1. CASE op' = op
  BY <1>1 DEF Places
<1>2. CASE op' = Listed(op)
  BY <1>2, ListedFits DEF Places, Fits
<1>3. ASSUME NEW k \in Kind, Done(k)
      PROVE  Places'
  BY <1>3, PlacesMove DEF Done, NoOp, Fits
<1>4. ASSUME NEW k \in Kind, NEW job, NEW w, Begin(k, "post", job, w)
      PROVE  Places'
  <2>1. op' = [op EXCEPT ![k] = [at |-> "post", job |-> job, work |-> w]]
    BY <1>4 DEF Begin
  <2> QED
    BY <2>1, PlacesMove DEF Fits
<1>5. ASSUME NEW k \in Kind, NEW state, Goto(k, state), Fits(k, state)
      PROVE  Places'
  BY <1>5, PlacesGoOn DEF Goto
<1>6. \/ UNCHANGED vars \/ Effect \/ Settle \/ Refresh \/ ServerReadsOld \/ AnswerOld
      \/ AnswerCached \/ AnswerOldFails \/ LeaveUnlisted \/ Reselect \/ PanelRefresh \/ ReadList
      \/ (\E w \in Work : ServerReads(w) \/ Answer(w) \/ AnswerFails(w) \/ JobEnds(w) \/ Open(w)
                         \/ Prefetch(w))
      => op' = op
  BY DEF vars, Effect, Settle, Refresh, ServerReadsOld, AnswerOld, AnswerCached, AnswerOldFails,
         LeaveUnlisted, Reselect, PanelRefresh, ReadList, ServerReads, Answer, AnswerFails, JobEnds,
         Open, Prefetch
<1>7. CASE ListAnswers \/ ListFails
  BY <1>2, <1>7 DEF ListAnswers, ListFails
<1>8. CASE Uploaded
  <2>1. \E state \in {"saved"} : op' = [Listed(op) EXCEPT !["import"].at = state]
    BY <1>8 DEF Uploaded
  <2> QED
    BY <1>0, <2>1, PlacesGoOn DEF Fits
<1>9. CASE DeleteReplies \/ DeleteFails
  <2>1. \E state \in {"settling", "failing"} : op' = [Listed(op) EXCEPT !["delete"].at = state]
    BY <1>9 DEF DeleteReplies, DeleteFails
  <2> QED
    BY <1>0, <2>1, PlacesGoOn DEF Fits
<1>10. ASSUME NEW w \in Work, Delete(w)
       PROVE  Places'
  <2>1. op' = [Listed(op) EXCEPT !["delete"] =
                 [at |-> "post", job |-> [NoJob EXCEPT !.work = w], work |-> active]]
    BY <1>10 DEF Delete
  <2> QED
    BY <1>0, <2>1, PlacesMove DEF Fits
<1>11. ASSUME NEW w \in Work, Import(w)
       PROVE  Places'
  <2>1. op' = [op EXCEPT !["import"] = [at |-> "upload", job |-> NoJob, work |-> w]]
    BY <1>11 DEF Import, Begin
  <2> QED
    BY <1>0, <2>1, PlacesMove DEF Fits
<1>12. CASE \/ Enter \/ StartPending \/ RetryJob \/ CancelJob
            \/ \E k \in {"score", "studio"} : Rebuild(k)
  BY <1>0, <1>4, <1>12 DEF Enter, StartPending, RetryJob, CancelJob, Rebuild
<1>13. CASE UploadFails \/ Restore \/ RetryReplies \/ CancelReplies
  BY <1>0, <1>3, <1>13 DEF UploadFails, Restore, RetryReplies, CancelReplies
<1>14. CASE ServeDelete
  BY <1>0, <1>5, <1>14 DEF ServeDelete, Fits
<1>15. ASSUME NEW k \in Kind, Serve(k)
       PROVE  Places'
  <2>1. CASE Goto(k, "refused")
    BY <1>5, <2>1 DEF Fits
  <2>2. ASSUME NEW j, op' = [op EXCEPT ![k].at = "reply", ![k].job = j]
        PROVE  Places'
    <3> DEFINE c == [op[k] EXCEPT !.at = "reply", !.job = j]
    <3>1. op' = [op EXCEPT ![k] = c]
      BY <1>0, <2>2
    <3>2. c.at = "reply"
      BY <1>0 DEF Calls
    <3> HIDE DEF c
    <3> QED
      BY <3>1, <3>2, PlacesMove DEF Fits
  <2> QED
    BY <1>15, <2>1, <2>2 DEF Serve
<1>16. ASSUME NEW k \in Kind, \/ StartReplies(k) \/ RebuildReplies(k) \/ Rebuilt(k)
                              \/ HandlerFails(k) \/ \E lost \in BOOLEAN : RebuildFails(k, lost)
       PROVE  Places'
  <2>1. Done(k) \/ (Goto(k, "wait") /\ k \in {"score", "studio"})
    BY <1>16 DEF StartReplies, RebuildReplies, Rebuilt, HandlerFails, RebuildFails
  <2> QED
    BY <1>3, <1>5, <2>1 DEF Fits
<1> QED
  BY <1>1, <1>6, <1>7, <1>8, <1>9, <1>10, <1>11, <1>12, <1>13, <1>14, <1>15, <1>16
  DEF Next, Step, User, Fault, Handler

LEMMA NextKeepsBundled ==
  ASSUME Inv, Bundled, [Next]_vars
  PROVE  Bundled'
<1>0. load \in Loads
  BY DEF Inv, LoadOK
<1>1. CASE load' = load
  BY <1>1 DEF Bundled
<1>2. ASSUME NEW gone, load' = Detached(gone)
      PROVE  Bundled'
  BY <1>0, <1>2 DEF Bundled, Detached, Shares, Loads
<1>3. ASSUME NEW w, NEW gone, NEW shown, LoadWork(w, gone, shown)
      PROVE  Bundled'
  BY <1>2, <1>3 DEF LoadWork, Invalidate, Bundled, NoLoad, Absent
<1>4. CASE load' = NoLoad
  BY <1>4 DEF Bundled, NoLoad, Absent
<1>5. ASSUME NEW seen, ShowBundle(seen)
      PROVE  Bundled'
  BY <1>0, <1>5 DEF ShowBundle, Bundled, Absent, Loads
<1>6. CASE ServerReadsOld
  BY <1>0, <1>6 DEF ServerReadsOld, Bundled, Loads
<1>7. CASE \/ Effect \/ Settle \/ Refresh \/ AnswerOld \/ AnswerCached \/ AnswerOldFails
           \/ RetryReplies \/ CancelReplies
           \/ \E w \in Work : Answer(w) \/ AnswerFails(w)
           \/ \E k \in Kind : StartReplies(k) \/ Rebuilt(k)
  BY <1>1, <1>3, <1>4, <1>5, <1>7
  DEF Effect, Settle, Refresh, AnswerOld, AnswerCached, AnswerOldFails, Catch, RetryReplies,
      CancelReplies, Answer, AnswerFails, StartReplies, Rebuilt
<1>8. CASE \/ DeleteReplies \/ Uploaded \/ Enter \/ StartPending \/ RetryJob \/ PanelRefresh
           \/ \E k \in Kind : RebuildReplies(k) \/ Rebuild(k)
  BY <1>2, <1>8 DEF DeleteReplies, Uploaded, Enter, StartPending, RetryJob, PanelRefresh,
                    RebuildReplies, Rebuild, ClearCache, Invalidate
<1>9. \/ UNCHANGED vars \/ ReadList \/ ListAnswers \/ ListFails \/ ServeDelete \/ DeleteFails
      \/ UploadFails \/ CancelJob \/ LeaveUnlisted \/ Restore \/ Reselect
      \/ (\E w \in Work : JobEnds(w) \/ Import(w) \/ Open(w) \/ Delete(w) \/ Prefetch(w)
                         \/ ServerReads(w))
      \/ (\E k \in Kind : Serve(k) \/ HandlerFails(k)
                         \/ \E lost \in BOOLEAN : RebuildFails(k, lost))
      => load' = load
  BY DEF vars, ReadList, ListAnswers, ListFails, ServeDelete, DeleteFails, UploadFails,
         CancelJob, LeaveUnlisted, Restore, Reselect, JobEnds, Import, Open, Delete, Prefetch,
         ServerReads, Serve, HandlerFails, RebuildFails
<1> QED
  BY <1>1, <1>6, <1>7, <1>8, <1>9 DEF Next, Step, User, Fault, Handler, Kind

LEMMA HandsMove ==
  ASSUME Inv, Places, NEW k \in Kind,
         \/ op' = op \/ op' = Listed(op)
         \/ \E c : op' = [op EXCEPT ![k] = c] \/ op' = [Listed(op) EXCEPT ![k] = c],
         k # "import" \/ ~Importing
  PROVE  /\ ImportGoesOn
         /\ \A i \in Hands \ {k} : Looks(i) => op'[i].at # "idle" /\ op'[i].work = op[i].work
<1>1. op \in [Kind -> Calls] /\ Listed(op) \in [Kind -> Calls]
  BY ListedKeeps DEF Inv, OpOK
<1>2. \A i \in Kind \ {k} : op'[i] = op[i] \/ op'[i] = Listed(op)[i]
  BY <1>1
<1>3. \A i \in Hands : i \in Kind /\ i # "delete"
  BY DEF Hands, Kind
<1>4. ASSUME NEW i \in Hands \ {k}
      PROVE  op'[i].work = op[i].work /\ op'[i].at \in {op[i].at, "listed"}
  BY <1>2, <1>3, ListedFits
<1>5. ImportGoesOn
  <2>1. CASE k # "import"
    BY <1>4, <2>1 DEF ImportGoesOn, Importing, Hands
  <2> QED
    BY <2>1 DEF ImportGoesOn
<1> QED
  BY <1>4, <1>5 DEF Looks

\* A step of a handler that looks at no Work, or of none.
LEMMA OthersMove ==
  ASSUME Inv, Places,
         \/ op' = op \/ op' = Listed(op)
         \/ \E k \in {"cancel", "studio", "delete"} :
              \E c : op' = [op EXCEPT ![k] = c] \/ op' = [Listed(op) EXCEPT ![k] = c]
  PROVE  ImportGoesOn /\ HandsGoOn
<1>1. PICK k \in {"cancel", "studio", "delete"} :
        \/ op' = op \/ op' = Listed(op)
        \/ \E c : op' = [op EXCEPT ![k] = c] \/ op' = [Listed(op) EXCEPT ![k] = c]
  OBVIOUS
<1>2. k \in Kind /\ k # "import" /\ k \notin Hands
  BY DEF Kind, Hands
<1> QED
  BY <1>1, <1>2, HandsMove DEF HandsGoOn

\* The loads, the requests and the timer.
LEMMA LoadsLook ==
  ASSUME Inv, Places, Bundled, Looking,
         \/ Effect \/ Settle \/ Refresh \/ ServerReadsOld \/ AnswerOld \/ AnswerCached
         \/ AnswerOldFails
         \/ \E w \in Work : ServerReads(w) \/ Answer(w) \/ AnswerFails(w)
  PROVE  Looking'
<1> USE DEF view
<1>0. /\ load \in Loads /\ panel \in Panels /\ op' = op
      /\ ImportGoesOn /\ HandsGoOn
  <2>1. op' = op
    BY DEF Effect, Settle, Refresh, ServerReadsOld, AnswerOld, AnswerCached, AnswerOldFails,
           ServerReads, Answer, AnswerFails
  <2> QED
    BY <2>1, OthersMove DEF Inv, LoadOK, PanelOK
<1>1. ASSUME UNCHANGED <<active, due, loaded, timer, panel>>, LoadGoesOn
      PROVE  Looking'
  BY <1>0, <1>1, LookedInPlace
<1>2. ASSUME NEW w, LoadWork(w, {}, panel), active' = active,
             due' = due \/ (w = active /\ due' = FALSE)
      PROVE  Looking'
  BY <1>0, <1>2, LookedWhenLoaded DEF HandsGoOn
<1>3. ASSUME NEW seen, ShowBundle(seen), Current, UNCHANGED <<active, due, loaded, timer>>
      PROVE  Looking'
  <2>1. load'.at = "children" /\ load'.work = active /\ load'.seen = seen
    BY <1>0, <1>3 DEF ShowBundle, Current, Loads
  <2>2. RunningIsLookedAfter'
    BY <1>3, <2>1 DEF RunningIsLookedAfter
  <2>3. CASE seen.stage = "active"
    <3>1. panel'.processing = active
      BY <1>3, <2>3 DEF ShowBundle, Current
    <3> QED
      BY <1>3, <2>2, <3>1 DEF Strays, Looking
  <2>4. CASE seen.stage # "active"
    BY <1>3, <2>1, <2>2, <2>4 DEF Strays, Looking, Loading
  <2> QED
    BY <2>3, <2>4
<1>4. ASSUME Catch, Current, load.at = "bundle", UNCHANGED <<active, due, loaded, timer>>
      PROVE  Looking'
  <2>1. panel'.stage # "processing"
        /\ panel'.processing = IF load.keep THEN active ELSE panel.processing
    BY <1>0, <1>4 DEF Catch, Current, Panels
  <2>2. RunningIsLookedAfter'
    BY <2>1 DEF RunningIsLookedAfter, Following
  <2>3. Strays'
    BY <1>0, <1>4, <2>1 DEF Strays, Looking, Loading, Importing
  <2> QED
    BY <2>2, <2>3 DEF Looking
<1>5. ASSUME load' = NoLoad, ~Current, UNCHANGED <<active, due, loaded, timer, panel>>
      PROVE  Looking'
  <2>1. LoadGoesOn
    BY <1>5 DEF LoadGoesOn, Loading, Current
  <2> QED
    BY <1>1, <1>5, <2>1
<1>6. load' = load => LoadGoesOn
  BY DEF LoadGoesOn
<1>7. CASE Effect
  BY <1>2, <1>7 DEF Effect
<1>8. CASE Settle
  <2>1. /\ Current /\ load.at = "children" /\ UNCHANGED <<active, due, loaded>>
        /\ timer' = (IF load.seen.stage = "active" THEN load.work ELSE timer)
        /\ loaded = load.work
    BY <1>8 DEF Settle, Inv, LoadOK
  <2>2. CASE load.seen.stage = "active"
    <3>1. panel' = panel /\ timer' = active' /\ loaded' = active'
      BY <1>8, <2>1, <2>2 DEF Settle, Current
    <3>2. Strays'
      BY <1>0, <2>1, <2>2, <3>1 DEF Strays, Looking, Loading, Importing
    <3> QED
      BY <3>1, <3>2 DEF Looking, RunningIsLookedAfter
  <2>3. CASE load.seen.stage # "active"
    <3>1. panel'.stage # "processing" /\ panel'.processing \in {None, active}
      BY <1>0, <1>8, <2>1, <2>3 DEF Settle, Current, Panels
    <3> QED
      BY <2>1, <3>1 DEF Looking, RunningIsLookedAfter, Following, Strays
  <2> QED
    BY <2>2, <2>3
<1>9. CASE Refresh
  <2>1. CASE active = timer /\ loaded = timer
    BY <1>2, <1>9, <2>1 DEF Refresh
  <2>2. CASE ~(active = timer /\ loaded = timer)
    <3>1. UNCHANGED <<active, due, loaded, load, panel, op>>
      BY <1>9, <2>2 DEF Refresh
    <3> QED
      BY <2>2, <3>1
      DEF Looking, RunningIsLookedAfter, Following, Strays, Loading, Importing
  <2> QED
    BY <2>1, <2>2
<1>10. CASE ServerReadsOld
  <2>1. LoadGoesOn
    BY <1>0, <1>10 DEF ServerReadsOld, LoadGoesOn, Loads
  <2> QED
    BY <1>1, <1>10, <2>1 DEF ServerReadsOld
<1>11. CASE AnswerOld \/ AnswerCached
  BY <1>3, <1>11 DEF AnswerOld, AnswerCached
<1>12. CASE AnswerOldFails
  <2>1. load.at = "bundle" /\ UNCHANGED <<active, due, loaded, timer>>
    BY <1>12 DEF AnswerOldFails, Bundled
  <2> QED
    BY <1>4, <1>5, <1>12, <2>1 DEF AnswerOldFails
<1>13. ASSUME NEW w \in Work, ServerReads(w)
       PROVE  Looking'
  BY <1>1, <1>6, <1>13 DEF ServerReads
<1>14. ASSUME NEW w \in Work, Answer(w)
       PROVE  Looking'
  BY <1>1, <1>3, <1>6, <1>14 DEF Answer
<1>15. ASSUME NEW w \in Work, AnswerFails(w)
       PROVE  Looking'
  BY <1>1, <1>4, <1>5, <1>6, <1>15 DEF AnswerFails, Shares
<1> QED
  BY <1>7, <1>8, <1>9, <1>10, <1>11, <1>12, <1>13, <1>14, <1>15

LEMMA ActivateLooks ==
  ASSUME Inv, Looking, NEW w, Activate(w), loaded' = loaded, timer' = timer \/ active' = None,
         panel' = panel, load' = load, ImportGoesOn, HandsGoOn
  PROVE  Looking'
<1>1. CASE due' \/ active' = None
  BY <1>1, LookedWhenDue
<1>2. CASE ~due' /\ active' # None
  <2>1. UNCHANGED <<active, due, timer>> /\ LoadGoesOn
    BY <1>2 DEF Activate, Inv, ViewOK, LoadGoesOn
  <2> QED
    BY <2>1, LookedInPlace
<1> QED
  BY <1>1, <1>2

\* The user's moves, the list and the deletion.
LEMMA MovesLook ==
  ASSUME Inv, Places, Looking,
         \/ LeaveUnlisted \/ Reselect \/ PanelRefresh \/ ReadList \/ ListAnswers \/ ListFails
         \/ ServeDelete \/ DeleteReplies \/ DeleteFails \/ Restore \/ CancelJob
         \/ \E w \in Work : Open(w) \/ Prefetch(w) \/ Delete(w) \/ JobEnds(w)
  PROVE  Looking'
<1> USE DEF view
<1>0. panel \in Panels /\ op \in [Kind -> Calls] /\ Listed(op) \in [Kind -> Calls]
  BY ListedKeeps DEF Inv, PanelOK, OpOK, Kind
<1>1. ImportGoesOn /\ HandsGoOn
  <2>1. CASE op' = op \/ op' = Listed(op)
    BY <2>1, OthersMove
  <2>2. CASE ServeDelete \/ Restore \/ CancelJob
    <3>1. \E k \in {"cancel", "delete"} : \E c : op' = [op EXCEPT ![k] = c]
      BY <1>0, <2>2 DEF ServeDelete, Restore, CancelJob, Goto, Done, Begin
    <3> QED
      BY <3>1, OthersMove
  <2>3. CASE DeleteReplies \/ DeleteFails \/ \E w \in Work : Delete(w)
    <3>1. \E c : op' = [Listed(op) EXCEPT !["delete"] = c]
      BY <1>0, <2>3 DEF DeleteReplies, DeleteFails, Delete
    <3> QED
      BY <3>1, OthersMove
  <2>4. \/ LeaveUnlisted \/ Reselect \/ PanelRefresh \/ ReadList \/ ListAnswers \/ ListFails
        \/ (\E w \in Work : Open(w) \/ Prefetch(w) \/ JobEnds(w))
        => op' = op \/ op' = Listed(op)
    BY DEF LeaveUnlisted, Reselect, PanelRefresh, ReadList, ListAnswers, ListFails, Open, Prefetch,
           JobEnds
  <2> QED
    BY <2>1, <2>2, <2>3, <2>4
<1>2. CASE \/ PanelRefresh \/ ReadList \/ ListAnswers \/ ListFails \/ ServeDelete \/ DeleteReplies
           \/ DeleteFails \/ CancelJob \/ \E w \in Work : Prefetch(w) \/ JobEnds(w)
  <2>1. /\ UNCHANGED <<active, due, loaded, timer>> /\ \E gone : load' = load \/ load' = Detached(gone)
        /\ panel' = panel \/ panel' = [panel EXCEPT !.stage = "error"]
    BY <1>2 DEF PanelRefresh, ReadList, ListAnswers, ListFails, ServeDelete, DeleteReplies,
                DeleteFails, CancelJob, Prefetch, JobEnds, Invalidate
  <2>2. LoadGoesOn
    BY <2>1, LoadGoesOnWhenCleared
  <2>3. panel'.processing = panel.processing /\ (panel' = panel \/ panel'.stage # "processing")
    BY <1>0, <2>1 DEF Panels
  <2> QED
    BY <1>1, <2>1, <2>2, <2>3, LookedInPlace
<1>3. CASE Reselect
  BY <1>3, LookedWhenDue DEF Reselect
<1>4. CASE Restore
  <2>1. UNCHANGED <<loaded, load, timer, panel>>
        /\ (Activate(op["delete"].job.work) \/ UNCHANGED <<active, due>>)
    BY <1>4 DEF Restore
  <2>2. LoadGoesOn
    BY <2>1 DEF LoadGoesOn
  <2> QED
    BY <1>1, <2>1, <2>2, ActivateLooks, LookedInPlace
<1>5. CASE LeaveUnlisted
  <2>1. PICK w \in IF rows = {} THEN {None} ELSE rows : Activate(w)
    BY <1>5 DEF LeaveUnlisted
  <2>2. UNCHANGED <<loaded, load, panel>> /\ (timer' = timer \/ active' = None)
    BY <1>5, <2>1 DEF LeaveUnlisted, Activate
  <2> QED
    BY <1>1, <2>1, <2>2, ActivateLooks
<1>6. ASSUME NEW w \in Work, Open(w)
      PROVE  Looking'
  BY <1>1, <1>6, ActivateLooks DEF Open
<1>7. ASSUME NEW w \in Work, Delete(w)
      PROVE  Looking'
  <2>1. UNCHANGED <<loaded, load, panel>> /\ LoadGoesOn
    BY <1>7 DEF Delete, LoadGoesOn
  <2>2. CASE active = w
    <3>1. PICK next \in IF rows = {w} THEN {None} ELSE rows \ {w} : Activate(next)
      BY <1>7, <2>2 DEF Delete
    <3>2. timer' = timer \/ active' = None
      BY <1>7, <2>2, <3>1 DEF Delete, Activate
    <3> QED
      BY <1>1, <2>1, <3>1, <3>2, ActivateLooks
  <2>3. CASE active # w
    BY <1>1, <1>7, <2>1, <2>3, LookedInPlace DEF Delete
  <2> QED
    BY <2>2, <2>3
<1> QED
  BY <1>2, <1>3, <1>4, <1>5, <1>6, <1>7

\* The handlers up to their request: who sends it looks at the processed Work.
LEMMA SubjectIsOpen ==
  ASSUME Looking, ~due
  PROVE  active = None \/ Importing \/ Loading \/ Subject = active
BY DEF Looking, Strays, Subject

LEMMA RequestsLook ==
  ASSUME Inv, Places, Looking,
         \/ Uploaded \/ UploadFails \/ Enter \/ StartPending \/ RetryJob
         \/ \E w \in Work : Import(w)
         \/ \E k \in {"score", "studio"} : Rebuild(k)
  PROVE  Looking'
<1> USE DEF view
<1>0. /\ panel \in Panels /\ op \in [Kind -> Calls] /\ Listed(op) \in [Kind -> Calls]
      /\ Hands \cup {"studio"} \subseteq Kind
  BY ListedKeeps DEF Inv, PanelOK, OpOK, Kind, Hands
<1>1. ASSUME NEW w \in Work, Import(w)
      PROVE  Looking'
  <2>1. /\ UNCHANGED <<active, due, loaded, timer, load>> /\ op["import"].at = "idle"
        /\ panel'.stage = "uploading" /\ panel'.processing = None
    BY <1>1 DEF Import
  <2>2. LoadGoesOn /\ ImportGoesOn
    BY <2>1 DEF LoadGoesOn, ImportGoesOn, Importing
  <2> QED
    BY <2>1, <2>2, LookedInPlace
<1>2. CASE Uploaded
  <2>1. /\ op' = [Listed(op) EXCEPT !["import"].at = "saved"] /\ op["import"].at = "upload"
        /\ panel' = [panel EXCEPT !.pending = op["import"].work, !.processing = op["import"].work]
    BY <1>2 DEF Uploaded
  <2>2. Listed(op)["import"] = op["import"]
    BY <1>0, <2>1 DEF Listed, Hands
  <2>3. op'["import"].at = "saved" /\ op'["import"].work = op["import"].work
    BY <1>0, <2>1, <2>2 DEF Hands, Calls
  <2>4. panel'.processing = op["import"].work
    BY <1>0, <2>1 DEF Panels
  <2> QED
    BY <2>3, <2>4 DEF Looking, Strays, RunningIsLookedAfter, Importing
<1>3. CASE UploadFails
  <2>1. /\ UNCHANGED <<active, due, loaded, timer, load>> /\ op["import"].at = "upload"
        /\ panel' = [panel EXCEPT !.pending = None, !.processing = None, !.stage = "error"]
    BY <1>3 DEF UploadFails
  <2>2. LoadGoesOn /\ ImportGoesOn /\ panel'.stage = "error" /\ panel'.processing = None
    BY <1>0, <2>1 DEF LoadGoesOn, ImportGoesOn, Importing, Panels
  <2> QED
    BY <2>1, <2>2, LookedInPlace
<1>4. CASE Enter
  <2> DEFINE w == op["import"].work
  <2>1. /\ Activate(w) /\ panel' = [panel EXCEPT !.stage = "processing"]
        /\ op' = [op EXCEPT !["import"] = [at |-> "post", job |-> [work |-> w, n |-> 0], work |-> w]]
        /\ Invalidate(Owners(w)) /\ active' = w
    BY <1>4 DEF Enter, Begin, Activate
  <2>2. op'["import"].at = "post" /\ op'["import"].work = active'
    BY <1>0, <2>1 DEF Hands
  <2>3. RunningIsLookedAfter'
    BY <2>2 DEF RunningIsLookedAfter
  <2>4. CASE active = w
    <3>1. LoadGoesOn /\ panel'.processing = panel.processing /\ UNCHANGED <<active, due>>
      BY <1>0, <2>1, <2>4, LoadGoesOnWhenCleared DEF Invalidate, Panels, Activate, Inv, ViewOK
    <3>2. Strays'
      BY <2>4, <3>1 DEF Looking, Strays, LoadGoesOn, Loading
    <3> QED
      BY <2>3, <3>2 DEF Looking
  <2>5. CASE active # w
    BY <2>1, <2>5, LookedWhenDue DEF Activate
  <2> QED
    BY <2>4, <2>5
<1>5. ASSUME NEW k \in {"start", "retry"}, NEW gone, NEW job,
             Gesture, Invalidate(gone), UNCHANGED view,
             panel' = [panel EXCEPT !.stage = "processing"], Begin(k, "post", job, Subject)
      PROVE  Looking'
  <2>1. LoadGoesOn /\ panel'.processing = panel.processing
    BY <1>0, <1>5, LoadGoesOnWhenCleared DEF Invalidate, Panels
  <2>2. op'[k].at = "post" /\ op'[k].work = Subject /\ k \in Hands
    BY <1>0, <1>5 DEF Begin, Hands
  <2>3. ImportGoesOn
    BY <1>0, <1>5 DEF Begin, Hands, ImportGoesOn, Importing
  <2>4. active = None \/ Importing \/ Loading \/ Subject = active
    BY <1>5, SubjectIsOpen DEF Gesture
  <2>5. \/ active = None \/ due \/ Importing \/ Loading
        \/ \E i \in Hands : op'[i].at # "idle" /\ op'[i].work = active
    BY <2>2, <2>4
  <2> QED
    BY <1>5, <2>1, <2>3, <2>5, LookedInPlace
<1>6. CASE StartPending
  BY <1>5, <1>6 DEF StartPending
<1>7. CASE RetryJob
  BY <1>5, <1>7 DEF RetryJob, ClearCache
<1>8. ASSUME NEW k \in {"score", "studio"}, Rebuild(k)
      PROVE  Looking'
  <2>1. /\ UNCHANGED view /\ Invalidate(Owners(active))
        /\ op' = [op EXCEPT ![k] = [at |-> "post", job |-> [work |-> active, n |-> 0], work |-> active]]
    BY <1>8 DEF Rebuild, Begin
  <2>2. LoadGoesOn
    BY <2>1, LoadGoesOnWhenCleared DEF Invalidate
  <2>3. op'[k].at = "post" /\ op'[k].work = active /\ ImportGoesOn
    BY <1>0, <2>1 DEF Hands, ImportGoesOn, Importing
  <2>4. CASE k = "score"
    <3>1. panel' = [panel EXCEPT !.processing = active, !.stage = "processing"]
      BY <1>8, <2>4 DEF Rebuild
    <3>2. panel'.processing = active /\ k \in Hands
      BY <1>0, <2>4, <3>1 DEF Panels, Hands
    <3>3. \E i \in Hands : op'[i].at # "idle" /\ op'[i].work = active
      BY <2>3, <3>2
    <3> QED
      BY <2>1, <2>2, <2>3, <3>2, <3>3, LookedInPlace
  <2>5. CASE k = "studio"
    <3>1. panel' = panel /\ HandsGoOn
      BY <1>8, <2>1, <2>5, OthersMove DEF Rebuild
    <3> QED
      BY <2>1, <2>2, <2>3, <3>1, LookedInPlace
  <2> QED
    BY <2>4, <2>5
<1> QED
  BY <1>1, <1>2, <1>3, <1>4, <1>6, <1>7, <1>8

\* The handlers from their request on.
LEMMA RepliesLook ==
  ASSUME Inv, Places, Looking,
         \/ RetryReplies \/ CancelReplies
         \/ \E k \in Kind : \/ Serve(k) \/ StartReplies(k) \/ RebuildReplies(k) \/ Rebuilt(k)
                            \/ HandlerFails(k) \/ \E lost \in BOOLEAN : RebuildFails(k, lost)
  PROVE  Looking'
<1> USE DEF view
<1>0. /\ panel \in Panels /\ op \in [Kind -> Calls]
      /\ Hands \cup {"studio", "cancel"} \subseteq Kind
  BY DEF Inv, PanelOK, OpOK, Kind, Hands
<1>1. ASSUME NEW k \in Kind, NEW gone, NEW shown \in Panels, LoadWork(op[k].work, gone, shown),
             shown.stage = panel.stage, shown.processing = panel.processing, Done(k),
             k # "import" \/ ~Importing, UNCHANGED <<active, due>>
      PROVE  Looking'
  <2>1. /\ ImportGoesOn
        /\ \A i \in Hands \ {k} : Looks(i) => op'[i].at # "idle" /\ op'[i].work = op[i].work
    BY <1>1, HandsMove DEF Done
  <2> QED
    BY <1>1, <2>1, LookedWhenLoaded
\* A handler that gives up says so, unless it is about another Work.
<1>2. ASSUME NEW k \in Kind, Done(k), UNCHANGED <<active, due, loaded, timer, load>>,
             panel'.processing = panel.processing, k # "import" \/ ~Importing,
             \/ panel'.stage # "processing"
             \/ panel'.stage = panel.stage /\ (k \in Hands => op[k].work # active)
      PROVE  Looking'
  <2>1. /\ ImportGoesOn /\ LoadGoesOn
        /\ \A i \in Hands \ {k} : Looks(i) => op'[i].at # "idle" /\ op'[i].work = op[i].work
    BY <1>2, HandsMove DEF Done, LoadGoesOn
  <2>2. panel'.stage = panel.stage /\ (k \in Hands => op[k].work # active) => HandsGoOn
    BY <2>1 DEF HandsGoOn, Looks
  <2> QED
    BY <1>2, <2>1, <2>2, LookedInPlace
<1>3. CASE RetryReplies
  <2> DEFINE shown == [panel EXCEPT !.job = op["retry"].job]
  <2>1. /\ LoadWork(op["retry"].work, {}, shown) /\ Done("retry") /\ UNCHANGED <<active, due>>
    BY <1>3 DEF RetryReplies
  <2>2. "retry" \in Kind /\ shown \in Panels /\ shown.stage = panel.stage
        /\ shown.processing = panel.processing
    BY <1>0 DEF Panels, Hands, Calls
  <2> HIDE DEF shown
  <2> QED
    BY <1>1, <2>1, <2>2
<1>4. CASE CancelReplies
  BY <1>0, <1>1, <1>4 DEF CancelReplies
<1>5. ASSUME NEW k \in Kind, StartReplies(k)
      PROVE  Looking'
  <2> DEFINE shown == [panel EXCEPT !.job = op[k].job, !.pending = None]
  <2>1. /\ LoadWork(op[k].work, Owners(op[k].job.work), shown) /\ Done(k)
        /\ UNCHANGED <<active, due>> /\ op[k].at = "reply"
    BY <1>5 DEF StartReplies
  <2>2. shown \in Panels /\ shown.stage = panel.stage /\ shown.processing = panel.processing
    BY <1>0 DEF Panels, Calls
  <2>3. k # "import" \/ ~Importing
    BY <2>1 DEF Importing
  <2> HIDE DEF shown
  <2> QED
    BY <1>1, <2>1, <2>2, <2>3
<1>6. ASSUME NEW k \in Kind, Rebuilt(k)
      PROVE  Looking'
  <2>1. LoadWork(op[k].work, {}, panel) /\ Done(k) /\ UNCHANGED <<active, due>> /\ op[k].at = "wait"
    BY <1>6 DEF Rebuilt
  <2>2. k # "import" \/ ~Importing
    BY <2>1 DEF Importing
  <2> QED
    BY <1>0, <1>1, <2>1, <2>2
<1>7. ASSUME NEW k \in Kind, Serve(k)
      PROVE  Looking'
  <2>1. /\ UNCHANGED <<active, due, loaded, timer, load, panel>> /\ op[k].at = "post"
        /\ \E at \in {"reply", "refused"} : op'[k].at = at /\ op'[k].work = op[k].work
        /\ \E c : op' = [op EXCEPT ![k] = c]
    <3>1. CASE Goto(k, "refused")
      BY <1>0, <1>7, <3>1 DEF Serve, Goto, Calls
    <3>2. ASSUME NEW j, op' = [op EXCEPT ![k].at = "reply", ![k].job = j]
          PROVE  /\ op'[k].at = "reply" /\ op'[k].work = op[k].work
                 /\ \E c : op' = [op EXCEPT ![k] = c]
      <4> DEFINE c == [op[k] EXCEPT !.at = "reply", !.job = j]
      <4>1. op' = [op EXCEPT ![k] = c] /\ c.at = "reply" /\ c.work = op[k].work
        BY <1>0, <3>2 DEF Calls
      <4> HIDE DEF c
      <4> QED
        BY <1>0, <4>1
    <3> QED
      BY <1>7, <3>1, <3>2 DEF Serve
  <2>2. /\ ImportGoesOn /\ LoadGoesOn
        /\ \A i \in Hands \ {k} : Looks(i) => op'[i].at # "idle" /\ op'[i].work = op[i].work
    BY <2>1, HandsMove DEF Importing, LoadGoesOn
  <2>3. HandsGoOn
    BY <2>1, <2>2 DEF HandsGoOn
  <2> QED
    BY <2>1, <2>2, <2>3, LookedInPlace
<1>8. ASSUME NEW k \in Kind, RebuildReplies(k)
      PROVE  Looking'
  <2>1. /\ k \in {"score", "studio"} /\ op[k].at = "reply" /\ Invalidate(Owners(op[k].work))
        /\ UNCHANGED <<active, due, loaded, timer>>
    BY <1>8 DEF RebuildReplies
  <2>2. LoadGoesOn
    BY <2>1, LoadGoesOnWhenCleared DEF Invalidate
  <2>3. panel'.stage = panel.stage /\ panel'.processing = panel.processing
    BY <1>0, <1>8 DEF RebuildReplies, Panels
  <2>4. ImportGoesOn /\ HandsGoOn
    <3>1. CASE Goto(k, "wait") /\ active = op[k].work
      <4>1. op' = [op EXCEPT ![k] = [op[k] EXCEPT !.at = "wait"]]
        BY <1>0, <3>1 DEF Goto
      <4>2. op'[k].at = "wait" /\ op'[k].work = op[k].work
        BY <1>0, <3>1 DEF Goto, Calls
      <4>3. /\ ImportGoesOn
            /\ \A i \in Hands \ {k} : Looks(i) => op'[i].at # "idle" /\ op'[i].work = op[i].work
        BY <2>1, <4>1, HandsMove
      <4> QED
        BY <4>2, <4>3 DEF HandsGoOn
    <3>2. CASE Done(k) /\ active # op[k].work
      <4>1. /\ ImportGoesOn
            /\ \A i \in Hands \ {k} : Looks(i) => op'[i].at # "idle" /\ op'[i].work = op[i].work
        BY <2>1, <3>2, HandsMove DEF Done
      <4> QED
        BY <3>2, <4>1 DEF HandsGoOn, Looks
    <3> QED
      BY <1>8, <3>1, <3>2 DEF RebuildReplies
  <2> QED
    BY <2>1, <2>2, <2>3, <2>4, LookedInPlace
<1>9. ASSUME NEW k \in Kind, HandlerFails(k)
      PROVE  Looking'
  <2>1. /\ Done(k) /\ UNCHANGED <<active, due, loaded, timer, load>> /\ k # "delete"
        /\ op[k].at \in {"post", "reply", "refused"}
    BY <1>9 DEF HandlerFails
  <2>2. k # "import" \/ ~Importing
    BY <2>1 DEF Importing
  <2>3. panel'.processing = panel.processing
    BY <1>0, <1>9 DEF HandlerFails, Panels
  <2>4. \/ panel'.stage # "processing"
        \/ panel'.stage = panel.stage /\ (k \in Hands => op[k].work # active)
    <3>1. CASE panel'.stage = "error"
      BY <3>1
    <3>2. CASE k \in {"score", "studio"} /\ (k = "studio" \/ active # op[k].work)
      <4>1. panel' = panel
        BY <1>9, <3>2 DEF HandlerFails
      <4> QED
        BY <3>2, <4>1 DEF Hands
    <3>3. ~(k \in {"score", "studio"} /\ (k = "studio" \/ active # op[k].work))
          => panel'.stage = "error"
      BY <1>0, <1>9 DEF HandlerFails, Panels
    <3> QED
      BY <3>1, <3>2, <3>3
  <2> QED
    BY <1>2, <2>1, <2>2, <2>3, <2>4
<1>10. ASSUME NEW k \in Kind, NEW lost \in BOOLEAN, RebuildFails(k, lost)
       PROVE  Looking'
  <2>1. /\ Done(k) /\ UNCHANGED <<active, due, loaded, timer, load>> /\ op[k].at = "wait"
    BY <1>10 DEF RebuildFails
  <2>2. k \in {"score", "studio"}
    BY <2>1 DEF Places
  <2>3. CASE k = "score" /\ active = op[k].work
    <3>1. panel'.stage # "processing" /\ panel'.processing = panel.processing
      BY <1>0, <1>10, <2>3 DEF RebuildFails, Panels
    <3> QED
      BY <1>2, <2>1, <2>2, <3>1
  <2>4. CASE ~(k = "score" /\ active = op[k].work)
    <3>1. panel' = panel /\ (k \in Hands => op[k].work # active)
      BY <1>10, <2>2, <2>4 DEF RebuildFails, Hands
    <3> QED
      BY <1>2, <2>1, <2>2, <3>1
  <2> QED
    BY <2>3, <2>4
<1> QED
  BY <1>3, <1>4, <1>5, <1>6, <1>7, <1>8, <1>9, <1>10

LEMMA NextKeepsLooking ==
  ASSUME Inv, Places, Bundled, Looking, [Next]_vars
  PROVE  Looking'
<1>1. CASE UNCHANGED vars
  <2>1. UNCHANGED <<active, due, loaded, timer, load, panel, op>>
    BY <1>1 DEF vars
  <2>2. LoadGoesOn /\ ImportGoesOn /\ HandsGoOn
    BY <2>1 DEF LoadGoesOn, ImportGoesOn, HandsGoOn, Looks, Importing
  <2> QED
    BY <2>1, <2>2, LookedInPlace
<1> QED
  BY <1>1, LoadsLook, MovesLook, RequestsLook, RepliesLook
  DEF Next, Step, User, Fault, Handler

\* The workspace never says that the open Work is being processed without
\* somebody who will find out when that ends: the effect that loads it, a load,
\* the refresh timer, or a handler that loads it or reports its own failure.
THEOREM NobodyIsLeftRunning == Spec => []RunningIsLookedAfter
<1>1. Init => Places /\ Bundled /\ Looking
  <2> SUFFICES ASSUME Init
               PROVE  Places /\ Bundled /\ Looking
    OBVIOUS
  <2>1. due /\ load = NoLoad /\ op = [k \in Kind |-> NoOp]
    BY DEF Init
  <2>2. Places
    BY <2>1 DEF Places, NoOp
  <2>3. Bundled
    BY <2>1 DEF Bundled, NoLoad, Absent
  <2>4. Looking
    BY <2>1 DEF Looking, Strays, RunningIsLookedAfter
  <2> QED
    BY <2>2, <2>3, <2>4
<1>2. Inv /\ Places /\ Bundled /\ Looking /\ [Next]_vars => Places' /\ Bundled' /\ Looking'
  BY NextKeepsPlaces, NextKeepsBundled, NextKeepsLooking
<1>3. Looking => RunningIsLookedAfter
  BY DEF Looking
<1> QED
  BY <1>1, <1>2, <1>3, SessionIsFine, PTL DEF Spec

=============================================================================
