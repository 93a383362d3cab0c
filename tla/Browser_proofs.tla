--------------------------- MODULE Browser_proofs ---------------------------
(***************************************************************************)
(* Proofs about the player and the wait for a Job (TransportStore and      *)
(* JobTracking, as MCBrowser runs them), for every set of Works, sources   *)
(* and watchers, every length and every budget of requests.                *)
(***************************************************************************)
EXTENDS MCBrowser, WellFoundedInduction, TLAPS

(* The inductive invariant of the player. *)

Listener == [to : 0..Length, resume : BOOLEAN]
Elements == [src : {<<>>} \cup (Recording \X Rank), ready : BOOLEAN, at : 0..Length,
             on : BOOLEAN]
Sides    == [ids : {<<>>} \cup (Rank \X Rank), side : {"A", "B"}]

PlayerTyped ==
  /\ work \in {{}} \cup {{w} : w \in Recording}
  /\ sources \in SUBSET Rank /\ (sources # {} => work # {})
  /\ activeRef \in Rank \cup {0}
  /\ audio \in Elements
  /\ listeners \in Seq(Listener)
  /\ position \in 0..Length /\ wanted \in 0..Length
  /\ isPlaying \in BOOLEAN /\ asked \in BOOLEAN /\ hurried \in BOOLEAN
  /\ loop \in {<<>>, <<0, Length>>}
  /\ pair \in Sides /\ compare \in Sides

\* A Work with sources has one that is active, so a comparison begins with sound.
SourceOK == Transport!ShownSourceIsHeard /\ (sources # {} => shown # 0)

\* A listener is left while the element has no source yet.  Nothing hurried: there
\* is one at most, and it knows the place and whether to play on.  Of positionRef
\* nothing is known: it lags.
PlaceOK ==
  /\ listeners # <<>> => ~audio.ready
  /\ ~hurried =>
       IF listeners = <<>>
       THEN audio.at = wanted /\ (audio.on => asked)
       ELSE /\ Len(listeners) = 1
            /\ listeners[1].to = wanted /\ (listeners[1].resume => asked)
            /\ ~audio.on /\ audio.at = 0

PlayerInv == PlayerTyped /\ SourceOK /\ Transport!CompareIsCoherent /\ PlaceOK

(* The inductive invariant of the wait for a Job. *)

Requests == [phase : {"idle", "sent", "read", "resting"}, owner : Watcher \cup {Nobody},
             failures : 0..MaxFailures, cancelled : BOOLEAN,
             seen : Tracking!Stage \cup {"none"}]

WaitTyped ==
  /\ job \in Tracking!Stage
  /\ query \in Requests
  /\ known \in Tracking!Stage \cup {"none"}
  /\ waiting \in SUBSET Watcher
  /\ attempts \in [Watcher -> 0..MaxAttempts]
  /\ outcome \in [Watcher -> Tracking!Terminal \cup {"none", "connection", "timeout", "aborted"}]
  /\ missed \in Nat

\* A request has an owner who asked, goes on while someone waits, and may be
\* repeated only within its owner's budget; its failures were all missed.
QueryOK ==
  /\ query.phase = "idle" => ~query.cancelled
  /\ query.phase # "idle" =>
       /\ query.owner \in Watcher /\ attempts[query.owner] > 0
       /\ query.cancelled <=> waiting = {}
  /\ query.phase = "read" => query.seen \in Tracking!Stage
  /\ query.phase = "resting" => attempts[query.owner] < MaxAttempts
  /\ query.failures < MaxFailures /\ query.failures <= missed

\* Who has asked waits, or has had an answer; who waits has had none.
BudgetOK ==
  \A w \in Watcher : attempts[w] > 0 => w \in waiting \/ outcome[w] # "none"

WaitInv == WaitTyped /\ QueryOK /\ BudgetOK

----------------------------------------------------------------------------
(* The wait for a Job. *)

LEMMA WaitInit ==
  ASSUME Tracking!Init
  PROVE  WaitInv
BY BrowserAssumption
DEF Tracking!Init, Tracking!Idle, Tracking!TrackingAssumption, Tracking!Stage,
    Tracking!Terminal, WaitInv, WaitTyped, QueryOK, BudgetOK, Requests

\* A request is sent for someone who has budget left.
LEMMA RequestIsSent ==
  ASSUME WaitInv, NEW w \in Watcher, NEW f \in 0..MaxFailures, Tracking!Request(w, f),
         attempts[w] < MaxAttempts
  PROVE  /\ query' \in Requests /\ query'.phase = "sent" /\ query'.owner = w
         /\ query'.failures = f /\ ~query'.cancelled
         /\ attempts' \in [Watcher -> 0..MaxAttempts] /\ attempts'[w] > 0
         /\ \A v \in Watcher \ {w} : attempts'[v] = attempts[v]
<1>1. /\ query' = [Tracking!Idle EXCEPT !.phase = "sent", !.owner = w, !.failures = f]
      /\ attempts' = [attempts EXCEPT ![w] = @ + 1]
  BY DEF Tracking!Request
<1>2. /\ query' \in Requests /\ query'.phase = "sent" /\ query'.owner = w
      /\ query'.failures = f /\ ~query'.cancelled
  BY <1>1 DEF Tracking!Idle, Requests
<1>3. attempts \in [Watcher -> 0..MaxAttempts] /\ MaxAttempts \in Nat
  BY BrowserAssumption DEF WaitInv, WaitTyped, Tracking!TrackingAssumption
<1>4. attempts[w] + 1 \in 0..MaxAttempts /\ attempts[w] + 1 > 0
  BY <1>3
<1> QED
  BY <1>1, <1>2, <1>3, <1>4

\* How the promises of some who wait are settled.
LEMMA SettleKeeps ==
  ASSUME WaitInv, NEW S \in SUBSET waiting,
         NEW how \in [S -> Tracking!Terminal \cup {"connection", "timeout", "aborted"}],
         Tracking!Settle(how)
  PROVE  /\ waiting' = waiting \ S /\ waiting' \in SUBSET Watcher
         /\ outcome' \in [Watcher -> Tracking!Terminal
                                      \cup {"none", "connection", "timeout", "aborted"}]
         /\ \A w \in Watcher \ S : outcome'[w] = outcome[w]
         /\ \A w \in S : outcome'[w] = how[w] /\ outcome'[w] # "none"
BY DEF Tracking!Settle, Tracking!Terminal, WaitInv, WaitTyped

LEMMA WatchKeeps ==
  ASSUME WaitInv, NEW w \in Watcher, Tracking!Watch(w)
  PROVE  WaitInv'
<1>1. /\ w \notin waiting /\ outcome[w] = "none" /\ waiting' = waiting \cup {w}
      /\ UNCHANGED <<job, known, outcome, missed>>
  BY DEF Tracking!Watch
<1>2. attempts[w] = 0 /\ 0 < MaxAttempts /\ 0 \in 0..MaxFailures /\ 0 < MaxFailures
      /\ MaxAttempts \in Nat /\ MaxFailures \in Nat
  BY <1>1, BrowserAssumption DEF Tracking!TrackingAssumption, WaitInv, WaitTyped, BudgetOK
<1>3. CASE query.phase = "idle"
  <2>1. Tracking!Request(w, 0)
    BY <1>3 DEF Tracking!Watch
  <2>2. /\ query' \in Requests /\ query'.phase = "sent" /\ query'.owner = w
        /\ query'.failures = 0 /\ ~query'.cancelled
        /\ attempts' \in [Watcher -> 0..MaxAttempts] /\ attempts'[w] > 0
        /\ \A v \in Watcher \ {w} : attempts'[v] = attempts[v]
    BY <1>2, <2>1, RequestIsSent
  <2>3. WaitTyped'
    BY <1>1, <2>2 DEF WaitInv, WaitTyped
  <2>4. QueryOK'
    BY <1>1, <1>2, <2>2 DEF WaitInv, WaitTyped, QueryOK
  <2>5. BudgetOK'
    BY <1>1, <2>2 DEF WaitInv, BudgetOK
  <2> QED
    BY <2>3, <2>4, <2>5 DEF WaitInv
<1>4. CASE query.phase # "idle"
  <2>1. query' = [query EXCEPT !.cancelled = FALSE] /\ attempts' = attempts
    BY <1>4 DEF Tracking!Watch
  <2> QED
    BY <1>1, <1>4, <2>1 DEF WaitInv, WaitTyped, QueryOK, BudgetOK, Requests
<1> QED
  BY <1>3, <1>4

LEMMA PollKeeps ==
  ASSUME WaitInv, NEW w \in Watcher, Tracking!Poll(w)
  PROVE  WaitInv'
<1>1. /\ w \in waiting /\ attempts[w] < MaxAttempts /\ Tracking!Request(w, 0)
      /\ UNCHANGED <<job, known, waiting, outcome, missed>>
  BY DEF Tracking!Poll
<1>2. 0 \in 0..MaxFailures /\ 0 < MaxFailures
  BY BrowserAssumption DEF Tracking!TrackingAssumption
<1>3. /\ query' \in Requests /\ query'.phase = "sent" /\ query'.owner = w
      /\ query'.failures = 0 /\ ~query'.cancelled
      /\ attempts' \in [Watcher -> 0..MaxAttempts] /\ attempts'[w] > 0
      /\ \A v \in Watcher \ {w} : attempts'[v] = attempts[v]
  BY <1>1, <1>2, RequestIsSent
<1> QED
  BY <1>1, <1>2, <1>3 DEF WaitInv, WaitTyped, QueryOK, BudgetOK

LEMMA RepeatKeeps ==
  ASSUME WaitInv, Tracking!Repeat
  PROVE  WaitInv'
<1>1. /\ query.phase = "resting" /\ ~query.cancelled
      /\ Tracking!Request(query.owner, query.failures)
      /\ UNCHANGED <<job, known, waiting, outcome, missed>>
  BY DEF Tracking!Repeat
<1>2. /\ query.owner \in Watcher /\ attempts[query.owner] < MaxAttempts
      /\ waiting # {} /\ query.failures \in 0..MaxFailures
  BY <1>1 DEF WaitInv, WaitTyped, QueryOK, Requests
<1>3. /\ query' \in Requests /\ query'.phase = "sent" /\ query'.owner = query.owner
      /\ query'.failures = query.failures /\ ~query'.cancelled
      /\ attempts' \in [Watcher -> 0..MaxAttempts] /\ attempts'[query.owner] > 0
      /\ \A v \in Watcher \ {query.owner} : attempts'[v] = attempts[v]
  BY <1>1, <1>2, RequestIsSent
<1> QED
  BY <1>1, <1>2, <1>3 DEF WaitInv, WaitTyped, QueryOK, BudgetOK

\* What the answer, and a query that gives up, tell those who wait.
LEMMA AnswerSettles ==
  ASSUME WaitInv, Tracking!Answer
  PROVE  /\ WaitInv'
         /\ \A w \in Watcher : outcome'[w] # outcome[w] =>
              /\ outcome'[w] # "connection"
              /\ outcome'[w] = "timeout" => attempts[w] = MaxAttempts
<1> DEFINE s == query.seen
           S == Tracking!Satisfied(s)
           how == [w \in S |-> IF s \in Tracking!Terminal THEN s ELSE "timeout"]
<1>1. /\ query.phase = "read" /\ query' = Tracking!Idle /\ known' = s /\ missed' = 0
      /\ Tracking!Settle(how) /\ UNCHANGED <<job, attempts>>
  BY DEF Tracking!Answer
<1>2. S \in SUBSET waiting /\ s \in Tracking!Stage
  BY <1>1 DEF Tracking!Satisfied, WaitInv, QueryOK
<1>3. how \in [S -> Tracking!Terminal \cup {"connection", "timeout", "aborted"}]
  OBVIOUS
<1>4. \A w \in S : how[w] = IF s \in Tracking!Terminal THEN s ELSE "timeout"
  OBVIOUS
<1>5. \A w \in S : s \notin Tracking!Terminal => attempts[w] = MaxAttempts
  BY <1>2, BrowserAssumption
  DEF Tracking!Satisfied, WaitInv, WaitTyped, Tracking!TrackingAssumption
<1> HIDE DEF how, S, s
<1>6. /\ waiting' = waiting \ S /\ waiting' \in SUBSET Watcher
      /\ outcome' \in [Watcher -> Tracking!Terminal
                                   \cup {"none", "connection", "timeout", "aborted"}]
      /\ \A w \in Watcher \ S : outcome'[w] = outcome[w]
      /\ \A w \in S : outcome'[w] = how[w] /\ outcome'[w] # "none"
  BY <1>1, <1>2, <1>3, SettleKeeps
<1>7. WaitTyped' /\ QueryOK'
  BY <1>1, <1>2, <1>6, BrowserAssumption
  DEF WaitInv, WaitTyped, QueryOK, Requests, Tracking!Idle, Tracking!TrackingAssumption
<1>8. BudgetOK'
  BY <1>1, <1>2, <1>6 DEF WaitInv, WaitTyped, BudgetOK
<1>9. ASSUME NEW w \in Watcher, outcome'[w] # outcome[w]
      PROVE  /\ outcome'[w] # "connection"
             /\ outcome'[w] = "timeout" => attempts[w] = MaxAttempts
  <2>1. w \in S
    BY <1>6, <1>9
  <2> QED
    BY <1>4, <1>5, <1>6, <2>1 DEF Tracking!Terminal
<1> QED
  BY <1>7, <1>8, <1>9 DEF WaitInv

\* A query gives up when its failures are too many or its owner's budget is spent.
LEMMA GivesUp ==
  ASSUME WaitInv, NEW failures \in Nat, Tracking!GiveUp(failures),
         query.phase # "idle", UNCHANGED <<job, known, attempts>>,
         missed' \in Nat, failures <= missed' \/ waiting = {},
         failures >= MaxFailures \/ attempts[query.owner] = MaxAttempts \/ waiting = {}
  PROVE  /\ WaitInv' /\ waiting' = {}
         /\ \A w \in Watcher : outcome'[w] # outcome[w] =>
              /\ outcome'[w] = "connection" => missed' >= MaxFailures
              /\ outcome'[w] = "timeout" => attempts[query.owner] = MaxAttempts
<1> DEFINE told == IF failures >= MaxFailures THEN "connection" ELSE "timeout"
           how == [w \in waiting |-> told]
<1>1. query' = Tracking!Idle /\ Tracking!Settle(how)
  BY DEF Tracking!GiveUp
<1>2. /\ how \in [waiting -> Tracking!Terminal \cup {"connection", "timeout", "aborted"}]
      /\ \A w \in waiting : how[w] = told
  OBVIOUS
<1> HIDE DEF how
<1>3. /\ waiting' = waiting \ waiting
      /\ outcome' \in [Watcher -> Tracking!Terminal
                                   \cup {"none", "connection", "timeout", "aborted"}]
      /\ \A w \in Watcher \ waiting : outcome'[w] = outcome[w]
      /\ \A w \in waiting : outcome'[w] = how[w] /\ outcome'[w] # "none"
  BY <1>1, <1>2, SettleKeeps
<1>4. WaitTyped' /\ QueryOK'
  BY <1>1, <1>3, BrowserAssumption
  DEF WaitInv, WaitTyped, QueryOK, Requests, Tracking!Idle, Tracking!TrackingAssumption
<1>5. BudgetOK'
  BY <1>3 DEF WaitInv, WaitTyped, BudgetOK
<1>6. ASSUME NEW w \in Watcher, outcome'[w] # outcome[w]
      PROVE  /\ outcome'[w] = "connection" => missed' >= MaxFailures
             /\ outcome'[w] = "timeout" => attempts[query.owner] = MaxAttempts
  <2>1. w \in waiting /\ outcome'[w] = told
    BY <1>2, <1>3, <1>6
  <2>2. MaxFailures \in Nat
    BY BrowserAssumption DEF Tracking!TrackingAssumption
  <2> QED
    BY <2>1, <2>2
<1> QED
  BY <1>3, <1>4, <1>5, <1>6 DEF WaitInv

LEMMA FailSettles ==
  ASSUME WaitInv, Tracking!Fail \/ Tracking!Abandon
  PROVE  /\ WaitInv'
         /\ \A w \in Watcher : outcome'[w] # outcome[w] =>
              /\ outcome'[w] = "connection" => missed' >= MaxFailures
              /\ outcome'[w] = "timeout" => \E v \in Watcher : attempts[v] = MaxAttempts
<1>0. /\ query \in Requests /\ query.failures \in Nat /\ missed \in Nat
      /\ query.failures < MaxFailures /\ query.failures <= missed
      /\ MaxFailures \in Nat /\ MaxAttempts \in Nat
      /\ \A w \in Watcher : attempts[w] \in Nat /\ attempts[w] <= MaxAttempts
  BY BrowserAssumption
  DEF WaitInv, WaitTyped, QueryOK, Requests, Tracking!TrackingAssumption
<1>1. CASE Tracking!Fail
  <2>1. /\ query.phase \in {"sent", "read"} /\ missed' = missed + 1
        /\ UNCHANGED <<job, known, attempts>>
        /\ query.owner \in Watcher /\ (query.cancelled <=> waiting = {})
    BY <1>1 DEF Tracking!Fail, WaitInv, QueryOK
  <2>2. CASE Tracking!Repeats(query.failures) /\ ~query.cancelled
    <3>1. /\ query' = [query EXCEPT !.phase = "resting", !.failures = @ + 1, !.seen = "none"]
          /\ UNCHANGED <<waiting, outcome>>
      BY <1>1, <2>2 DEF Tracking!Fail
    <3>2. attempts[query.owner] < MaxAttempts /\ query.failures + 1 < MaxFailures
      BY <1>0, <2>2 DEF Tracking!Repeats
    <3>3. /\ query' \in Requests /\ query'.phase = "resting" /\ query'.owner = query.owner
          /\ query'.failures = query.failures + 1 /\ query'.cancelled = query.cancelled
      <4>1. query.failures + 1 \in 0..MaxFailures
        BY <1>0, <3>2
      <4> QED
        BY <1>0, <3>1, <4>1 DEF Requests
    <3>4. WaitTyped'
      BY <1>0, <2>1, <3>1, <3>3 DEF WaitInv, WaitTyped
    <3>5. QueryOK'
      BY <1>0, <2>1, <3>1, <3>2, <3>3 DEF WaitInv, QueryOK
    <3>6. BudgetOK'
      BY <2>1, <3>1 DEF WaitInv, BudgetOK
    <3> QED
      BY <3>1, <3>4, <3>5, <3>6 DEF WaitInv
  <2>3. CASE ~(Tracking!Repeats(query.failures) /\ ~query.cancelled)
    <3>1. Tracking!GiveUp(query.failures + 1)
      BY <1>1, <2>3 DEF Tracking!Fail
    <3>2. \/ query.failures + 1 >= MaxFailures \/ attempts[query.owner] = MaxAttempts
          \/ waiting = {}
      BY <1>0, <2>1, <2>3 DEF Tracking!Repeats
    <3>3. query.failures + 1 \in Nat /\ query.failures + 1 <= missed' /\ missed' \in Nat
      BY <1>0, <2>1
    <3> QED
      BY <2>1, <3>1, <3>2, <3>3, GivesUp
  <2> QED
    BY <2>2, <2>3
<1>2. CASE Tracking!Abandon
  <2>1. /\ query.phase = "resting" /\ Tracking!GiveUp(query.failures + 1) /\ waiting = {}
        /\ UNCHANGED <<job, known, attempts, missed>> /\ query.owner \in Watcher
    BY <1>2 DEF Tracking!Abandon, WaitInv, QueryOK
  <2>2. query.failures + 1 \in Nat
    BY <1>0
  <2> QED
    BY <1>0, <2>1, <2>2, GivesUp
<1> QED
  BY <1>1, <1>2

LEMMA AbortKeeps ==
  ASSUME WaitInv, NEW w \in Watcher, Tracking!Abort(w)
  PROVE  /\ WaitInv'
         /\ \A v \in Watcher : outcome'[v] # outcome[v] => outcome'[v] = "aborted"
<1> DEFINE how == [v \in {w} |-> "aborted"]
<1>1. /\ w \in waiting /\ Tracking!Settle(how) /\ UNCHANGED <<job, known, attempts, missed>>
      /\ query' = IF query.phase = "idle" THEN query
                  ELSE IF waiting \ {w} = {} THEN [query EXCEPT !.cancelled = TRUE] ELSE query
  BY DEF Tracking!Abort, Tracking!Unwatched
<1>2. /\ how \in [{w} -> Tracking!Terminal \cup {"connection", "timeout", "aborted"}]
      /\ how[w] = "aborted" /\ {w} \in SUBSET waiting
  BY <1>1
<1> HIDE DEF how
<1>3. /\ waiting' = waiting \ {w} /\ waiting' \in SUBSET Watcher
      /\ outcome' \in [Watcher -> Tracking!Terminal
                                   \cup {"none", "connection", "timeout", "aborted"}]
      /\ \A v \in Watcher \ {w} : outcome'[v] = outcome[v]
      /\ outcome'[w] = "aborted"
  BY <1>1, <1>2, SettleKeeps
<1>4. WaitTyped' /\ QueryOK'
  BY <1>1, <1>3 DEF WaitInv, WaitTyped, QueryOK, Requests
<1>5. BudgetOK'
  BY <1>1, <1>3 DEF WaitInv, WaitTyped, BudgetOK
<1> QED
  BY <1>3, <1>4, <1>5 DEF WaitInv

LEMMA ServerKeeps ==
  ASSUME WaitInv, Tracking!ServerReads \/ Tracking!JobEnds
  PROVE  WaitInv' /\ outcome' = outcome /\ attempts' = attempts
BY DEF Tracking!ServerReads, Tracking!JobEnds, Tracking!Stage, WaitInv, WaitTyped, QueryOK,
       BudgetOK, Requests

\* One step: the invariant, who is told what, and for whom a status is asked.
LEMMA WaitSteps ==
  ASSUME WaitInv, Tracking!Next
  PROVE  /\ WaitInv'
         /\ \A w \in Watcher : outcome'[w] # outcome[w] =>
              /\ outcome'[w] = "connection" => missed' >= MaxFailures
              /\ outcome'[w] = "timeout" => \E v \in Watcher : attempts[v] = MaxAttempts
         /\ attempts' # attempts => waiting' # {}
<1>1. ASSUME NEW w \in Watcher, Tracking!Watch(w)
      PROVE  WaitInv' /\ outcome' = outcome /\ waiting' # {}
  BY <1>1, WatchKeeps DEF Tracking!Watch
<1>2. ASSUME NEW w \in Watcher, Tracking!Poll(w)
      PROVE  WaitInv' /\ outcome' = outcome /\ waiting' # {}
  BY <1>2, PollKeeps DEF Tracking!Poll
<1>3. CASE Tracking!Repeat
  <2>1. waiting' # {}
    BY <1>3 DEF Tracking!Repeat, WaitInv, QueryOK
  <2> QED
    BY <1>3, <2>1, RepeatKeeps DEF Tracking!Repeat
<1>4. CASE Tracking!Answer
  BY <1>4, AnswerSettles DEF Tracking!Answer
<1>5. CASE Tracking!Fail \/ Tracking!Abandon
  BY <1>5, FailSettles DEF Tracking!Fail, Tracking!Abandon
<1>6. ASSUME NEW w \in Watcher, Tracking!Abort(w)
      PROVE  /\ WaitInv' /\ attempts' = attempts
             /\ \A v \in Watcher : outcome'[v] # outcome[v] => outcome'[v] = "aborted"
  BY <1>6, AbortKeeps DEF Tracking!Abort
<1>7. CASE Tracking!ServerReads \/ Tracking!JobEnds
  BY <1>7, ServerKeeps
<1> QED
  BY <1>1, <1>2, <1>3, <1>4, <1>5, <1>6, <1>7 DEF Tracking!Next, Tracking!Step

----------------------------------------------------------------------------
(* The player. *)

LEMMA LeastExists ==
  ASSUME NEW S \in SUBSET Nat, S # {}
  PROVE  \E m \in S : \A s \in S : m <= s
<1> DEFINE R == OpToRel(<, Nat)
<1>1. \A x, y \in Nat : <<x, y>> \in R <=> x < y
  BY DEF OpToRel
<1>2. IsWellFoundedOn(R, Nat)
  BY NatLessThanWellFounded
<1> HIDE DEF R
<1>3. PICK m \in S : \A s \in S : ~ (<<s, m>> \in R)
  BY <1>2, WFMin
<1>4. ASSUME NEW s \in S
      PROVE  m <= s
  <2>1. s \in Nat /\ m \in Nat /\ ~ (s < m)
    BY <1>1, <1>3
  <2> QED
    BY <2>1
<1> QED
  BY <1>4

LEMMA PlayerConstants ==
  /\ Length \in Nat /\ 0 < Length /\ 0 \in 0..Length /\ Length \in 0..Length
  /\ MaxWaiting \in Nat /\ 0 < MaxWaiting
  /\ \A r \in Rank : r \in Nat /\ r # 0
BY BrowserAssumption DEF Transport!TransportAssumption

\* The default source is the first of the list, and there is one if any is listed.
LEMMA FirstIsListed ==
  ASSUME NEW S \in SUBSET Rank
  PROVE  /\ S = {} => Transport!First(S) = 0
         /\ S # {} => Transport!First(S) \in S /\ Transport!First(S) # 0
<1>1. CASE S = {}
  BY <1>1 DEF Transport!First
<1>2. CASE S # {}
  <2>1. S \in SUBSET Nat
    BY PlayerConstants
  <2>2. PICK m \in S : \A s \in S : m <= s
    BY <1>2, <2>1, LeastExists
  <2>3. Transport!First(S) = CHOOSE r \in S : \A s \in S : r <= s
    BY <1>2 DEF Transport!First
  <2>4. Transport!First(S) \in S
    BY <2>2, <2>3
  <2> QED
    BY <1>2, <2>4, PlayerConstants
<1> QED
  BY <1>1, <1>2

LEMMA WorkIsChosen ==
  ASSUME PlayerTyped, work # {}
  PROVE  (CHOOSE w \in work : TRUE) \in Recording
BY DEF PlayerTyped

\* What a new source leaves of the element.
LEMMA LoadingIsTyped ==
  ASSUME NEW w \in Recording, NEW r \in Rank
  PROVE  /\ Transport!Loading(<<w, r>>) \in Elements
         /\ Transport!Loading(<<w, r>>).src = <<w, r>>
         /\ ~Transport!Loading(<<w, r>>).ready /\ ~Transport!Loading(<<w, r>>).on
         /\ Transport!Loading(<<w, r>>).at = 0
         /\ Transport!Silent \in Elements
BY PlayerConstants DEF Transport!Loading, Transport!Silent, Elements

LEMMA SilentIsTyped ==
  /\ Transport!Silent \in Elements /\ Transport!Silent.src = <<>> /\ ~Transport!Silent.ready
  /\ Transport!Silent.at = 0 /\ ~Transport!Silent.on
  /\ Transport!Alone \in Sides /\ Transport!Alone.ids = <<>>
BY PlayerConstants DEF Transport!Silent, Transport!Alone, Elements, Sides

LEMMA PlayerInit ==
  ASSUME Transport!Init
  PROVE  PlayerInv
<1> USE DEF Transport!Init
<1>1. PlayerTyped
  <2>1. listeners \in Seq(Listener)
    OBVIOUS
  <2>2. audio \in Elements /\ pair \in Sides /\ compare \in Sides
    BY SilentIsTyped
  <2>3. position \in 0..Length /\ wanted \in 0..Length
    BY PlayerConstants
  <2> QED
    BY <2>1, <2>2, <2>3 DEF PlayerTyped
<1>2. SourceOK
  BY SilentIsTyped DEF SourceOK, Transport!ShownSourceIsHeard
<1>3. Transport!CompareIsCoherent
  BY SilentIsTyped DEF Transport!CompareIsCoherent
<1>4. PlaceOK
  BY SilentIsTyped DEF PlaceOK
<1> QED
  BY <1>1, <1>2, <1>3, <1>4 DEF PlayerInv

\* A listener more: the first one knows the place, the second makes it a hurry.
LEMMA ListenerIsAdded ==
  ASSUME PlayerTyped, NEW n \in Listener, listeners' = Append(listeners, n)
  PROVE  /\ listeners' \in Seq(Listener) /\ listeners' # <<>>
         /\ listeners = <<>> => Len(listeners') = 1 /\ listeners'[1] = n
BY DEF PlayerTyped

\* A switch: the element, the listener it is left, and the source that is active.
LEMMA SwitchKeeps ==
  ASSUME PlayerInv, NEW r \in Rank, Transport!Switch(r), work # {},
         UNCHANGED <<work, position, wanted, asked>>
  PROVE  /\ activeRef' = r /\ audio' \in Elements /\ isPlaying' \in BOOLEAN
         /\ audio'.src = <<CHOOSE w \in work : TRUE, r>>
         /\ listeners' \in Seq(Listener) /\ hurried' \in BOOLEAN
         /\ PlaceOK'
<1> DEFINE n == Transport!Resume
<1>1. /\ audio' = Transport!Loading(<<CHOOSE w \in work : TRUE, r>>)
      /\ listeners' = Append(listeners, n) /\ activeRef' = r /\ isPlaying' = audio.on
      /\ hurried' = (hurried \/ listeners # <<>>)
  BY DEF Transport!Switch, Transport!Hurry
<1>2. n \in Listener /\ n.to = audio.at /\ n.resume = audio.on
  BY DEF Transport!Resume, PlayerInv, PlayerTyped, Elements, Listener
<1>3. /\ audio' \in Elements /\ audio'.src = <<CHOOSE w \in work : TRUE, r>>
      /\ ~audio'.ready /\ ~audio'.on /\ audio'.at = 0
  BY <1>1, WorkIsChosen, LoadingIsTyped DEF PlayerInv
<1> HIDE DEF n
<1>4. /\ listeners' \in Seq(Listener) /\ listeners' # <<>>
      /\ listeners = <<>> => Len(listeners') = 1 /\ listeners'[1] = n
  BY <1>1, <1>2, ListenerIsAdded DEF PlayerInv
<1>5. hurried' \in BOOLEAN /\ isPlaying' \in BOOLEAN
  BY <1>1 DEF PlayerInv, PlayerTyped, Elements
<1>6. PlaceOK'
  <2>1. ~hurried' => listeners = <<>> /\ ~hurried
    BY <1>1
  <2>2. ~hurried' => audio.at = wanted /\ (audio.on => asked)
    BY <2>1 DEF PlayerInv, PlaceOK
  <2> QED
    BY <1>2, <1>3, <1>4, <2>1, <2>2 DEF PlaceOK
<1> QED
  BY <1>1, <1>3, <1>4, <1>5, <1>6

LEMMA SourceStays ==
  ASSUME SourceOK, UNCHANGED <<work, sources, activeRef, shown>>, audio'.src = audio.src
  PROVE  SourceOK'
BY DEF SourceOK, Transport!ShownSourceIsHeard

LEMMA CompareStays ==
  ASSUME Transport!CompareIsCoherent, UNCHANGED <<sources, pair, compare>>
  PROVE  Transport!CompareIsCoherent'
BY DEF Transport!CompareIsCoherent

\* A source that becomes the active one, of the Work that is open.
LEMMA SourceMoves ==
  ASSUME SourceOK, UNCHANGED work, activeRef' = shown', shown' # 0,
         audio'.src = <<CHOOSE w \in work : TRUE, shown'>>
  PROVE  SourceOK'
BY DEF SourceOK, Transport!ShownSourceIsHeard

\* Clearing, or refreshing away, the comparison.
LEMMA AloneIsCoherent ==
  ASSUME PlayerTyped, pair' = Transport!Alone,
         compare' \in {Transport!Alone, [compare EXCEPT !.ids = <<>>]}
  PROVE  Transport!CompareIsCoherent' /\ pair' \in Sides /\ compare' \in Sides
<1>1. compare' \in Sides /\ compare'.ids = <<>>
  BY SilentIsTyped DEF PlayerTyped, Sides
<1> QED
  BY <1>1, SilentIsTyped DEF Transport!CompareIsCoherent

(* The element. *)

LEMMA MetadataKeeps ==
  ASSUME PlayerInv, Transport!Metadata
  PROVE  PlayerInv'
<1> USE DEF PlayerInv
<1> DEFINE there  == IF listeners = <<>> THEN audio.at
                     ELSE Transport!Earlier(listeners[Len(listeners)].to, Length)
           resume == \E i \in DOMAIN listeners : listeners[i].resume
<1>1. /\ audio' = [audio EXCEPT !.ready = TRUE, !.at = there, !.on = @ \/ resume]
      /\ isPlaying' = (isPlaying \/ resume) /\ listeners' = <<>>
      /\ UNCHANGED <<work, sources, activeRef, shown, position, loop, pair, compare, wanted,
                     asked, hurried>>
  BY DEF Transport!Metadata, Transport!compared, Transport!history
<1>2. audio \in Elements /\ wanted \in 0..Length /\ listeners \in Seq(Listener)
  BY DEF PlayerTyped
<1>3. there \in 0..Length /\ resume \in BOOLEAN
  <2>1. CASE listeners = <<>>
    BY <1>2, <2>1 DEF Elements
  <2>2. CASE listeners # <<>>
    <3>1. listeners[Len(listeners)] \in Listener
      BY <1>2, <2>2
    <3> QED
      BY <2>2, <3>1, PlayerConstants DEF Transport!Earlier, Listener
  <2> QED
    BY <2>1, <2>2
<1>4. ~hurried => there = wanted /\ (audio.on \/ resume => asked)
  <2>1. CASE listeners = <<>>
    BY <2>1 DEF PlaceOK
  <2>2. CASE listeners # <<>> /\ ~hurried
    <3>1. Len(listeners) = 1 /\ listeners[1].to = wanted /\ (listeners[1].resume => asked)
          /\ ~audio.on
      BY <2>2 DEF PlaceOK
    <3>2. DOMAIN listeners = {1}
      BY <1>2, <3>1
    <3> QED
      BY <1>2, <2>2, <3>1, <3>2, PlayerConstants DEF Transport!Earlier
  <2> QED
    BY <2>1, <2>2
<1> HIDE DEF there, resume
<1>5. audio' \in Elements /\ audio'.src = audio.src /\ audio'.at = there
      /\ audio'.on = (audio.on \/ resume)
  BY <1>1, <1>2, <1>3 DEF Elements
<1>6. PlayerTyped'
  <2>1. listeners' \in Seq(Listener)
    BY <1>1
  <2> QED
    BY <1>1, <1>3, <1>5, <2>1 DEF PlayerTyped
<1>7. PlaceOK'
  BY <1>1, <1>4, <1>5 DEF PlaceOK
<1> QED
  BY <1>1, <1>5, <1>6, <1>7, SourceStays, CompareStays

LEMMA OnTimeKeeps ==
  ASSUME PlayerInv, NEW t \in 0..Length, Transport!OnTime(t),
         t = audio.at \/ listeners = <<>>
  PROVE  PlayerInv'
<1> USE DEF PlayerInv
<1> DEFINE back == loop # <<>> /\ t >= loop[2]
           to == IF back THEN loop[1] ELSE t
<1>1. /\ audio' = [audio EXCEPT !.at = to] /\ position' = t
      /\ wanted' = IF back \/ to # audio.at THEN to ELSE wanted
      /\ UNCHANGED <<work, sources, activeRef, shown, listeners, isPlaying, loop, pair,
                     compare, asked, hurried>>
  BY DEF Transport!OnTime, Transport!compared
<1>2. audio \in Elements /\ wanted \in 0..Length /\ loop \in {<<>>, <<0, Length>>}
  BY DEF PlayerTyped
<1>3. to \in 0..Length /\ (back => t = Length)
  <2>1. CASE loop = <<>>
    BY <2>1
  <2>2. CASE loop = <<0, Length>>
    <3>1. loop[1] = 0 /\ loop[2] = Length /\ t \in Nat /\ t <= Length
      BY <2>2, PlayerConstants
    <3> QED
      BY <3>1, PlayerConstants
  <2> QED
    BY <1>2, <2>1, <2>2
<1>4. audio.at = 0 /\ t = audio.at => ~back /\ to = 0
  BY <1>3, PlayerConstants
<1>5. ~back => to = t
  OBVIOUS
<1> HIDE DEF back, to
<1>6. audio' \in Elements /\ audio'.src = audio.src /\ audio'.at = to /\ audio'.on = audio.on
      /\ audio'.ready = audio.ready
  BY <1>1, <1>2, <1>3 DEF Elements
<1>7. PlayerTyped'
  BY <1>1, <1>2, <1>3, <1>6 DEF PlayerTyped
<1>8. PlaceOK'
  <2>1. CASE listeners = <<>>
    BY <1>1, <1>6, <2>1 DEF PlaceOK
  <2>2. CASE listeners # <<>>
    BY <1>1, <1>4, <1>6, <2>2 DEF PlaceOK
  <2> QED
    BY <2>1, <2>2
<1> QED
  BY <1>1, <1>6, <1>7, <1>8, SourceStays, CompareStays

LEMMA ElementKeeps ==
  ASSUME PlayerInv, Transport!Tick \/ Transport!TimeUpdate \/ Transport!Ended
  PROVE  PlayerInv'
<1>0. audio \in Elements /\ audio.at \in 0..Length
  BY DEF PlayerInv, PlayerTyped, Elements
<1>1. CASE Transport!Tick
  <2>1. audio.at + 1 \in 0..Length /\ audio.ready /\ Transport!OnTime(audio.at + 1)
    BY <1>0, <1>1, PlayerConstants DEF Transport!Tick
  <2>2. listeners = <<>>
    BY <2>1 DEF PlayerInv, PlaceOK
  <2> QED
    BY <2>1, <2>2, OnTimeKeeps
<1>2. CASE Transport!TimeUpdate
  BY <1>0, <1>2, OnTimeKeeps DEF Transport!TimeUpdate
<1>3. CASE Transport!Ended
  <2> USE DEF PlayerInv
  <2>1. /\ audio' = [audio EXCEPT !.on = FALSE] /\ audio.ready
        /\ isPlaying' = FALSE /\ asked' = FALSE
        /\ UNCHANGED <<work, sources, activeRef, shown, listeners, position, loop, pair,
                       compare, wanted, hurried>>
    BY <1>3 DEF Transport!Ended, Transport!compared
  <2>2. audio' \in Elements /\ audio'.src = audio.src /\ audio'.at = audio.at /\ ~audio'.on
    BY <1>0, <2>1 DEF Elements
  <2>3. PlayerTyped'
    BY <2>1, <2>2 DEF PlayerTyped
  <2>4. PlaceOK'
    BY <2>1, <2>2 DEF PlaceOK
  <2> QED
    BY <2>1, <2>2, <2>3, <2>4, SourceStays, CompareStays
<1> QED
  BY <1>1, <1>2, <1>3

(* The controls. *)

\* A control gives the element a place and says whether it plays; while a listener
\* is left, that is a hurry.
LEMMA ControlKeeps ==
  ASSUME PlayerInv, NEW place \in 0..Length, NEW on \in BOOLEAN,
         audio' = [audio EXCEPT !.at = place, !.on = on],
         position' \in 0..Length,
         wanted' = place \/ (place = audio.at /\ wanted' = wanted),
         isPlaying' \in BOOLEAN, asked' \in BOOLEAN,
         (on => asked') \/ (on = audio.on /\ asked' = asked),
         Transport!Hurry,
         UNCHANGED <<work, sources, activeRef, shown, listeners, loop, pair, compare>>
  PROVE  PlayerInv'
<1> USE DEF PlayerInv
<1>1. audio \in Elements /\ hurried' = (hurried \/ listeners # <<>>) /\ hurried \in BOOLEAN
  BY DEF PlayerTyped, Transport!Hurry
<1>2. audio' \in Elements /\ audio'.src = audio.src /\ audio'.at = place /\ audio'.on = on
      /\ audio'.ready = audio.ready
  BY <1>1 DEF Elements
<1>3. PlayerTyped'
  BY <1>1, <1>2 DEF PlayerTyped
<1>4. PlaceOK'
  <2>1. listeners' # <<>> => ~audio'.ready
    BY <1>2 DEF PlaceOK
  <2>2. ASSUME ~hurried'
        PROVE  /\ listeners' = <<>> /\ audio'.at = wanted'
               /\ audio'.on => asked'
    <3>1. listeners = <<>> /\ ~hurried
      BY <1>1, <2>2
    <3>2. audio.at = wanted /\ (audio.on => asked)
      BY <3>1 DEF PlaceOK
    <3> QED
      BY <1>2, <3>1, <3>2
  <2> QED
    BY <2>1, <2>2 DEF PlaceOK
<1> QED
  BY <1>2, <1>3, <1>4, SourceStays, CompareStays

LEMMA ControlsKeep ==
  ASSUME PlayerInv, \/ \E allowed \in BOOLEAN : Transport!Play(allowed)
                    \/ Transport!Pause \/ Transport!Stop
                    \/ \E t \in 0..Length : Transport!Seek(t)
                    \/ \E bounds \in {<<>>, <<0, Length>>} : Transport!SetLoop(bounds)
  PROVE  PlayerInv'
<1>0. audio \in Elements /\ audio.at \in 0..Length /\ audio.on \in BOOLEAN
      /\ isPlaying \in BOOLEAN /\ asked \in BOOLEAN /\ position \in 0..Length
  BY DEF PlayerInv, PlayerTyped, Elements
<1>1. ASSUME NEW allowed \in BOOLEAN, Transport!Play(allowed)
      PROVE  PlayerInv'
  <2> DEFINE restart == allowed /\ audio.ready /\ audio.at = Length
             place == IF restart THEN 0 ELSE audio.at
  <2>1. /\ audio' = [audio EXCEPT !.on = allowed, !.at = place]
        /\ wanted' = IF restart THEN 0 ELSE wanted
        /\ isPlaying' = allowed /\ asked' = allowed /\ Transport!Hurry
        /\ UNCHANGED <<work, sources, activeRef, shown, listeners, position, loop, pair,
                       compare>>
    BY <1>1 DEF Transport!Play, Transport!compared
  <2>2. place \in 0..Length
    BY <1>0, PlayerConstants
  <2>3. audio' = [audio EXCEPT !.at = place, !.on = allowed]
    BY <1>0, <2>1 DEF Elements
  <2>4. wanted' = place \/ (place = audio.at /\ wanted' = wanted)
    BY <2>1
  <2> HIDE DEF place
  <2> QED
    BY <1>0, <2>1, <2>2, <2>3, <2>4, ControlKeeps
<1>2. CASE Transport!Pause
  <2>1. /\ audio' = [audio EXCEPT !.on = FALSE]
        /\ isPlaying' = FALSE /\ asked' = FALSE /\ Transport!Hurry
        /\ UNCHANGED <<work, sources, activeRef, shown, listeners, position, loop, pair,
                       compare, wanted>>
    BY <1>2 DEF Transport!Pause, Transport!compared
  <2>2. audio' = [audio EXCEPT !.at = audio.at, !.on = FALSE]
    BY <1>0, <2>1 DEF Elements
  <2> QED
    BY <1>0, <2>1, <2>2, ControlKeeps
<1>3. CASE Transport!Stop
  <2>1. /\ audio' = [audio EXCEPT !.on = FALSE, !.at = 0]
        /\ isPlaying' = FALSE /\ asked' = FALSE /\ Transport!Hurry
        /\ position' = 0 /\ wanted' = 0
        /\ UNCHANGED <<work, sources, activeRef, shown, listeners, loop, pair, compare>>
    BY <1>3 DEF Transport!Stop, Transport!compared
  <2>2. audio' = [audio EXCEPT !.at = 0, !.on = FALSE]
    BY <1>0, <2>1 DEF Elements
  <2> QED
    BY <2>1, <2>2, PlayerConstants, ControlKeeps
<1>4. ASSUME NEW t \in 0..Length, Transport!Seek(t)
      PROVE  PlayerInv'
  <2>1. /\ audio' = [audio EXCEPT !.at = t] /\ position' = t /\ wanted' = t
        /\ Transport!Hurry
        /\ UNCHANGED <<work, sources, activeRef, shown, listeners, isPlaying, loop, pair,
                       compare, asked>>
    BY <1>4 DEF Transport!Seek, Transport!compared
  <2>2. audio' = [audio EXCEPT !.at = t, !.on = audio.on]
    BY <1>0, <2>1 DEF Elements
  <2> QED
    BY <1>0, <2>1, <2>2, ControlKeeps
<1>5. ASSUME NEW bounds \in {<<>>, <<0, Length>>}, Transport!SetLoop(bounds)
      PROVE  PlayerInv'
  <2> USE DEF PlayerInv
  <2>1. /\ loop' = bounds
        /\ UNCHANGED <<work, sources, activeRef, shown, audio, listeners, position, isPlaying,
                       pair, compare, wanted, asked, hurried>>
    BY <1>5 DEF Transport!SetLoop, Transport!compared, Transport!history
  <2>2. PlayerTyped' /\ PlaceOK'
    BY <2>1 DEF PlayerTyped, PlaceOK
  <2> QED
    BY <2>1, <2>2, SourceStays, CompareStays
<1> QED
  BY <1>1, <1>2, <1>3, <1>4, <1>5

(* The sources. *)

LEMMA OpenKeeps ==
  ASSUME PlayerInv, NEW w \in Recording, NEW S \in SUBSET Rank, Transport!OpenSources(w, S)
  PROVE  PlayerInv'
<1> USE DEF PlayerInv
<1> DEFINE first == Transport!First(S)
<1>1. /\ work' = {w} /\ sources' = S /\ activeRef' = first /\ shown' = first
      /\ audio' = IF first = 0 THEN Transport!Silent ELSE Transport!Loading(<<w, first>>)
      /\ position' = 0 /\ isPlaying' = FALSE /\ loop' = <<>>
      /\ pair' = Transport!Alone /\ compare' = [compare EXCEPT !.ids = <<>>]
      /\ wanted' = 0 /\ asked' = FALSE /\ listeners' = listeners
      /\ hurried' = (hurried \/ listeners # <<>>)
  BY DEF Transport!OpenSources, Transport!Hurry
<1>2. /\ S # {} => first # 0
      /\ first # 0 => first \in Rank
      /\ first \in Rank \cup {0}
  BY FirstIsListed
<1> HIDE DEF first
<1>3. /\ audio' \in Elements /\ ~audio'.ready /\ ~audio'.on /\ audio'.at = 0
      /\ audio'.src = IF first = 0 THEN <<>> ELSE <<w, first>>
  BY <1>1, <1>2, SilentIsTyped, LoadingIsTyped
<1>4. Transport!CompareIsCoherent' /\ pair' \in Sides /\ compare' \in Sides
  BY <1>1, AloneIsCoherent
<1>5. SourceOK'
  <2>1. (CHOOSE x \in work' : TRUE) = w
    BY <1>1
  <2> QED
    BY <1>1, <1>2, <1>3, <2>1 DEF SourceOK, Transport!ShownSourceIsHeard
<1>6. PlayerTyped'
  <2>1. position' \in 0..Length /\ wanted' \in 0..Length
    BY <1>1, PlayerConstants
  <2>2. /\ work' \in {{}} \cup {{x} : x \in Recording} /\ work' # {} /\ sources' \in SUBSET Rank
        /\ activeRef' \in Rank \cup {0}
    BY <1>1, <1>2
  <2>3. listeners' \in Seq(Listener) /\ hurried' \in BOOLEAN
    BY <1>1 DEF PlayerTyped
  <2> QED
    BY <1>1, <1>3, <1>4, <2>1, <2>2, <2>3 DEF PlayerTyped
<1>7. PlaceOK'
  BY <1>1, <1>3 DEF PlaceOK
<1> QED
  BY <1>4, <1>5, <1>6, <1>7

LEMMA ClearKeeps ==
  ASSUME PlayerInv, Transport!ClearActiveSource
  PROVE  PlayerInv'
<1> USE DEF PlayerInv
<1>1. /\ work' = {} /\ sources' = {} /\ activeRef' = 0 /\ shown' = 0
      /\ audio' = Transport!Silent
      /\ position' = 0 /\ isPlaying' = FALSE /\ loop' = <<>>
      /\ pair' = Transport!Alone /\ compare' = Transport!Alone
      /\ wanted' = 0 /\ asked' = FALSE /\ listeners' = listeners
      /\ hurried' = (hurried \/ listeners # <<>>)
  BY DEF Transport!ClearActiveSource, Transport!Hurry
<1>2. /\ audio' \in Elements /\ ~audio'.ready /\ ~audio'.on /\ audio'.at = 0
      /\ audio'.src = <<>>
  BY <1>1, SilentIsTyped
<1>3. Transport!CompareIsCoherent' /\ pair' \in Sides /\ compare' \in Sides
  BY <1>1, AloneIsCoherent
<1>4. SourceOK'
  BY <1>1, <1>2 DEF SourceOK, Transport!ShownSourceIsHeard
<1>5. PlayerTyped'
  <2>1. position' \in 0..Length /\ wanted' \in 0..Length
    BY <1>1, PlayerConstants
  <2>2. listeners' \in Seq(Listener) /\ hurried' \in BOOLEAN
    BY <1>1 DEF PlayerTyped
  <2> QED
    BY <1>1, <1>2, <1>3, <2>1, <2>2 DEF PlayerTyped
<1>6. PlaceOK'
  BY <1>1, <1>2 DEF PlaceOK
<1> QED
  BY <1>3, <1>4, <1>5, <1>6

\* The comparison after a refresh.
LEMMA RefreshedPair ==
  ASSUME PlayerInv, NEW S \in SUBSET Rank, Transport!RefreshSources(S)
  PROVE  Transport!CompareIsCoherent' /\ pair' \in Sides /\ compare' \in Sides
<1> USE DEF PlayerInv
<1>1. CASE Transport!PairIn(S) /\ UNCHANGED <<pair, compare>>
  BY <1>1 DEF Transport!RefreshSources, Transport!PairIn, Transport!CompareIsCoherent, PlayerTyped
<1>2. CASE pair' = Transport!Alone /\ compare' = [compare EXCEPT !.ids = <<>>]
  BY <1>2, AloneIsCoherent
<1> QED
  BY <1>1, <1>2 DEF Transport!RefreshSources, Transport!compared

\* The open Work is loaded again: the source that was heard is kept if it still is
\* listed; another one goes on from the place that was last told; and with none
\* left the place is given up.
LEMMA RefreshKeeps ==
  ASSUME PlayerInv, NEW S \in SUBSET Rank, Transport!RefreshSources(S)
  PROVE  PlayerInv'
<1> USE DEF PlayerInv
<1> DEFINE kept == Transport!Kept(S)
           n == [to |-> position, resume |-> audio.on]
<1>1. /\ work # {} /\ sources' = S /\ activeRef' = kept /\ shown' = kept
      /\ isPlaying' = audio.on
      /\ UNCHANGED <<work, position, loop, asked>>
  BY DEF Transport!RefreshSources
<1>2. /\ S = {} => kept = 0
      /\ S # {} => kept \in S /\ kept \in Rank /\ kept # 0
      /\ kept \in Rank \cup {0}
  BY FirstIsListed, PlayerConstants DEF Transport!Kept
<1>3. /\ Transport!CompareIsCoherent' /\ pair' \in Sides /\ compare' \in Sides
  BY RefreshedPair
<1>4. \/ S # {} /\ kept = activeRef /\ UNCHANGED <<audio, listeners, wanted, hurried>>
      \/ /\ S # {} /\ audio' = Transport!Loading(<<CHOOSE w \in work : TRUE, kept>>)
         /\ listeners' = Append(listeners, n) /\ wanted' = wanted
         /\ hurried' = (hurried \/ listeners # <<>> \/ position # audio.at)
      \/ /\ S = {} /\ audio' = Transport!Silent /\ wanted' = 0 /\ listeners' = listeners
         /\ hurried' = (hurried \/ listeners # <<>>)
  BY DEF Transport!RefreshSources, Transport!Hurry
<1> HIDE DEF kept
<1>5. /\ audio' \in Elements /\ listeners' \in Seq(Listener) /\ hurried' \in BOOLEAN
      /\ wanted' \in 0..Length /\ SourceOK' /\ PlaceOK'
  <2>1. CASE S # {} /\ kept = activeRef /\ UNCHANGED <<audio, listeners, wanted, hurried>>
    <3>1. audio.src = <<CHOOSE w \in work : TRUE, kept>>
      BY <1>2, <2>1 DEF SourceOK, Transport!ShownSourceIsHeard
    <3>2. SourceOK'
      BY <1>1, <1>2, <2>1, <3>1, SourceMoves
    <3> QED
      BY <1>1, <2>1, <3>2 DEF PlayerTyped, PlaceOK
  <2>2. CASE /\ S # {} /\ audio' = Transport!Loading(<<CHOOSE w \in work : TRUE, kept>>)
             /\ listeners' = Append(listeners, n) /\ wanted' = wanted
             /\ hurried' = (hurried \/ listeners # <<>> \/ position # audio.at)
    <3>1. /\ audio' \in Elements /\ audio'.src = <<CHOOSE w \in work : TRUE, kept>>
          /\ ~audio'.ready /\ ~audio'.on /\ audio'.at = 0
      BY <1>1, <1>2, <2>2, WorkIsChosen, LoadingIsTyped
    <3>2. n \in Listener /\ n.to = position /\ n.resume = audio.on
      BY DEF PlayerTyped, Elements, Listener
    <3> HIDE DEF n
    <3>3. /\ listeners' \in Seq(Listener) /\ listeners' # <<>>
          /\ listeners = <<>> => Len(listeners') = 1 /\ listeners'[1] = n
      BY <2>2, <3>2, ListenerIsAdded
    <3>4. hurried' \in BOOLEAN /\ wanted' \in 0..Length
      BY <2>2 DEF PlayerTyped
    <3>5. ~hurried' => listeners = <<>> /\ position = wanted /\ (audio.on => asked)
      BY <2>2 DEF PlaceOK
    <3>6. PlaceOK'
      BY <1>1, <2>2, <3>1, <3>2, <3>3, <3>5 DEF PlaceOK
    <3>7. SourceOK'
      BY <1>1, <1>2, <2>2, <3>1, SourceMoves
    <3> QED
      BY <3>1, <3>3, <3>4, <3>6, <3>7
  <2>3. CASE /\ S = {} /\ audio' = Transport!Silent /\ wanted' = 0 /\ listeners' = listeners
             /\ hurried' = (hurried \/ listeners # <<>>)
    <3>1. /\ audio' \in Elements /\ audio'.src = <<>> /\ ~audio'.ready /\ ~audio'.on
          /\ audio'.at = 0
      BY <2>3, SilentIsTyped
    <3>2. listeners' \in Seq(Listener) /\ hurried' \in BOOLEAN /\ wanted' \in 0..Length
      BY <2>3, PlayerConstants DEF PlayerTyped
    <3>3. SourceOK'
      BY <1>1, <1>2, <2>3, <3>1 DEF SourceOK, Transport!ShownSourceIsHeard
    <3>4. PlaceOK'
      BY <2>3, <3>1 DEF PlaceOK
    <3> QED
      BY <3>1, <3>2, <3>3, <3>4
  <2> QED
    BY <1>4, <2>1, <2>2, <2>3
<1>6. PlayerTyped'
  BY <1>1, <1>2, <1>3, <1>5 DEF PlayerTyped, Elements
<1> QED
  BY <1>3, <1>5, <1>6

LEMMA SetActiveKeeps ==
  ASSUME PlayerInv, NEW r \in Rank, Transport!SetActiveSource(r)
  PROVE  PlayerInv'
<1> USE DEF PlayerInv
<1>1. /\ r \in sources /\ Transport!Switch(r) /\ shown' = r
      /\ UNCHANGED <<work, sources, position, loop, pair, compare, wanted, asked>>
  BY DEF Transport!SetActiveSource, Transport!compared
<1>2. work # {} /\ r # 0
  BY <1>1, PlayerConstants DEF PlayerTyped
<1>3. /\ activeRef' = r /\ audio' \in Elements /\ isPlaying' \in BOOLEAN
      /\ audio'.src = <<CHOOSE w \in work : TRUE, r>>
      /\ listeners' \in Seq(Listener) /\ hurried' \in BOOLEAN /\ PlaceOK'
  BY <1>1, <1>2, SwitchKeeps
<1>4. SourceOK'
  BY <1>1, <1>2, <1>3, SourceMoves
<1>5. PlayerTyped'
  BY <1>1, <1>3 DEF PlayerTyped
<1> QED
  BY <1>1, <1>3, <1>4, <1>5, CompareStays

(* The comparison. *)

\* The source of a side that is chosen: heard at once, unless it is already.
LEMMA SideKeeps ==
  ASSUME PlayerInv, NEW r \in Rank, shown' = r,
         IF r # activeRef THEN Transport!Switch(r) ELSE Transport!Still,
         r \in sources, UNCHANGED <<work, sources, position, loop, wanted, asked>>,
         pair' \in Sides, compare' \in Sides
  PROVE  PlayerTyped' /\ SourceOK' /\ PlaceOK'
<1> USE DEF PlayerInv
<1>1. work # {} /\ r # 0
  BY PlayerConstants DEF PlayerTyped
<1>2. CASE r # activeRef
  <2>1. /\ activeRef' = r /\ audio' \in Elements /\ isPlaying' \in BOOLEAN
        /\ audio'.src = <<CHOOSE w \in work : TRUE, r>>
        /\ listeners' \in Seq(Listener) /\ hurried' \in BOOLEAN /\ PlaceOK'
    BY <1>1, <1>2, SwitchKeeps
  <2>2. SourceOK'
    BY <1>1, <2>1, SourceMoves
  <2>3. PlayerTyped'
    BY <2>1 DEF PlayerTyped
  <2> QED
    BY <2>1, <2>2, <2>3
<1>3. CASE r = activeRef
  <2>1. UNCHANGED <<audio, listeners, activeRef, isPlaying, hurried>>
    BY <1>3 DEF Transport!Still
  <2>2. shown' = shown
    BY <1>3 DEF SourceOK, Transport!ShownSourceIsHeard
  <2>3. PlayerTyped' /\ PlaceOK'
    BY <2>1 DEF PlayerTyped, PlaceOK
  <2> QED
    BY <2>1, <2>2, <2>3, SourceStays
<1> QED
  BY <1>2, <1>3

LEMMA PairIsTyped ==
  ASSUME NEW p \in Rank \X Rank, NEW i \in {1, 2}, NEW r \in Rank
  PROVE  /\ [p EXCEPT ![i] = r] \in Rank \X Rank
         /\ [p EXCEPT ![i] = r][i] = r /\ [p EXCEPT ![i] = r][3 - i] = p[3 - i]
         /\ [p EXCEPT ![i] = r] # <<>> /\ p # <<>>
<1>1. PICK a \in Rank, b \in Rank : p = <<a, b>>
  OBVIOUS
<1>2. CASE i = 1
  BY <1>1, <1>2
<1>3. CASE i = 2
  BY <1>1, <1>3
<1> QED
  BY <1>2, <1>3

LEMMA StartCompareKeeps ==
  ASSUME PlayerInv, NEW b \in Rank, Transport!StartCompare(b)
  PROVE  PlayerInv'
<1> USE DEF PlayerInv
<1> DEFINE a == Transport!First(sources)
<1>1. /\ b \in sources \ {a} /\ pair' = [ids |-> <<a, b>>, side |-> "A"] /\ compare' = pair'
      /\ shown' = IF shown = 0 THEN a ELSE shown
      /\ UNCHANGED <<work, sources, activeRef, audio, listeners, position, isPlaying, loop,
                     wanted, asked, hurried>>
  BY DEF Transport!StartCompare, Transport!history
<1>2. a \in sources /\ a \in Rank
  BY <1>1, FirstIsListed DEF PlayerTyped
<1> HIDE DEF a
<1>3. shown' = shown
  BY <1>1 DEF SourceOK
<1>4. pair' \in Sides
  BY <1>1, <1>2 DEF Sides
<1>5. PlayerTyped' /\ PlaceOK'
  BY <1>1, <1>4 DEF PlayerTyped, PlaceOK
<1>6. Transport!CompareIsCoherent'
  BY <1>1, <1>2 DEF Transport!CompareIsCoherent
<1> QED
  BY <1>1, <1>3, <1>5, <1>6, SourceStays

LEMMA CompareSideKeeps ==
  ASSUME PlayerInv, NEW side \in {"A", "B"}, Transport!SetCompareSide(side)
  PROVE  PlayerInv'
<1> USE DEF PlayerInv
<1> DEFINE r == pair.ids[Transport!Place(side)]
<1>1. /\ pair.ids # <<>> /\ r \in sources /\ shown' = r
      /\ pair' = [pair EXCEPT !.side = side] /\ compare' = [compare EXCEPT !.side = side]
      /\ IF r # activeRef THEN Transport!Switch(r) ELSE Transport!Still
      /\ UNCHANGED <<work, sources, position, loop, wanted, asked>>
  BY DEF Transport!SetCompareSide
<1>2. r \in Rank
  BY <1>1 DEF PlayerTyped
<1>3. /\ pair' \in Sides /\ pair'.ids = pair.ids /\ pair'.side = side
      /\ compare' \in Sides /\ compare'.ids = compare.ids /\ compare'.side = side
  BY <1>1 DEF PlayerTyped, Sides
<1> HIDE DEF r
<1>4. Transport!CompareIsCoherent'
  BY <1>1, <1>3 DEF Transport!CompareIsCoherent
<1>5. PlayerTyped' /\ SourceOK' /\ PlaceOK'
  BY <1>1, <1>2, <1>3, SideKeeps
<1> QED
  BY <1>4, <1>5

LEMMA CompareSourceKeeps ==
  ASSUME PlayerInv, NEW side \in {"A", "B"}, NEW r \in Rank,
         Transport!SetCompareSource(side, r)
  PROVE  PlayerInv'
<1> USE DEF PlayerInv
<1> DEFINE place == Transport!Place(side)
           ids == [pair.ids EXCEPT ![place] = r]
<1>1. /\ pair.ids # <<>> /\ r \in sources \ {compare.ids[3 - place]}
      /\ pair' = [pair EXCEPT !.ids[place] = r]
      /\ compare' = [compare EXCEPT !.ids[place] = r]
      /\ shown' = IF side = pair.side THEN r ELSE shown
      /\ IF side = pair.side /\ r # activeRef THEN Transport!Switch(r) ELSE Transport!Still
      /\ UNCHANGED <<work, sources, position, loop, wanted, asked>>
  BY DEF Transport!SetCompareSource
<1>2. place \in {1, 2}
  BY DEF Transport!Place
<1>3. /\ pair.ids \in Rank \X Rank /\ compare.ids = pair.ids /\ compare.side = pair.side
      /\ pair.ids[1] # pair.ids[2] /\ {pair.ids[1], pair.ids[2]} \subseteq sources
  BY <1>1 DEF PlayerTyped, Sides, Transport!CompareIsCoherent
<1> HIDE DEF place
<1>4. /\ ids \in Rank \X Rank /\ ids # <<>>
      /\ ids[place] = r /\ ids[3 - place] = pair.ids[3 - place]
  BY <1>2, <1>3, PairIsTyped
<1>5. /\ pair' \in Sides /\ pair'.ids = ids /\ pair'.side = pair.side
      /\ compare' \in Sides /\ compare'.ids = ids /\ compare'.side = compare.side
  BY <1>1, <1>3, <1>4 DEF PlayerTyped, Sides
<1>6. Transport!CompareIsCoherent'
  <2>1. ids[1] # ids[2] /\ {ids[1], ids[2]} \subseteq sources
    BY <1>1, <1>2, <1>3, <1>4
  <2> HIDE DEF ids
  <2> QED
    BY <1>1, <1>3, <1>5, <2>1 DEF Transport!CompareIsCoherent
<1>7. PlayerTyped' /\ SourceOK' /\ PlaceOK'
  <2>1. CASE side = pair.side
    BY <1>1, <1>5, <2>1, SideKeeps
  <2>2. CASE side # pair.side
    <3>1. UNCHANGED <<audio, listeners, activeRef, isPlaying, hurried, shown>>
      BY <1>1, <2>2 DEF Transport!Still
    <3> QED
      BY <1>1, <1>5, <3>1, SourceStays DEF PlayerTyped, PlaceOK
  <2> QED
    BY <2>1, <2>2
<1> QED
  BY <1>6, <1>7

LEMMA ExitKeeps ==
  ASSUME PlayerInv, Transport!ExitCompare
  PROVE  PlayerInv'
<1> USE DEF PlayerInv
<1>1. /\ pair' = Transport!Alone /\ compare' = Transport!Alone
      /\ UNCHANGED <<work, sources, activeRef, shown, audio, listeners, position, isPlaying,
                     loop, wanted, asked, hurried>>
  BY DEF Transport!ExitCompare, Transport!history
<1>2. Transport!CompareIsCoherent' /\ pair' \in Sides /\ compare' \in Sides
  BY <1>1, AloneIsCoherent
<1>3. PlayerTyped' /\ PlaceOK'
  BY <1>1, <1>2 DEF PlayerTyped, PlaceOK
<1> QED
  BY <1>1, <1>2, <1>3, SourceStays

LEMMA PlayerSteps ==
  ASSUME PlayerInv, Transport!Next
  PROVE  PlayerInv'
<1>1. CASE Transport!Metadata \/ Transport!Tick \/ Transport!TimeUpdate \/ Transport!Ended
  BY <1>1, MetadataKeeps, ElementKeeps
<1>2. ASSUME NEW w \in Recording, NEW S \in SUBSET Rank, Transport!OpenSources(w, S)
      PROVE  PlayerInv'
  BY <1>2, OpenKeeps
<1>3. ASSUME NEW S \in SUBSET Rank, Transport!RefreshSources(S)
      PROVE  PlayerInv'
  BY <1>3, RefreshKeeps
<1>4. ASSUME NEW r \in Rank, Transport!SetActiveSource(r) \/ Transport!StartCompare(r)
      PROVE  PlayerInv'
  BY <1>4, SetActiveKeeps, StartCompareKeeps
<1>5. ASSUME NEW side \in {"A", "B"}, Transport!SetCompareSide(side)
      PROVE  PlayerInv'
  BY <1>5, CompareSideKeeps
<1>6. ASSUME NEW side \in {"A", "B"}, NEW r \in Rank, Transport!SetCompareSource(side, r)
      PROVE  PlayerInv'
  BY <1>6, CompareSourceKeeps
<1>7. CASE Transport!ClearActiveSource \/ Transport!ExitCompare
  BY <1>7, ClearKeeps, ExitKeeps
<1>8. CASE \/ Transport!Pause \/ Transport!Stop
           \/ \E allowed \in BOOLEAN : Transport!Play(allowed)
           \/ \E t \in 0..Length : Transport!Seek(t)
           \/ \E bounds \in {<<>>, <<0, Length>>} : Transport!SetLoop(bounds)
  BY <1>8, ControlsKeep
<1> QED
  BY <1>1, <1>2, <1>3, <1>4, <1>5, <1>6, <1>7, <1>8 DEF Transport!Next

----------------------------------------------------------------------------
(* The machines together: a step of one leaves the others at rest. *)

LEMMA MachineSteps ==
  ASSUME [BrowserNext]_all
  PROVE  /\ Transport!Next \/ UNCHANGED transport
         /\ Tracking!Next \/ UNCHANGED tracking
BY DEF BrowserNext, Plays, Waits, Corrects, all

LEMMA PlayerRests ==
  ASSUME PlayerInv, UNCHANGED transport
  PROVE  PlayerInv'
<1>1. UNCHANGED <<work, sources, activeRef, shown, audio, listeners, position, isPlaying, loop,
                  pair, compare, wanted, asked, hurried>>
  BY DEF transport
<1> QED
  BY <1>1, SourceStays, CompareStays DEF PlayerInv, PlayerTyped, PlaceOK

LEMMA WaitRests ==
  ASSUME WaitInv, UNCHANGED tracking
  PROVE  WaitInv'
BY DEF tracking, WaitInv, WaitTyped, QueryOK, BudgetOK

LEMMA PlayerHolds == BrowserSpec => []PlayerInv
<1>1. BrowserInit => PlayerInv
  BY PlayerInit DEF BrowserInit
<1>2. PlayerInv /\ [BrowserNext]_all => PlayerInv'
  BY MachineSteps, PlayerSteps, PlayerRests
<1> QED
  BY <1>1, <1>2, PTL DEF BrowserSpec

LEMMA WaitHolds == BrowserSpec => []WaitInv
<1>1. BrowserInit => WaitInv
  BY WaitInit DEF BrowserInit
<1>2. WaitInv /\ [BrowserNext]_all => WaitInv'
  BY MachineSteps, WaitSteps, WaitRests
<1> QED
  BY <1>1, <1>2, PTL DEF BrowserSpec

(* The theorems. *)

\* What runs together is what runs alone: no machine of the browser does a step its
\* own specification does not have, so that the theorems about Corrections hold too.
THEOREM MachinesRunAlone == BrowserSpec => Transport!Spec /\ Tracking!Spec /\ Spec
<1>1. BrowserInit => Transport!Init /\ Tracking!Init /\ Init
  BY DEF BrowserInit
<1>2. [BrowserNext]_all => [Transport!Next]_(Transport!vars)
  BY MachineSteps DEF transport, Transport!vars
<1>3. [BrowserNext]_all => [Tracking!Next]_(Tracking!vars)
  BY MachineSteps DEF tracking, Tracking!vars
<1>4. [BrowserNext]_all => [Next]_vars
  BY DEF BrowserNext, Plays, Waits, Corrects, all, correction
<1> QED
  BY <1>1, <1>2, <1>3, <1>4, PTL DEF BrowserSpec, Transport!Spec, Tracking!Spec, Spec

\* TransportStore and JobTracking keep their types: no place beyond the end of a
\* source, no watcher beyond its budget of requests.
THEOREM BrowserTypesCorrect == BrowserSpec => [](Transport!TypeOK /\ Tracking!TypeOK)
<1>1. PlayerInv => Transport!TypeOK
  <2> SUFFICES ASSUME PlayerInv PROVE Transport!TypeOK
    OBVIOUS
  <2>1. PlayerTyped /\ shown = activeRef
    BY DEF PlayerInv, SourceOK, Transport!ShownSourceIsHeard
  <2>2. \A i \in DOMAIN listeners : listeners[i] \in Listener
    BY <2>1 DEF PlayerTyped
  <2>3. loop \in {<<>>} \cup ((0..Length) \X (0..Length))
    BY <2>1, PlayerConstants DEF PlayerTyped
  <2> QED
    BY <2>1, <2>2, <2>3
    DEF PlayerTyped, Listener, Elements, Sides, Transport!TypeOK, Transport!Source,
        Transport!Pairs
<1>2. WaitInv => Tracking!TypeOK
  BY DEF WaitInv, WaitTyped, Requests, Tracking!TypeOK
<1> QED
  BY <1>1, <1>2, PlayerHolds, WaitHolds, PTL

\* TransportStore: the source shown as active is the one the element has, through
\* every switch, comparison, reload of the Work and change of Work.
THEOREM ShownIsHeard == BrowserSpec => []ShownSourceIsHeard
<1>1. PlayerInv => ShownSourceIsHeard
  BY DEF PlayerInv, SourceOK, ShownSourceIsHeard
<1> QED
  BY <1>1, PlayerHolds, PTL

\* TransportStore: the controls and the switches speak of one comparison, of two
\* different sources that are still listed.
THEOREM ComparisonsAgree == BrowserSpec => []CompareIsCoherent
<1>1. PlayerInv => CompareIsCoherent
  BY DEF PlayerInv, CompareIsCoherent
<1> QED
  BY <1>1, PlayerHolds, PTL

\* TransportStore: an unhurried switch goes on where the listener had got to, and
\* plays only if asked; sources of any length, with the loop on or off.
THEOREM PlaceIsKept == BrowserSpec => []SwitchesKeepThePlace
<1>1. PlayerInv => SwitchesKeepThePlace
  BY DEF PlayerInv, PlaceOK, SwitchesKeepThePlace, Transport!SwitchesKeepThePlace
<1> QED
  BY <1>1, PlayerHolds, PTL

\* JobTracking: a Job is given up only for maxConsecutiveFailures failures in a row,
\* or when the budget of someone who waited was spent.
THEOREM OnlyEarnedLosses == BrowserSpec => LossIsEarned
<1>1. WaitInv /\ [BrowserNext]_all =>
        [\A w \in Watcher : outcome'[w] # outcome[w] =>
           /\ outcome'[w] = "connection" => missed' >= MaxFailures
           /\ outcome'[w] = "timeout" => \E v \in Watcher : attempts[v] = MaxAttempts]_(Tracking!vars)
  BY MachineSteps, WaitSteps DEF tracking, Tracking!vars
<1> QED
  BY <1>1, WaitHolds, PTL DEF BrowserSpec, LossIsEarned, Tracking!LossIsEarned

\* JobTracking: a status is asked for only while someone waits for it, repetitions
\* after a failure included.
THEOREM RequestsAreWanted == BrowserSpec => NobodyAsksInVain
<1>1. WaitInv /\ [BrowserNext]_all => [attempts' # attempts => waiting' # {}]_(Tracking!vars)
  BY MachineSteps, WaitSteps DEF tracking, Tracking!vars
<1> QED
  BY <1>1, WaitHolds, PTL DEF BrowserSpec, NobodyAsksInVain, Tracking!NobodyAsksInVain

=============================================================================
