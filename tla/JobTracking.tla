----------------------------- MODULE JobTracking -----------------------------
(***************************************************************************)
(* Waiting for a Job in the browser (lib/job-tracking.ts, waitForJob).     *)
(*                                                                         *)
(* Everyone who waits for one Job shares one query of its status, a        *)
(* library's: a request under way serves those who come later, the watcher *)
(* that started it decides whether a failed one is repeated, and when the  *)
(* last watcher leaves, repeating stops until another comes.               *)
(***************************************************************************)
EXTENDS Naturals

CONSTANTS Watcher,     \* calls of waitForJob for one Job
          Nobody,      \* no watcher
          MaxAttempts, \* maxAttempts
          MaxFailures  \* maxConsecutiveFailures

\* What MCBrowser assumes of the constants.
TrackingAssumption ==
  /\ Nobody \notin Watcher
  /\ MaxAttempts \in Nat \ {0}
  /\ MaxFailures \in Nat \ {0}

VARIABLES
  job,      \* the stage of the Job at the server
  query,    \* the shared query: phase of its request, who started it, failureCount,
            \* whether repeating is cancelled, and what the server read
  known,    \* the data of the query, which is kept from one watcher to the next
  waiting,  \* watchers that are subscribed
  attempts, \* Watcher -> requests of its queryFn
  outcome,  \* Watcher -> how its promise was settled
  missed    \* (history) requests that failed since one was answered

vars == <<job, query, known, waiting, attempts, outcome, missed>>

Terminal == {"succeeded", "failed", "cancelled"}
Stage    == Terminal \cup {"running"}
Idle     == [phase |-> "idle", owner |-> Nobody, failures |-> 0, cancelled |-> FALSE,
             seen |-> "none"]

TypeOK ==
  /\ job \in Stage
  /\ query \in [phase : {"idle", "sent", "read", "resting"}, owner : Watcher \cup {Nobody},
                failures : 0..MaxFailures, cancelled : BOOLEAN, seen : Stage \cup {"none"}]
  /\ known \in Stage \cup {"none"}
  /\ waiting \in SUBSET Watcher
  /\ attempts \in [Watcher -> 0..MaxAttempts]
  /\ outcome \in [Watcher -> Terminal \cup {"none", "connection", "timeout", "aborted"}]
  /\ missed \in Nat

Init ==
  /\ job = "running" /\ query = Idle /\ known = "none"
  /\ waiting = {}
  /\ attempts = [w \in Watcher |-> 0]
  /\ outcome = [w \in Watcher |-> "none"]
  /\ missed = 0

\* queryFn of the watcher w.
Request(w, failures) ==
  /\ query' = [Idle EXCEPT !.phase = "sent", !.owner = w, !.failures = failures]
  /\ attempts' = [attempts EXCEPT ![w] = @ + 1]

\* cleanup: without watchers the query stops repeating its request.
Unwatched(q, left) == IF left = {} THEN [q EXCEPT !.cancelled = TRUE] ELSE q

\* The promises that settle, and how.
Settle(how) ==
  /\ outcome' = [w \in Watcher |-> IF w \in DOMAIN how THEN how[w] ELSE outcome[w]]
  /\ waiting' = waiting \ DOMAIN how

JobEnds ==
  /\ job = "running" /\ job' \in Terminal
  /\ UNCHANGED <<query, known, waiting, attempts, outcome, missed>>

\* waitForJob: subscribing requests the status, unless that is under way.
Watch(w) ==
  /\ w \notin waiting /\ outcome[w] = "none"
  /\ waiting' = waiting \cup {w}
  /\ IF query.phase = "idle" THEN Request(w, 0)
     ELSE query' = [query EXCEPT !.cancelled = FALSE] /\ UNCHANGED attempts
  /\ UNCHANGED <<job, known, outcome, missed>>

\* The refetchInterval of the watcher w.
Poll(w) ==
  /\ w \in waiting /\ query.phase = "idle"
  /\ attempts[w] < MaxAttempts /\ known \notin Terminal
  /\ Request(w, 0)
  /\ UNCHANGED <<job, known, waiting, outcome, missed>>

ServerReads ==
  /\ query.phase = "sent"
  /\ query' = [query EXCEPT !.phase = "read", !.seen = job]
  /\ UNCHANGED <<job, known, waiting, attempts, outcome, missed>>

\* Mutant of Satisfied: only the end of the Job ends the wait.
SatisfiedByEnd(s) == {w \in waiting : s \in Terminal}

\* Who is told of the stage s, and has then waited long enough.
Satisfied(s) == {w \in waiting : s \in Terminal \/ attempts[w] >= MaxAttempts}
Answer ==
  LET s == query.seen
  IN  /\ query.phase = "read"
      /\ query' = Idle /\ known' = s /\ missed' = 0
      /\ Settle([w \in Satisfied(s) |-> IF s \in Terminal THEN s ELSE "timeout"])
      /\ UNCHANGED <<job, attempts>>

\* Mutant of Repeats: one repetition too few.
RepeatsTooFew(failures) == attempts[query.owner] < MaxAttempts /\ failures + 2 < MaxFailures

\* retry
Repeats(failures) == attempts[query.owner] < MaxAttempts /\ failures < MaxFailures - 1

\* The request fails: the query rests for retryDelay, or gives up.
GiveUp(failures) ==
  /\ query' = Idle
  /\ Settle([w \in waiting |-> IF failures >= MaxFailures THEN "connection" ELSE "timeout"])
Fail ==
  /\ query.phase \in {"sent", "read"}
  /\ missed' = missed + 1
  /\ IF Repeats(query.failures) /\ ~query.cancelled
     THEN /\ query' = [query EXCEPT !.phase = "resting", !.failures = @ + 1, !.seen = "none"]
          /\ UNCHANGED <<waiting, outcome>>
     ELSE GiveUp(query.failures + 1)
  /\ UNCHANGED <<job, known, attempts>>

\* After the rest the request is repeated, if someone still waits.
Repeat ==
  /\ query.phase = "resting" /\ ~query.cancelled
  /\ Request(query.owner, query.failures)
  /\ UNCHANGED <<job, known, waiting, outcome, missed>>
Abandon ==
  /\ query.phase = "resting" /\ query.cancelled
  /\ GiveUp(query.failures + 1)
  /\ UNCHANGED <<job, known, attempts, missed>>

\* onAbort
Abort(w) ==
  /\ w \in waiting
  /\ Settle([v \in {w} |-> "aborted"])
  /\ query' = IF query.phase = "idle" THEN query ELSE Unwatched(query, waiting \ {w})
  /\ UNCHANGED <<job, known, attempts, missed>>

Step ==
  \/ \E w \in Watcher : Poll(w)
  \/ ServerReads \/ Answer \/ Repeat \/ Abandon

Next == Step \/ JobEnds \/ Fail \/ \E w \in Watcher : Watch(w) \/ Abort(w)

Spec == Init /\ [][Next]_vars

\* Timers fire and a request is answered or fails; the Job need not end.
Fairness == WF_vars(Step)
FairSpec == Spec /\ Fairness

(* Properties *)

\* Nobody waits for ever, though the Job never ends: the budget of requests of
\* some watcher runs out.
EveryWaitSettles == \A w \in Watcher : w \in waiting ~> w \notin waiting

\* A Job is reported as out of reach only when MaxFailures requests in a row
\* failed, and as slow only when the budget of someone who waited was spent.
LossIsEarned ==
  [][\A w \in Watcher : outcome'[w] # outcome[w] =>
       /\ outcome'[w] = "connection" => missed' >= MaxFailures
       /\ outcome'[w] = "timeout" => \E v \in Watcher : attempts[v] = MaxAttempts]_vars

\* A status is asked for only on behalf of someone who waits for it.
NobodyAsksInVain == [][attempts' # attempts => waiting' # {}]_vars
=============================================================================
