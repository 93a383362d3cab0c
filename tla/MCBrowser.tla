------------------------------ MODULE MCBrowser ------------------------------
(***************************************************************************)
(* One instance for TLC of three machines of the browser that share no     *)
(* state: the player, the wait for a Job, and the correction of a          *)
(* transcription.  A behaviour runs one of them and leaves the others at   *)
(* rest.                                                                   *)
(***************************************************************************)
EXTENDS Corrections

CONSTANTS Recording, Rank, Length, MaxWaiting,
          Watcher, Nobody, MaxAttempts, MaxFailures

VARIABLES
  running, \* which machine runs
  work, sources, activeRef, shown, audio, listeners, position, isPlaying, loop,
  pair, compare, wanted, asked, hurried,
  job, query, known, waiting, attempts, outcome, missed

Transport == INSTANCE TransportStore WITH waiting <- listeners, End <- Length
Tracking  == INSTANCE JobTracking

ASSUME BrowserAssumption == Transport!TransportAssumption /\ Tracking!TrackingAssumption

transport  == <<work, sources, activeRef, shown, audio, listeners, position, isPlaying, loop,
                pair, compare, wanted, asked, hurried>>
tracking   == <<job, query, known, waiting, attempts, outcome, missed>>
correction == vars
all        == <<running, transport, tracking, correction>>

BrowserInit ==
  /\ running \in {"player", "wait", "correction"}
  /\ Transport!Init /\ Tracking!Init /\ Init

Plays(A)    == running = "player" /\ A /\ UNCHANGED <<running, tracking, correction>>
Waits(A)    == running = "wait" /\ A /\ UNCHANGED <<running, transport, correction>>
Corrects(A) == running = "correction" /\ A /\ UNCHANGED <<running, transport, tracking>>

BrowserNext == Plays(Transport!Next) \/ Waits(Tracking!Next) \/ Corrects(Next)

\* Nothing is owed by the player, whose steps are the user's or the browser's.
BrowserSpec ==
  /\ BrowserInit /\ [][BrowserNext]_all
  /\ WF_all(Waits(Tracking!Step))
  /\ WF_all(Corrects(Loading)) /\ WF_all(Corrects(Coordinating)) /\ WF_all(Corrects(Working))

\* A long note, and a short one above it that may be added.
LongNote  == {[pitch |-> 1, start |-> 0, end |-> 3]}
ShortNote == {[pitch |-> 2, start |-> 1, end |-> 2]}

(* The properties of the machines; one at rest satisfies its own. *)

\* TransportStore: the source shown as active is the one the element has.
ShownSourceIsHeard == Transport!ShownSourceIsHeard

\* TransportStore: the controls and the switches speak of one comparison.
CompareIsCoherent == Transport!CompareIsCoherent

\* TransportStore: an unhurried switch of the source keeps the place.
SwitchesKeepThePlace == Transport!SwitchesKeepThePlace

\* JobTracking: nobody waits for ever for a Job.
EveryWaitSettles == Tracking!EveryWaitSettles

\* JobTracking: a Job is given up only for failures or a budget that was spent.
LossIsEarned == Tracking!LossIsEarned

\* JobTracking: no request for a Job nobody waits for.
NobodyAsksInVain == Tracking!NobodyAsksInVain
=============================================================================
