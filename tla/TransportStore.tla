--------------------------- MODULE TransportStore ---------------------------
(***************************************************************************)
(* The player of the workspace (lib/stores/transport.tsx): one audio       *)
(* element, the sources of the open Work, and a comparison of two of them. *)
(*                                                                         *)
(* Giving the element a source takes time: its position is 0 and it is     *)
(* paused until the "loadedmetadata" event, for which a switch leaves a    *)
(* listener that goes back to the old position and plays on.  A listener   *)
(* hears the next such event, of whatever source.  positionRef follows the *)
(* element only at its next "timeupdate".                                  *)
(***************************************************************************)
EXTENDS Naturals, Sequences

CONSTANTS Recording, \* Works
          Rank,      \* ranks of the sources of a Work in the list: 1 is the default
          End,       \* length of every source
          MaxWaiting \* bound on the listeners a hurried user piles up

\* What MCBrowser assumes of the constants.
TransportAssumption ==
  /\ Rank \subseteq Nat \ {0}
  /\ End \in Nat \ {0} /\ MaxWaiting \in Nat \ {0}

VARIABLES
  work,      \* the Work whose sources are listed, {} before there is one
  sources,   \* sourcesRef and transport.sources
  activeRef, \* activeSourceIdRef, 0 for null
  shown,     \* transport.activeSource
  audio,     \* the element: source, metadata known, currentTime, playing
  waiting,   \* its "loadedmetadata" listeners
  position,  \* positionRef
  isPlaying, \* transport.isPlaying
  loop,      \* <<loopStart, loopEnd>> while the loop is on, else <<>>
  pair,      \* compareRef: <<aId, bId>> or <<>>, and side
  compare,   \* compareA, compareB and activeSide in the state
  wanted,    \* (history) where the listener has got to
  asked,     \* (history) the user asked to play in this Work and did not stop it
  hurried    \* (history) the source was replaced, or a control used, before the
             \* listener of a switch had run, or replaced by a refresh before a
             \* "timeupdate" had told the place

vars == <<work, sources, activeRef, shown, audio, waiting, position, isPlaying, loop,
          pair, compare, wanted, asked, hurried>>

Source == Recording \X Rank
Silent == [src |-> <<>>, ready |-> FALSE, at |-> 0, on |-> FALSE]
Alone  == [ids |-> <<>>, side |-> "A"]
Pairs  == {<<>>} \cup (Rank \X Rank)

TypeOK ==
  /\ work \in {{}} \cup {{w} : w \in Recording}
  /\ sources \in SUBSET Rank
  /\ activeRef \in Rank \cup {0}
  /\ shown \in Rank \cup {0}
  /\ audio \in [src : {<<>>} \cup Source, ready : BOOLEAN, at : 0..End, on : BOOLEAN]
  /\ \A i \in DOMAIN waiting : waiting[i] \in [to : 0..End, resume : BOOLEAN]
  /\ position \in 0..End
  /\ isPlaying \in BOOLEAN
  /\ loop \in {<<>>} \cup ((0..End) \X (0..End))
  /\ pair \in [ids : Pairs, side : {"A", "B"}]
  /\ compare \in [ids : Pairs, side : {"A", "B"}]
  /\ wanted \in 0..End
  /\ asked \in BOOLEAN
  /\ hurried \in BOOLEAN

Init ==
  /\ work = {} /\ sources = {} /\ activeRef = 0 /\ shown = 0
  /\ audio = Silent /\ waiting = <<>> /\ position = 0 /\ isPlaying = FALSE
  /\ loop = <<>> /\ pair = Alone /\ compare = Alone
  /\ wanted = 0 /\ asked = FALSE /\ hurried = FALSE

history  == <<wanted, asked, hurried>>
compared == <<pair, compare>>

First(S) == IF S = {} THEN 0 ELSE CHOOSE r \in S : \A s \in S : r <= s
Earlier(s, t) == IF s < t THEN s ELSE t

\* What audio.src = url and audio.load() leave; at is lost and play() is undone.
Loading(src) == [Silent EXCEPT !.src = src]
Hurry == hurried' = (hurried \/ waiting # <<>>)

(* The element *)

\* loadedmetadata: every listener runs, in the order they were added.
Metadata ==
  LET there  == IF waiting = <<>> THEN audio.at ELSE Earlier(waiting[Len(waiting)].to, End)
      resume == \E i \in DOMAIN waiting : waiting[i].resume
  IN  /\ audio.src # <<>> /\ ~audio.ready
      /\ audio' = [audio EXCEPT !.ready = TRUE, !.at = there, !.on = @ \/ resume]
      /\ isPlaying' = (isPlaying \/ resume)
      /\ waiting' = <<>>
      /\ UNCHANGED <<work, sources, activeRef, shown, position, loop, compared, history>>

\* onTime for the place t, with the jump back of a loop, which the next event tells;
\* while it plays the element is less than a unit of time ahead of the last event.
OnTime(t) ==
  LET back == loop # <<>> /\ t >= loop[2]
      to   == IF back THEN loop[1] ELSE t
  IN  /\ audio' = [audio EXCEPT !.at = to]
      /\ position' = t
      /\ wanted' = IF back \/ to # audio.at THEN to ELSE wanted
      /\ UNCHANGED <<work, sources, activeRef, shown, waiting, isPlaying, loop, compared,
                     asked, hurried>>

Tick ==
  /\ audio.ready /\ audio.on /\ audio.at < End
  /\ OnTime(audio.at + 1)

\* The event that follows a new place: after a seek, when a source starts to load,
\* after the listener of a switch, and after a loop's jump.
TimeUpdate ==
  /\ position # audio.at \/ (loop # <<>> /\ audio.at >= loop[2])
  /\ OnTime(audio.at)

\* ended: onEnd
Ended ==
  /\ audio.ready /\ audio.on /\ audio.at = End
  /\ audio' = [audio EXCEPT !.on = FALSE]
  /\ isPlaying' = FALSE
  /\ asked' = FALSE
  /\ UNCHANGED <<work, sources, activeRef, shown, waiting, position, loop, compared,
                 wanted, hurried>>

(* Sources *)

\* Mutant of Resume: the place is read after load().
ResumeLate == [to |-> 0, resume |-> audio.on]

\* currentPosition and shouldResume, for the listener of a switch.
Resume == [to |-> audio.at, resume |-> audio.on]

\* Mutant of Switch: activeSourceIdRef is left as it was.
SwitchForgetsRef(r) ==
  /\ Len(waiting) < MaxWaiting
  /\ audio' = Loading(<<CHOOSE w \in work : TRUE, r>>)
  /\ waiting' = Append(waiting, Resume)
  /\ isPlaying' = audio.on
  /\ Hurry
  /\ UNCHANGED activeRef

\* setActiveSource(source), called by setCompareSide and setCompareSource too.
Switch(r) ==
  /\ Len(waiting) < MaxWaiting
  /\ audio' = Loading(<<CHOOSE w \in work : TRUE, r>>)
  /\ waiting' = Append(waiting, Resume)
  /\ activeRef' = r
  /\ isPlaying' = audio.on
  /\ Hurry
Still == UNCHANGED <<audio, waiting, activeRef, isPlaying, hurried>>

SetActiveSource(r) ==
  /\ r \in sources
  /\ Switch(r)
  /\ shown' = r
  /\ UNCHANGED <<work, sources, position, loop, compared, wanted, asked>>

\* replaceSources for a Work that is opened: S is {} at the head of loadWork.
OpenSources(w, S) ==
  LET first == First(S)
  IN  /\ work' = {w} /\ sources' = S
      /\ activeRef' = first /\ shown' = first
      /\ audio' = IF first = 0 THEN Silent ELSE Loading(<<w, first>>)
      /\ position' = 0 /\ isPlaying' = FALSE /\ loop' = <<>>
      /\ pair' = Alone /\ compare' = [compare EXCEPT !.ids = <<>>]
      /\ wanted' = 0 /\ asked' = FALSE
      /\ Hurry
      /\ UNCHANGED waiting

\* Mutant of PairIn: only the first side is looked for.
PairHalfIn(S) == pair.ids # <<>> /\ pair.ids[1] \in S

\* replaceSources with preservePosition, when the open Work is loaded again.  With no
\* source left there is none to go back to, and the place is given up.
Kept(S)     == IF activeRef \in S THEN activeRef ELSE First(S)
PairIn(S)   == pair.ids # <<>> /\ pair.ids[1] \in S /\ pair.ids[2] \in S
RefreshSources(S) ==
  LET kept == Kept(S)
  IN  /\ work # {} /\ sources' = S
      /\ \/ /\ S # {} /\ kept = activeRef
            /\ UNCHANGED <<audio, waiting, wanted, hurried>>
         \/ /\ S # {} /\ kept # activeRef
            /\ Len(waiting) < MaxWaiting
            /\ audio' = Loading(<<CHOOSE w \in work : TRUE, kept>>)
            /\ waiting' = Append(waiting, [to |-> position, resume |-> audio.on])
            /\ hurried' = (hurried \/ waiting # <<>> \/ position # audio.at)
            /\ UNCHANGED wanted
         \/ /\ S = {}
            /\ audio' = Silent
            /\ wanted' = 0
            /\ Hurry
            /\ UNCHANGED waiting
      /\ activeRef' = kept /\ shown' = kept
      /\ isPlaying' = audio.on
      /\ IF PairIn(S) THEN UNCHANGED compared
         ELSE pair' = Alone /\ compare' = [compare EXCEPT !.ids = <<>>]
      /\ UNCHANGED <<work, position, loop, asked>>

ClearActiveSource ==
  /\ work' = {} /\ sources' = {} /\ activeRef' = 0 /\ shown' = 0
  /\ audio' = Silent
  /\ position' = 0 /\ isPlaying' = FALSE /\ loop' = <<>>
  /\ pair' = Alone /\ compare' = Alone
  /\ wanted' = 0 /\ asked' = FALSE
  /\ Hurry
  /\ UNCHANGED waiting

(* Controls *)

\* play() may be refused by the browser; allowed, it begins again at the end.
Play(allowed) ==
  LET restart == allowed /\ audio.ready /\ audio.at = End
  IN  /\ audio.src # <<>>
      /\ audio' = [audio EXCEPT !.on = allowed, !.at = IF restart THEN 0 ELSE @]
      /\ wanted' = IF restart THEN 0 ELSE wanted
      /\ isPlaying' = allowed
      /\ asked' = allowed
      /\ Hurry
      /\ UNCHANGED <<work, sources, activeRef, shown, waiting, position, loop, compared>>

Pause ==
  /\ audio' = [audio EXCEPT !.on = FALSE]
  /\ isPlaying' = FALSE
  /\ asked' = FALSE
  /\ Hurry
  /\ UNCHANGED <<work, sources, activeRef, shown, waiting, position, loop, compared, wanted>>

Stop ==
  /\ audio' = [audio EXCEPT !.on = FALSE, !.at = 0]
  /\ isPlaying' = FALSE /\ position' = 0
  /\ asked' = FALSE /\ wanted' = 0
  /\ Hurry
  /\ UNCHANGED <<work, sources, activeRef, shown, waiting, loop, compared>>

Seek(t) ==
  /\ audio' = [audio EXCEPT !.at = t]
  /\ position' = t
  /\ wanted' = t
  /\ Hurry
  /\ UNCHANGED <<work, sources, activeRef, shown, waiting, isPlaying, loop, compared, asked>>

\* setLoop and toggleLoop, which TransportBar calls together.
SetLoop(bounds) ==
  /\ shown # 0
  /\ loop' = bounds
  /\ UNCHANGED <<work, sources, activeRef, shown, audio, waiting, position, isPlaying,
                 compared, history>>

(* Comparison *)

\* TransportBar offers the default source and another one.
StartCompare(b) ==
  LET a == First(sources)
  IN  /\ compare.ids = <<>> /\ b \in sources \ {a}
      /\ pair' = [ids |-> <<a, b>>, side |-> "A"]
      /\ compare' = pair'
      /\ shown' = IF shown = 0 THEN a ELSE shown
      /\ UNCHANGED <<work, sources, activeRef, audio, waiting, position, isPlaying, loop, history>>

Place(side) == IF side = "A" THEN 1 ELSE 2
SetCompareSide(side) ==
  LET target == pair.ids[Place(side)]
  IN  /\ pair.ids # <<>> /\ target \in sources
      /\ pair' = [pair EXCEPT !.side = side]
      /\ compare' = [compare EXCEPT !.side = side]
      /\ shown' = target
      /\ IF target # activeRef THEN Switch(target) ELSE Still
      /\ UNCHANGED <<work, sources, position, loop, wanted, asked>>

\* A side's menu lists the sources the other side does not have.
SetCompareSource(side, r) ==
  LET place == Place(side)
  IN  /\ pair.ids # <<>> /\ r \in sources \ {compare.ids[3 - place]}
      /\ pair' = [pair EXCEPT !.ids[place] = r]
      /\ compare' = [compare EXCEPT !.ids[place] = r]
      /\ shown' = IF side = pair.side THEN r ELSE shown
      /\ IF side = pair.side /\ r # activeRef THEN Switch(r) ELSE Still
      /\ UNCHANGED <<work, sources, position, loop, wanted, asked>>

ExitCompare ==
  /\ compare.ids # <<>>
  /\ pair' = Alone /\ compare' = Alone
  /\ UNCHANGED <<work, sources, activeRef, shown, audio, waiting, position, isPlaying, loop, history>>

Next ==
  \/ Metadata \/ Tick \/ TimeUpdate \/ Ended
  \/ \E w \in Recording, S \in SUBSET Rank : OpenSources(w, S)
  \/ \E S \in SUBSET Rank : RefreshSources(S)
  \/ \E r \in Rank : SetActiveSource(r) \/ StartCompare(r)
  \/ \E side \in {"A", "B"} : SetCompareSide(side)
  \/ \E side \in {"A", "B"}, r \in Rank : SetCompareSource(side, r)
  \/ ClearActiveSource \/ ExitCompare
  \/ Pause \/ Stop
  \/ \E allowed \in BOOLEAN : Play(allowed)
  \/ \E t \in 0..End : Seek(t)
  \/ \E bounds \in {<<>>, <<0, End>>} : SetLoop(bounds)

Spec == Init /\ [][Next]_vars

(* Properties *)

\* The source shown as active is the one the element has.
ShownSourceIsHeard ==
  /\ shown = activeRef
  /\ audio.src = IF shown = 0 THEN <<>> ELSE <<CHOOSE w \in work : TRUE, shown>>

\* The comparison the controls show is the one the switches use, of two
\* different sources that are still listed.
CompareIsCoherent ==
  /\ compare.ids = pair.ids
  /\ pair.ids # <<>> =>
       /\ compare.side = pair.side
       /\ pair.ids[1] # pair.ids[2]
       /\ {pair.ids[1], pair.ids[2]} \subseteq sources

\* Once the element has its source, it is where the listener had got to and
\* plays only what was asked for, unless a source was replaced, or a control used,
\* too early.
SwitchesKeepThePlace ==
  ~hurried /\ audio.ready => audio.at = wanted /\ (audio.on => asked)
=============================================================================
