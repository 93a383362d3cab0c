--------------------------- MODULE CorrectionNotes ---------------------------
(***************************************************************************)
(* What a correction of a transcription says and does                      *)
(* (lib/piano-roll-correction.ts and handle_correct).  The browser turns   *)
(* the difference between the notes it was given and the user's draft into *)
(* a span and the notes the span shall hold; the handler removes the notes *)
(* within the span from the MIDI file and adds those.                      *)
(*                                                                         *)
(* Times are ticks of the file.  The browser knows a note by the id of its *)
(* entity: what it was given, and a draft, are functions from ids to       *)
(* notes.  A file is a set of notes: two equal notes count once, and all   *)
(* are of one instrument.                                                  *)
(***************************************************************************)
EXTENDS Integers

CONSTANTS Pitch,
          End \* the length of the recording

ASSUME NotesAssumption == Pitch \subseteq Int /\ End \in Nat

\* validNote
Note == {n \in [pitch : Pitch, start : 0..End, end : 0..End] : n.start < n.end}

NotesOf(f) == {f[i] : i \in DOMAIN f}

Least(S)    == CHOOSE t \in S : \A u \in S : t <= u
Greatest(S) == CHOOSE t \in S : \A u \in S : t >= u

(* buildCorrectionReplacement *)

Removed(given, draft) == DOMAIN given \ DOMAIN draft
Added(given, draft)   == DOMAIN draft \ DOMAIN given
Altered(given, draft) == {i \in DOMAIN given \cap DOMAIN draft : given[i] # draft[i]}

Unchanged(given, draft) ==
  Removed(given, draft) \cup Added(given, draft) \cup Altered(given, draft) = {}

\* The notes whose spans are changedSpans.
ChangedNotes(given, draft) ==
  {given[i] : i \in Removed(given, draft) \cup Altered(given, draft)}
    \cup {draft[i] : i \in Added(given, draft) \cup Altered(given, draft)}

Within(n, from, to) == n.start >= from /\ n.end <= to

\* Mutant of Replacement: the notes that stay as they are are not sent.
ReplacementOfChanges(given, draft) ==
  LET changed == ChangedNotes(given, draft)
  IN  [from  |-> Least({n.start : n \in changed}),
       to    |-> Greatest({n.end : n \in changed}),
       notes |-> {draft[i] : i \in Added(given, draft) \cup Altered(given, draft)}]

Replacement(given, draft) ==
  LET changed == ChangedNotes(given, draft)
      from    == Least({n.start : n \in changed})
      to      == Greatest({n.end : n \in changed})
  IN  [from |-> from, to |-> to, notes |-> {n \in NotesOf(draft) : Within(n, from, to)}]

(* handle_correct *)

Kept(file, r)     == {n \in file : ~Within(n, r.from, r.to)}
Replaced(file, r) == Kept(file, r) \cup r.notes

\* Writing the notes as a MIDI file and reading it back: a note ends with the
\* first end of a note of its pitch that comes after its start.
Encoded(notes) ==
  {[pitch |-> n.pitch, start |-> n.start,
    end   |-> Least({m.end : m \in {k \in notes : k.pitch = n.pitch /\ k.end > n.start}})]
     : n \in notes}
=============================================================================
