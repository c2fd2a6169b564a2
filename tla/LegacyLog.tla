----------------------------- MODULE LegacyLog -----------------------------
(***************************************************************************)
(* static/js/fishing_log.js: the catch log of one location, a list in the  *)
(* localStorage that all tabs of the browser share, newest first.  A tab   *)
(* renders the list when it changes it itself and gives the rows their     *)
(* index; what is edited, removed or saved is found by that index.         *)
(*                                                                         *)
(* Saving reads the photos of the form first, and removing asks the user   *)
(* first: both hand the page back while they wait.  An entry is the catch  *)
(* its text tells of and the catch its date and kept photos are from.      *)
(* Photos of the camera, the statistics and the copy posted to the server  *)
(* (another row for every save, never repeated, never removed) are left    *)
(* out.                                                                    *)
(***************************************************************************)
EXTENDS Naturals, Sequences, SequencesExt

CONSTANTS
  Windows,       \* tabs with the log open
  MaxCatches,    \* bound on the catches the user has to tell of
  Cap,           \* entries kept (50)
  MaxWaits,      \* bound on the saves and removals under way
  Blank          \* an empty form, or nothing edited or asked

ASSUME LogAssumption == {MaxCatches, Cap, MaxWaits} \subseteq Nat \ {0} /\ Blank \notin Nat

VARIABLES
  log,           \* localStorage
  told,          \* catches the user has begun to tell of
  form,          \* the catch whose text the form of a tab holds
  editing,       \* _editingIndex, Blank in add-new mode
  presses,       \* presses of the button whose photos are being read
  asked,         \* the removal a tab asks the user to confirm
  moved,         \* tabs whose edited entry may have another index than when the edit began
  logged,        \* catches that have been added to the log
  removed,       \* catches the user has removed, or the cap has
  disturbed      \* catches some save or removal out of step may have hit

logVars == <<log, told, form, editing, presses, asked, moved, logged, removed, disturbed>>

Catches == 1..MaxCatches
Entries == [text : Catches, date : Catches]

LogInit ==
  /\ log = <<>> /\ told = 0
  /\ form = [w \in Windows |-> Blank]
  /\ editing = [w \in Windows |-> Blank]
  /\ presses = [w \in Windows |-> <<>>]
  /\ asked = [w \in Windows |-> Blank]
  /\ moved = {} /\ logged = {} /\ removed = {} /\ disturbed = {}

(* The catches of some entries. *)
Of(entries) == UNION {{entries[i].text, entries[i].date} : i \in DOMAIN entries}

(* confirm() blocks the tab that asks.                                      *)
Free(w) == asked[w] = Blank

Waits ==
  FoldSet(LAMBDA w, n : n + Len(presses[w]) + (IF Free(w) THEN 0 ELSE 1), 0, Windows)

(* What was pressed before the form changed its purpose comes too late.     *)
Belated(s) == [i \in DOMAIN s |-> [catch |-> s[i].catch, late |-> TRUE]]

(* The tabs that edit an entry an insertion or removal at i moves.          *)
EditingFrom(i) == {w \in Windows : editing[w] # Blank /\ editing[w] >= i}

(* A new entry, first of the 50 that are kept.                              *)
Logged(entries, c) ==
  LET longer == <<[text |-> c, date |-> c]>> \o entries
  IN IF Len(longer) > Cap THEN SubSeq(longer, 1, Cap) ELSE longer

(* The user begins to tell of a new catch. *)
TypeCatch(w) ==
  /\ Free(w) /\ editing[w] = Blank /\ told < MaxCatches
  /\ form[w] = Blank \/ \E i \in DOMAIN presses[w] : presses[w][i].catch = form[w]
  /\ told' = told + 1
  /\ form' = [form EXCEPT ![w] = told + 1]
  /\ UNCHANGED <<log, editing, presses, asked, moved, logged, removed, disturbed>>

startEdit(w, i) ==
  /\ Free(w) /\ i \in DOMAIN log
  /\ editing' = [editing EXCEPT ![w] = i]
  /\ form' = [form EXCEPT ![w] = log[i].text]
  /\ presses' = [presses EXCEPT ![w] = Belated(@)]
  /\ moved' = moved \ {w}
  /\ UNCHANGED <<log, told, asked, logged, removed, disturbed>>

(* What cancelEdit leaves of the form. *)
ClearForm(w) ==
  /\ editing' = [editing EXCEPT ![w] = Blank]
  /\ form' = [form EXCEPT ![w] = Blank]

cancelEdit(w) ==
  /\ Free(w) /\ editing[w] # Blank
  /\ ClearForm(w)
  /\ presses' = [presses EXCEPT ![w] = Belated(@)]
  /\ moved' = moved \ {w}
  /\ UNCHANGED <<log, told, asked, logged, removed, disturbed>>

(* addLogEntry, to where it waits for the photos.                           *)
Press(w) ==
  /\ Free(w) /\ form[w] # Blank /\ Waits < MaxWaits
  /\ presses' = [presses EXCEPT ![w] = Append(@, [catch |-> form[w], late |-> FALSE])]
  /\ UNCHANGED <<log, told, form, editing, asked, moved, logged, removed, disturbed>>

(* The rest of it: which entry is edited is read only now.                  *)
PhotosRead(w, k) ==
  LET p == presses[w][k]
      i == editing[w]
      isEdit == i # Blank /\ i <= Len(log)
  IN /\ Free(w)
     /\ presses' = [presses EXCEPT ![w] = Belated(RemoveAt(@, k))]
     /\ form' = [form EXCEPT ![w] = Blank]
     /\ \/ /\ isEdit
           /\ log' = [log EXCEPT ![i].text = p.catch]
           /\ editing' = [editing EXCEPT ![w] = Blank]
           /\ moved' = moved \ {w}
           /\ disturbed' = IF p.late \/ w \in moved
                           THEN disturbed \union Of(<<log[i]>>) \union {p.catch} ELSE disturbed
           /\ UNCHANGED <<logged, removed>>
        \/ /\ ~isEdit
           /\ log' = Logged(log, p.catch)
           /\ logged' = logged \union {p.catch}
           /\ moved' = moved \union EditingFrom(1)
           /\ removed' = removed \union (Of(log) \ Of(log'))
           /\ disturbed' = IF (p.late \/ i # Blank) /\ p.catch \in Of(log)
                           THEN disturbed \union {p.catch} ELSE disturbed
           /\ UNCHANGED editing
     /\ UNCHANGED <<told, asked>>

(* deleteLog, to where it waits for the answer.                             *)
deleteLog(w, i) ==
  /\ Free(w) /\ Waits < MaxWaits /\ log # <<>>
  /\ asked' = [asked EXCEPT ![w] = [entries |-> log, index |-> i]]
  /\ UNCHANGED <<log, told, form, editing, presses, moved, logged, removed, disturbed>>

(* mutant: removing the entry that is edited leaves it edited               *)
RemovesEditedNever(w) == FALSE

RemovesEdited(w) == editing[w] = asked[w].index

(* The list written back is the one read before the question.               *)
Confirmed(w) ==
  LET a == asked[w]
      gone == IF a.index \in DOMAIN a.entries THEN {a.entries[a.index].text} ELSE {}
      kept == IF gone = {} THEN a.entries ELSE RemoveAt(a.entries, a.index)
  IN /\ a # Blank
     /\ log' = kept
     /\ \/ /\ RemovesEdited(w)
           /\ ClearForm(w)
           /\ presses' = [presses EXCEPT ![w] = Belated(@)]
        \/ /\ ~RemovesEdited(w)
           /\ UNCHANGED <<form, editing, presses>>
     /\ moved' = (moved \union EditingFrom(a.index)) \ {v \in {w} : editing[v] = a.index}
     /\ removed' = removed \union gone
     /\ disturbed' = IF a.entries = log THEN disturbed
                     ELSE disturbed \union Of(log) \union Of(a.entries)
     /\ asked' = [asked EXCEPT ![w] = Blank]
     /\ UNCHANGED <<told, logged>>

Declined(w) ==
  /\ asked[w] # Blank
  /\ asked' = [asked EXCEPT ![w] = Blank]
  /\ UNCHANGED <<log, told, form, editing, presses, moved, logged, removed, disturbed>>

(* The page is opened anew. *)
ReloadLog(w) ==
  /\ Free(w)
  /\ form[w] # Blank \/ editing[w] # Blank \/ presses[w] # <<>>
  /\ ClearForm(w)
  /\ presses' = [presses EXCEPT ![w] = <<>>]
  /\ moved' = moved \ {w}
  /\ UNCHANGED <<log, told, asked, logged, removed, disturbed>>

LogStep(w) ==
  \/ TypeCatch(w) \/ cancelEdit(w) \/ Press(w)
  \/ Confirmed(w) \/ Declined(w) \/ ReloadLog(w)
  \/ \E i \in 1..Cap : startEdit(w, i) \/ deleteLog(w, i)
  \/ \E k \in DOMAIN presses[w] : PhotosRead(w, k)

LogNext == \E w \in Windows : LogStep(w)

LogSpec == LogInit /\ [][LogNext]_logVars
-----------------------------------------------------------------------------
(* The variables keep their types, and the log its length.                  *)
LogTypeOK ==
  /\ log \in Seq(Entries) /\ Len(log) <= Cap
  /\ told \in 0..MaxCatches
  /\ form \in [Windows -> Catches \union {Blank}]
  /\ editing \in [Windows -> 1..Cap \union {Blank}]
  /\ \A w \in Windows : presses[w] \in Seq([catch : Catches, late : BOOLEAN])
  /\ \A w \in Windows : Free(w) \/ asked[w] \in [entries : Seq(Entries), index : 1..Cap]
  /\ moved \subseteq Windows /\ logged \subseteq Catches /\ removed \subseteq Catches /\ disturbed \subseteq Catches

(* A catch once logged has exactly one entry, with its own date, until the  *)
(* user removes it or the cap does (fishing_log.js:236-402).  Excepted are  *)
(* the catches of three kinds of steps, which the code takes as they come:  *)
(*   - a save whose press is late: since it the form was saved, cancelled,  *)
(*     or given an entry to edit, the second of a double press included;    *)
(*   - a save of an edit during which the list was changed at the entry's   *)
(*     index or before it, by a removal in the same tab or by another tab:  *)
(*     it overwrites the entry that has moved there, or adds a second one;  *)
(*   - a removal in one tab while whose question another wrote the list.    *)
CatchesAreKept ==
  \A c \in logged \ (removed \union disturbed) :
    \E i \in DOMAIN log :
      log[i] = [text |-> c, date |-> c] /\ c \notin Of(RemoveAt(log, i))
=============================================================================
