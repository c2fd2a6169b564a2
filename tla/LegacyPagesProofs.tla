------------------------- MODULE LegacyPagesProofs --------------------------
(***************************************************************************)
(* Theorems of LegacyLog, for any number of tabs, catches and presses, and *)
(* of LegacyDevice, for any number of pages and servers.                   *)
(***************************************************************************)
EXTENDS LegacyLog, LegacyDevice, TLAPS

(* Entries of the log, or of the list a tab read before it asked, mention   *)
(* the catches their text and their date are from.                          *)
Mentions(entries, c) == \E i \in DOMAIN entries : c \in {entries[i].text, entries[i].date}

(* A catch has an entry, and no other entry mentions it. *)
HasOneEntry(entries, c) ==
  \E i \in DOMAIN entries :
    /\ entries[i].text = c /\ entries[i].date = c
    /\ \A j \in DOMAIN entries : j # i => c \notin {entries[j].text, entries[j].date}

PressType == [catch : Catches, late : BOOLEAN]

LogShape ==
  /\ log \in Seq(Entries) /\ Len(log) <= Cap
  /\ told \in 0..MaxCatches
  /\ form \in [Windows -> Catches \union {Blank}]
  /\ editing \in [Windows -> 1..Cap \union {Blank}]
  /\ DOMAIN presses = Windows /\ DOMAIN asked = Windows
  /\ \A w \in Windows : presses[w] \in Seq(PressType)
  /\ \A w \in Windows : asked[w] # Blank =>
       /\ asked[w].index \in 1..Cap /\ asked[w].entries \in Seq(Entries)
       /\ Len(asked[w].entries) <= Cap
  /\ moved \subseteq Windows /\ logged \subseteq Catches /\ removed \subseteq Catches
  /\ disturbed \subseteq Catches

(* The catches someone tells of have been begun. *)
OnlyTold ==
  /\ \A c \in Catches : Mentions(log, c) => c <= told
  /\ \A w \in Windows :
       /\ form[w] # Blank => form[w] <= told
       /\ \A k \in DOMAIN presses[w] : presses[w][k].catch <= told
       /\ asked[w] # Blank => \A c \in Catches : Mentions(asked[w].entries, c) => c <= told

(* No one but w holds c, and it is in no entry. *)
Held(w, c) ==
  /\ ~Mentions(log, c)
  /\ \A v \in Windows : asked[v] # Blank => ~Mentions(asked[v].entries, c)
  /\ \A v \in Windows \ {w} :
       form[v] # c /\ \A k \in DOMAIN presses[v] : presses[v][k].catch # c

(* A catch that is being added is held by its tab alone.                    *)
Adds(w, c) ==
  form[w] = c \/ \E k \in DOMAIN presses[w] : ~presses[w][k].late /\ presses[w][k].catch = c

AddsItsOwn(w) == editing[w] = Blank => \A c \in Catches : Adds(w, c) => Held(w, c)

(* What is saved over an entry is that entry's, unless a save or a removal  *)
(* was out of step.                                                         *)
EditsItsOwn(w) ==
  editing[w] # Blank =>
    /\ w \notin moved =>
         \/ editing[w] \in DOMAIN log /\ log[editing[w]].text = form[w]
         \/ /\ form[w] \in disturbed
            /\ editing[w] \in DOMAIN log =>
                 {log[editing[w]].text, log[editing[w]].date} \subseteq disturbed
    /\ \A k \in DOMAIN presses[w] : ~presses[w][k].late => presses[w][k].catch = form[w]

LogInv ==
  /\ LogShape /\ OnlyTold
  /\ \A w \in Windows : AddsItsOwn(w) /\ EditsItsOwn(w)
  /\ \A c \in logged \ (removed \union disturbed) : HasOneEntry(log, c)

-----------------------------------------------------------------------------
(* Sequences                                                                *)

LEMMA RemoveAtIs ==
  ASSUME NEW S, NEW s \in Seq(S), NEW k \in DOMAIN s
  PROVE  /\ RemoveAt(s, k) \in Seq(S) /\ Len(RemoveAt(s, k)) = Len(s) - 1
         /\ DOMAIN RemoveAt(s, k) = 1..(Len(s) - 1)
         /\ \A i \in DOMAIN RemoveAt(s, k) :
              /\ i < k => i \in DOMAIN s /\ RemoveAt(s, k)[i] = s[i]
              /\ i >= k => i + 1 \in DOMAIN s /\ RemoveAt(s, k)[i] = s[i + 1]
<1> DEFINE a == SubSeq(s, 1, k - 1)
           b == SubSeq(s, k + 1, Len(s))
<1>1. /\ a \in Seq(S) /\ Len(a) = k - 1 /\ k \in 1..Len(s) /\ Len(s) \in Nat
      /\ \A i \in 1..Len(a) : a[i] = s[i]
  OBVIOUS
<1>2. /\ b \in Seq(S) /\ Len(b) = Len(s) - k
      /\ \A i \in 1..Len(b) : b[i] = s[i + k]
  OBVIOUS
<1> HIDE DEF a, b
<1>3. /\ a \o b \in Seq(S) /\ Len(a \o b) = Len(s) - 1
      /\ \A i \in 1..(Len(s) - 1) :
           (a \o b)[i] = IF i <= Len(a) THEN a[i] ELSE b[i - Len(a)]
  BY SMTT(60), <1>1, <1>2
<1>4. \A i \in 1..(Len(s) - 1) : (a \o b)[i] = IF i < k THEN s[i] ELSE s[i + 1]
  <2> SUFFICES ASSUME NEW i \in 1..(Len(s) - 1)
               PROVE  (a \o b)[i] = IF i < k THEN s[i] ELSE s[i + 1]
    OBVIOUS
  <2>1. CASE i < k
    BY <1>1, <1>3, <2>1
  <2>2. CASE ~(i < k)
    <3>1. i - Len(a) \in 1..Len(b) /\ (i - Len(a)) + k = i + 1
      BY SMTT(30), <1>1, <1>2, <2>2
    <3>2. b[i - Len(a)] = s[i + 1]
      BY <1>2, <3>1
    <3> QED
      BY <1>1, <1>3, <2>2, <3>2
  <2> QED
    BY <2>1, <2>2
<1>5. RemoveAt(s, k) = a \o b
  BY DEF RemoveAt, a, b
<1>6. \A i \in 1..(Len(s) - 1) : i \in DOMAIN s /\ i + 1 \in DOMAIN s
  OBVIOUS
<1>7. DOMAIN (a \o b) = 1..(Len(s) - 1)
  BY <1>3
<1>8. /\ RemoveAt(s, k) \in Seq(S) /\ Len(RemoveAt(s, k)) = Len(s) - 1
      /\ DOMAIN RemoveAt(s, k) = 1..(Len(s) - 1)
  BY <1>3, <1>5, <1>7
<1>9. \A i \in 1..(Len(s) - 1) : RemoveAt(s, k)[i] = IF i < k THEN s[i] ELSE s[i + 1]
  BY <1>4, <1>5
<1>10. k \in Int /\ \A i \in 1..(Len(s) - 1) : i \in Int /\ (i >= k <=> ~(i < k))
  BY <1>1
<1> QED
  BY <1>6, <1>8, <1>9, <1>10

LEMMA BelatedIs ==
  ASSUME NEW s \in Seq(PressType)
  PROVE  /\ Belated(s) \in Seq(PressType)
         /\ \A k \in DOMAIN Belated(s) :
              k \in DOMAIN s /\ Belated(s)[k].late /\ Belated(s)[k].catch = s[k].catch
<1>1. ASSUME NEW k \in DOMAIN s PROVE s[k].catch \in Catches
  <2>1. s[k] \in PressType
    OBVIOUS
  <2> QED
    BY <2>1 DEF PressType
<1>2. Belated(s) = [k \in 1..Len(s) |-> [catch |-> s[k].catch, late |-> TRUE]]
  BY DEF Belated
<1>3. \A k \in 1..Len(s) : [catch |-> s[k].catch, late |-> TRUE] \in PressType
  BY <1>1 DEF PressType
<1>4. Belated(s) \in Seq(PressType)
  BY <1>2, <1>3
<1>5. DOMAIN Belated(s) = DOMAIN s
  BY <1>2
<1>6. ASSUME NEW k \in DOMAIN s PROVE Belated(s)[k].late /\ Belated(s)[k].catch = s[k].catch
  <2>1. Belated(s)[k] = [catch |-> s[k].catch, late |-> TRUE]
    BY <1>2
  <2> QED
    BY <2>1
<1> QED
  BY <1>4, <1>5, <1>6

LEMMA LoggedIs ==
  ASSUME NEW s \in Seq(Entries), NEW c \in Catches, Len(s) <= Cap
  PROVE  /\ Logged(s, c) \in Seq(Entries) /\ Len(Logged(s, c)) <= Cap
         /\ 1 \in DOMAIN Logged(s, c) /\ Logged(s, c)[1] = [text |-> c, date |-> c]
         /\ \A i \in DOMAIN Logged(s, c) :
              i = 1 \/ (i - 1 \in DOMAIN s /\ Logged(s, c)[i] = s[i - 1])
<1> DEFINE e == [text |-> c, date |-> c]
           longer == <<e>> \o s
<1>1. e \in Entries
  BY DEF Entries
<1> HIDE DEF e
<1>2. /\ longer \in Seq(Entries) /\ Len(longer) = Len(s) + 1 /\ Len(s) \in Nat
      /\ longer[1] = e /\ \A i \in 2..(Len(s) + 1) : longer[i] = s[i - 1] /\ i - 1 \in DOMAIN s
  BY <1>1
<1>3. Cap \in Nat /\ Cap >= 1
  BY LogAssumption
<1>4. Logged(s, c) = IF Len(longer) > Cap THEN SubSeq(longer, 1, Cap) ELSE longer
  BY DEF Logged, e
<1> HIDE DEF longer
<1>5. CASE Len(longer) > Cap
  <2>1. /\ SubSeq(longer, 1, Cap) \in Seq(Entries) /\ Len(SubSeq(longer, 1, Cap)) = Cap
        /\ \A i \in 1..Cap : SubSeq(longer, 1, Cap)[i] = longer[i]
    BY <1>2, <1>3, <1>5
  <2> QED
    BY <1>2, <1>3, <1>4, <1>5, <2>1 DEF e
<1>6. CASE ~(Len(longer) > Cap)
  BY <1>2, <1>3, <1>4, <1>6 DEF e
<1> QED
  BY <1>5, <1>6

LEMMA MentionsIs ==
  ASSUME NEW s, NEW c
  PROVE  /\ Mentions(s, c) <=> \E i \in DOMAIN s : s[i].text = c \/ s[i].date = c
         /\ (c \in Of(s)) <=> Mentions(s, c)
BY DEF Mentions, Of

(* What a list mentions after an entry has left it, and what it still has.  *)
LEMMA RemovedMentions ==
  ASSUME NEW S, NEW s \in Seq(S), NEW k \in DOMAIN s, NEW c
  PROVE  /\ Mentions(RemoveAt(s, k), c) => Mentions(s, c)
         /\ HasOneEntry(s, c) /\ s[k].text # c => HasOneEntry(RemoveAt(s, k), c)
<1> DEFINE r == RemoveAt(s, k)
<1>1. /\ r \in Seq(S) /\ Len(r) = Len(s) - 1 /\ DOMAIN r = 1..(Len(s) - 1) /\ Len(s) \in Nat
      /\ DOMAIN s = 1..Len(s)
      /\ \A i \in DOMAIN r : /\ i < k => i \in DOMAIN s /\ r[i] = s[i]
                             /\ i >= k => i + 1 \in DOMAIN s /\ r[i] = s[i + 1]
  BY RemoveAtIs
<1> HIDE DEF r
<1>2. \A i \in DOMAIN r : \E j \in DOMAIN s : r[i] = s[j]
  BY <1>1
<1>3. Mentions(r, c) => Mentions(s, c)
  BY <1>2 DEF Mentions
<1>4. ASSUME HasOneEntry(s, c), s[k].text # c PROVE HasOneEntry(r, c)
  <2>1. PICK i \in DOMAIN s : /\ s[i].text = c /\ s[i].date = c
                              /\ \A j \in DOMAIN s : j # i => c \notin {s[j].text, s[j].date}
    BY <1>4 DEF HasOneEntry
  <2>2. i # k
    BY <1>4, <2>1
  <2>3. CASE i < k
    <3>1. i \in DOMAIN r /\ r[i] = s[i]
      BY <1>1, <2>3
    <3>2. \A j \in DOMAIN r : j # i => c \notin {r[j].text, r[j].date}
      <4> SUFFICES ASSUME NEW j \in DOMAIN r, j # i PROVE c \notin {r[j].text, r[j].date}
        OBVIOUS
      <4>1. PICK n \in DOMAIN s : n # i /\ r[j] = s[n]
        BY <1>1, <2>3
      <4> QED
        BY <2>1, <4>1
    <3> QED
      BY <2>1, <3>1, <3>2 DEF HasOneEntry
  <2>4. CASE i > k
    <3>1. i - 1 \in DOMAIN r /\ r[i - 1] = s[i]
      BY <1>1, <2>4
    <3>2. \A j \in DOMAIN r : j # i - 1 => c \notin {r[j].text, r[j].date}
      <4> SUFFICES ASSUME NEW j \in DOMAIN r, j # i - 1 PROVE c \notin {r[j].text, r[j].date}
        OBVIOUS
      <4>1. PICK n \in DOMAIN s : n # i /\ r[j] = s[n]
        BY <1>1, <2>4
      <4> QED
        BY <2>1, <4>1
    <3> QED
      BY <2>1, <3>1, <3>2 DEF HasOneEntry
  <2> QED
    BY <1>1, <2>2, <2>3, <2>4
<1> QED
  BY <1>3, <1>4 DEF r

LEMMA OneEntryMeans ==
  ASSUME NEW S, NEW s \in Seq(S), NEW c \in Catches, HasOneEntry(s, c), S = Entries
  PROVE  \E i \in DOMAIN s : s[i] = [text |-> c, date |-> c] /\ c \notin Of(RemoveAt(s, i))
<1>1. PICK i \in DOMAIN s : /\ s[i].text = c /\ s[i].date = c
                            /\ \A j \in DOMAIN s : j # i => c \notin {s[j].text, s[j].date}
  BY DEF HasOneEntry
<1>2. s[i] = [text |-> c, date |-> c]
  <2>1. s[i] \in Entries
    OBVIOUS
  <2> QED
    BY <1>1, <2>1 DEF Entries
<1> DEFINE r == RemoveAt(s, i)
<1>3. /\ DOMAIN r = 1..(Len(s) - 1) /\ i \in 1..Len(s) /\ Len(s) \in Nat
      /\ \A n \in DOMAIN r : /\ n < i => n \in DOMAIN s /\ r[n] = s[n]
                             /\ n >= i => n + 1 \in DOMAIN s /\ r[n] = s[n + 1]
  BY <1>1, RemoveAtIs
<1> HIDE DEF r
<1>4. ASSUME NEW j \in DOMAIN r PROVE \E n \in DOMAIN s : n # i /\ r[j] = s[n]
  <2>1. j < i \/ (j >= i /\ j + 1 # i)
    BY <1>3
  <2> QED
    BY <1>3, <2>1
<1>5. ~Mentions(r, c)
  BY <1>1, <1>4 DEF Mentions
<1> QED
  BY <1>2, <1>5, MentionsIs DEF r
-----------------------------------------------------------------------------
(* What the actions have in common                                          *)

LEMMA LogInvInit == LogInit => LogInv
<1> SUFFICES ASSUME LogInit PROVE LogInv
  OBVIOUS
<1>1. LogShape
  BY LogAssumption DEF LogInit, LogShape
<1>2. OnlyTold
  BY DEF LogInit, OnlyTold, Mentions
<1> QED
  BY <1>1, <1>2, LogAssumption DEF LogInit, LogInv, AddsItsOwn, Adds, EditsItsOwn, Catches

LEMMA HeldStays ==
  ASSUME NEW w \in Windows, NEW c, Held(w, c),
         Mentions(log', c) => Mentions(log, c),
         \A v \in Windows : asked'[v] # Blank /\ Mentions(asked'[v].entries, c) =>
           Mentions(log, c) \/ (asked[v] # Blank /\ Mentions(asked[v].entries, c)),
         \A v \in Windows \ {w} :
           /\ form'[v] = c => form[v] = c \/ Mentions(log, c)
           /\ \A k \in DOMAIN presses'[v] : presses'[v][k].catch = c =>
                form[v] = c \/ \E j \in DOMAIN presses[v] : presses[v][j].catch = c
  PROVE  Held(w, c)'
BY DEF Held

LEMMA SameAdds ==
  ASSUME LogInv, NEW w \in Windows,
         editing'[w] = editing[w], form'[w] = form[w], presses'[w] = presses[w],
         \A c \in Catches : Held(w, c) => Held(w, c)'
  PROVE  AddsItsOwn(w)'
<1>1. AddsItsOwn(w) /\ \A c \in Catches : Adds(w, c)' => Adds(w, c)
  BY DEF LogInv, Adds
<1> QED
  BY <1>1 DEF AddsItsOwn

LEMMA SameEdits ==
  ASSUME LogInv, NEW w \in Windows,
         editing'[w] = editing[w], form'[w] = form[w], presses'[w] = presses[w],
         log' = log, w \in moved => w \in moved', disturbed \subseteq disturbed'
  PROVE  EditsItsOwn(w)'
BY DEF LogInv, EditsItsOwn

LEMMA TypeCatchKeeps ==
  ASSUME LogInv, NEW u \in Windows, TypeCatch(u)
  PROVE  LogInv'
<1>1. /\ LogShape /\ OnlyTold
      /\ UNCHANGED <<log, editing, presses, asked, moved, logged, removed, disturbed>>
      /\ told' = told + 1 /\ form' = [form EXCEPT ![u] = told + 1]
      /\ told < MaxCatches /\ editing[u] = Blank
  BY DEF LogInv, TypeCatch
<1>2. /\ told \in Nat /\ told + 1 \in Catches /\ Blank \notin Nat /\ Blank # told + 1
      /\ \A c \in Catches : c <= told => c # told + 1
  BY <1>1, LogAssumption DEF LogShape, Catches
<1>3. LogShape'
  <2>1. told' \in 0..MaxCatches /\ form' \in [Windows -> Catches \union {Blank}]
    BY <1>1, <1>2 DEF LogShape, Catches
  <2> QED
    BY <1>1, <2>1 DEF LogShape
<1>4. /\ \A w \in Windows : form[w] # Blank => form[w] \in Catches /\ form[w] # told + 1 /\ form[w] <= told
      /\ \A w \in Windows : \A k \in DOMAIN presses[w] :
           /\ presses[w][k].catch \in Catches
           /\ presses[w][k].catch # told + 1 /\ presses[w][k].catch <= told
  <2>1. ASSUME NEW w \in Windows, NEW k \in DOMAIN presses[w] PROVE presses[w][k].catch \in Catches
    <3>1. presses[w][k] \in PressType
      BY <1>1 DEF LogShape
    <3> QED
      BY <3>1 DEF PressType
  <2>2. \A w \in Windows : form[w] \in Catches \union {Blank}
    BY <1>1 DEF LogShape
  <2> QED
    BY <1>1, <1>2, <2>1, <2>2 DEF OnlyTold
<1>5. /\ ~Mentions(log, told + 1)
      /\ \A v \in Windows : asked[v] # Blank => ~Mentions(asked[v].entries, told + 1)
  BY <1>1, <1>2 DEF OnlyTold
<1>6. OnlyTold'
  <2>1. \A c \in Catches : c <= told => c <= told'
    BY <1>1, <1>2 DEF Catches
  <2>2. \A w \in Windows : form'[w] # Blank => form'[w] <= told'
    BY <1>1, <1>2, <1>4, <2>1 DEF LogShape
  <2> QED
    BY <1>1, <1>4, <2>1, <2>2 DEF OnlyTold
<1>7. ASSUME NEW w \in Windows PROVE AddsItsOwn(w)' /\ EditsItsOwn(w)'
  <2>1. CASE w # u
    <3>1. form'[w] = form[w]
      BY <1>1, <2>1 DEF LogShape
    <3>2. ASSUME NEW c \in Catches, Held(w, c), c # told + 1 PROVE Held(w, c)'
      <4>1. \A v \in Windows : form'[v] = c => form[v] = c
        BY <1>1, <3>2 DEF LogShape
      <4> QED
        BY <1>1, <3>2, <4>1, HeldStays
    <3>3. \A c \in Catches : Adds(w, c)' => Adds(w, c) /\ c # told + 1
      BY <1>1, <1>2, <1>4, <3>1 DEF Adds
    <3>6. AddsItsOwn(w)'
      BY <1>1, <3>2, <3>3 DEF AddsItsOwn, LogInv
    <3> QED
      BY <1>1, <3>1, <3>6, SameEdits
  <2>2. CASE w = u
    <3>1. form'[u] = told + 1 /\ \A v \in Windows \ {u} : form'[v] = form[v]
      BY <1>1 DEF LogShape
    <3>2. ASSUME NEW c \in Catches, Adds(u, c)' PROVE Held(u, c)'
      <4>1. CASE c = told + 1
        <5>1. Held(u, c)
          BY <1>2, <1>4, <1>5, <4>1 DEF Held
        <5> QED
          BY <1>1, <3>1, <5>1, HeldStays
      <4>2. CASE c # told + 1
        <5>1. Held(u, c)
          BY <1>1, <3>1, <3>2, <4>2 DEF Adds, AddsItsOwn, LogInv
        <5> QED
          BY <1>1, <3>1, <5>1, HeldStays
      <4> QED
        BY <4>1, <4>2
    <3> QED
      BY <1>1, <2>2, <3>2 DEF AddsItsOwn, EditsItsOwn
  <2> QED
    BY <2>1, <2>2
<1> QED
  BY <1>1, <1>3, <1>6, <1>7 DEF LogInv

(* A step of the tab u that leaves the log alone and takes its text from it. *)
LEMMA OneTabKeeps ==
  ASSUME LogInv, NEW u \in Windows, UNCHANGED <<log, told, logged, removed, disturbed>>,
         LogShape', OnlyTold', AddsItsOwn(u)', EditsItsOwn(u)',
         \A v \in Windows \ {u} :
           form'[v] = form[v] /\ editing'[v] = editing[v] /\ presses'[v] = presses[v],
         \A v \in Windows \ {u} : v \in moved => v \in moved',
         \A v \in Windows : asked'[v] # Blank =>
           asked'[v].entries = log \/ (asked[v] # Blank /\ asked'[v].entries = asked[v].entries),
         \A c \in Catches : form'[u] = c => form[u] = c \/ Mentions(log, c),
         \A k \in DOMAIN presses'[u] :
           \/ presses'[u][k].catch = form[u]
           \/ \E j \in DOMAIN presses[u] : presses'[u][k].catch = presses[u][j].catch
  PROVE  LogInv'
<1>1. ASSUME NEW w \in Windows \ {u}, NEW c \in Catches, Held(w, c) PROVE Held(w, c)'
  <2>1. Mentions(log', c) => Mentions(log, c)
    OBVIOUS
  <2>2. \A v \in Windows : asked'[v] # Blank /\ Mentions(asked'[v].entries, c) =>
          Mentions(log, c) \/ (asked[v] # Blank /\ Mentions(asked[v].entries, c))
    OBVIOUS
  <2>3. \A v \in Windows \ {w} :
          /\ form'[v] = c => form[v] = c \/ Mentions(log, c)
          /\ \A k \in DOMAIN presses'[v] : presses'[v][k].catch = c =>
               form[v] = c \/ \E j \in DOMAIN presses[v] : presses[v][j].catch = c
    OBVIOUS
  <2> QED
    BY <1>1, <2>1, <2>2, <2>3, HeldStays
<1>2. ASSUME NEW w \in Windows \ {u} PROVE AddsItsOwn(w)' /\ EditsItsOwn(w)'
  BY <1>1, SameAdds, SameEdits
<1> QED
  BY <1>2 DEF LogInv

LEMMA EntriesAre ==
  ASSUME LogShape, NEW w \in Windows
  PROVE  /\ \A i \in DOMAIN log : /\ log[i].text \in Catches /\ log[i].date \in Catches
                                  /\ log[i] = [text |-> log[i].text, date |-> log[i].date]
                                  /\ Mentions(log, log[i].text) /\ Mentions(log, log[i].date)
         /\ \A k \in DOMAIN presses[w] : presses[w][k].catch \in Catches
         /\ form[w] # Blank => form[w] \in Catches
<1>1. ASSUME NEW i \in DOMAIN log
      PROVE  /\ log[i].text \in Catches /\ log[i].date \in Catches
             /\ log[i] = [text |-> log[i].text, date |-> log[i].date]
             /\ Mentions(log, log[i].text) /\ Mentions(log, log[i].date)
  <2>1. log[i] \in Entries
    BY DEF LogShape
  <2> QED
    BY <2>1 DEF Entries, Mentions
<1>2. ASSUME NEW k \in DOMAIN presses[w] PROVE presses[w][k].catch \in Catches
  <2>1. presses[w][k] \in PressType
    BY DEF LogShape
  <2> QED
    BY <2>1 DEF PressType
<1>3. form[w] # Blank => form[w] \in Catches
  BY DEF LogShape
<1> QED
  BY <1>1, <1>2, <1>3

LEMMA BlankIs == Blank \notin Catches /\ Catches \subseteq Nat /\ Blank \notin 1..Cap
BY LogAssumption DEF Catches

LEMMA startEditKeeps ==
  ASSUME LogInv, NEW u \in Windows, NEW i \in 1..Cap, startEdit(u, i)
  PROVE  LogInv'
<1>1. /\ LogShape /\ OnlyTold /\ i \in DOMAIN log
      /\ UNCHANGED <<log, told, asked, logged, removed, disturbed>>
      /\ editing' = [editing EXCEPT ![u] = i] /\ form' = [form EXCEPT ![u] = log[i].text]
      /\ presses' = [presses EXCEPT ![u] = Belated(@)] /\ moved' = moved \ {u}
  BY DEF LogInv, startEdit
<1>2. PICK c \in Catches : c = log[i].text /\ Mentions(log, c)
  BY <1>1, EntriesAre
<1>3. /\ form'[u] = c /\ editing'[u] = i /\ presses'[u] = Belated(presses[u]) /\ u \notin moved'
      /\ \A v \in Windows \ {u} :
           /\ form'[v] = form[v] /\ editing'[v] = editing[v] /\ presses'[v] = presses[v]
           /\ v \in moved => v \in moved'
      /\ presses[u] \in Seq(PressType)
  BY <1>1, <1>2 DEF LogShape
<1>4. /\ presses'[u] \in Seq(PressType)
      /\ \A k \in DOMAIN presses'[u] :
           k \in DOMAIN presses[u] /\ presses'[u][k].late /\ presses'[u][k].catch = presses[u][k].catch
  BY <1>3, BelatedIs
<1>5. LogShape'
  <2>1. /\ form' \in [Windows -> Catches \union {Blank}]
        /\ editing' \in [Windows -> 1..Cap \union {Blank}] /\ DOMAIN presses' = Windows
    BY <1>1, <1>2 DEF LogShape
  <2>2. \A w \in Windows : presses'[w] \in Seq(PressType)
    BY <1>1, <1>3, <1>4 DEF LogShape
  <2> QED
    BY <1>1, <2>1, <2>2 DEF LogShape
<1>6. OnlyTold'
  <2>1. \A w \in Windows : form'[w] # Blank => form'[w] <= told
    BY <1>1, <1>2, <1>3 DEF OnlyTold
  <2>2. \A w \in Windows : \A k \in DOMAIN presses'[w] : presses'[w][k].catch <= told
    BY <1>1, <1>3, <1>4 DEF OnlyTold
  <2> QED
    BY <1>1, <2>1, <2>2 DEF OnlyTold
<1>7. AddsItsOwn(u)'
  BY <1>3, BlankIs DEF AddsItsOwn
<1>8. EditsItsOwn(u)'
  BY <1>1, <1>2, <1>3, <1>4 DEF EditsItsOwn
<1> QED
  BY <1>1, <1>2, <1>3, <1>4, <1>5, <1>6, <1>7, <1>8, OneTabKeeps

(* What leaves a tab without a form: cancelEdit, and a page opened anew. *)
LEMMA ClearedKeeps ==
  ASSUME LogInv, NEW u \in Windows, ClearForm(u),
         NEW s, s = <<>> \/ s = Belated(presses[u]), presses' = [presses EXCEPT ![u] = s],
         moved' = moved \ {u}, UNCHANGED <<log, told, asked, logged, removed, disturbed>>
  PROVE  LogInv'
<1>1. LogShape /\ OnlyTold
  BY DEF LogInv
<1>2. /\ form'[u] = Blank /\ editing'[u] = Blank /\ presses'[u] = s
      /\ \A v \in Windows \ {u} :
           /\ form'[v] = form[v] /\ editing'[v] = editing[v] /\ presses'[v] = presses[v]
           /\ v \in moved => v \in moved'
      /\ presses[u] \in Seq(PressType)
  BY <1>1 DEF ClearForm, LogShape
<1>3. /\ presses'[u] \in Seq(PressType)
      /\ \A k \in DOMAIN presses'[u] :
           k \in DOMAIN presses[u] /\ presses'[u][k].late /\ presses'[u][k].catch = presses[u][k].catch
  <2>1. CASE s = <<>>
    BY <1>2, <2>1
  <2>2. CASE s = Belated(presses[u])
    <3>1. s \in Seq(PressType) /\ \A k \in DOMAIN s :
            k \in DOMAIN presses[u] /\ s[k].late /\ s[k].catch = presses[u][k].catch
      BY <1>2, <2>2, BelatedIs
    <3> QED
      BY <1>2, <3>1
  <2> QED
    BY <2>1, <2>2
<1>4. LogShape'
  <2>1. /\ form' \in [Windows -> Catches \union {Blank}]
        /\ editing' \in [Windows -> 1..Cap \union {Blank}] /\ DOMAIN presses' = Windows
    BY <1>1 DEF LogShape, ClearForm
  <2>2. \A w \in Windows : presses'[w] \in Seq(PressType)
    BY <1>1, <1>2, <1>3 DEF LogShape
  <2> QED
    BY <1>1, <2>1, <2>2 DEF LogShape
<1>5. OnlyTold'
  <2>1. \A w \in Windows : form'[w] # Blank => form'[w] <= told
    BY <1>1, <1>2 DEF OnlyTold
  <2>2. \A w \in Windows : \A k \in DOMAIN presses'[w] : presses'[w][k].catch <= told
    BY <1>1, <1>2, <1>3 DEF OnlyTold
  <2> QED
    BY <1>1, <2>1, <2>2 DEF OnlyTold
<1>6. AddsItsOwn(u)'
  <2>1. \A c \in Catches : ~Adds(u, c)'
    BY <1>2, <1>3, BlankIs DEF Adds
  <2> QED
    BY <2>1 DEF AddsItsOwn
<1>7. EditsItsOwn(u)'
  BY <1>2 DEF EditsItsOwn
<1>8. /\ \A c \in Catches : form'[u] = c => form[u] = c \/ Mentions(log, c)
      /\ \A k \in DOMAIN presses'[u] : \E j \in DOMAIN presses[u] :
           presses'[u][k].catch = presses[u][j].catch
  BY <1>2, <1>3, BlankIs
<1> QED
  BY <1>2, <1>4, <1>5, <1>6, <1>7, <1>8, OneTabKeeps

LEMMA PressKeeps ==
  ASSUME LogInv, NEW u \in Windows, Press(u)
  PROVE  LogInv'
<1>1. /\ LogShape /\ OnlyTold /\ form[u] # Blank
      /\ UNCHANGED <<log, told, form, editing, asked, moved, logged, removed, disturbed>>
      /\ presses' = [presses EXCEPT ![u] = Append(@, [catch |-> form[u], late |-> FALSE])]
  BY DEF LogInv, Press
<1>2. PICK c \in Catches : c = form[u] /\ [catch |-> c, late |-> FALSE] \in PressType
  BY <1>1, EntriesAre DEF PressType
<1>3. /\ presses'[u] = Append(presses[u], [catch |-> c, late |-> FALSE])
      /\ presses[u] \in Seq(PressType)
      /\ \A v \in Windows \ {u} : presses'[v] = presses[v]
  BY <1>1, <1>2 DEF LogShape
<1>4. /\ presses'[u] \in Seq(PressType)
      /\ \A k \in DOMAIN presses'[u] :
           \/ k \in DOMAIN presses[u] /\ presses'[u][k] = presses[u][k]
           \/ presses'[u][k] = [catch |-> c, late |-> FALSE]
  BY <1>2, <1>3
<1>5. \A k \in DOMAIN presses'[u] :
        \/ k \in DOMAIN presses[u] /\ presses'[u][k] = presses[u][k]
        \/ presses'[u][k].catch = c
  BY <1>4
<1>6. LogShape'
  <2>1. DOMAIN presses' = Windows /\ \A w \in Windows : presses'[w] \in Seq(PressType)
    BY <1>1, <1>3, <1>4 DEF LogShape
  <2> QED
    BY <1>1, <2>1 DEF LogShape
<1>7. OnlyTold'
  <2>1. \A w \in Windows : \A k \in DOMAIN presses'[w] : presses'[w][k].catch <= told
    BY <1>1, <1>2, <1>3, <1>5 DEF OnlyTold
  <2> QED
    BY <1>1, <2>1 DEF OnlyTold
<1>8. AddsItsOwn(u)'
  <2>1. \A d \in Catches : Adds(u, d)' => Adds(u, d)
    BY <1>1, <1>2, <1>5 DEF Adds
  <2>2. \A d \in Catches : Held(u, d) => Held(u, d)'
    BY <1>1, <1>3 DEF Held
  <2> QED
    BY <1>1, <2>1, <2>2 DEF AddsItsOwn, LogInv
<1>9. EditsItsOwn(u)'
  BY <1>1, <1>2, <1>5 DEF EditsItsOwn, LogInv
<1> QED
  BY <1>1, <1>2, <1>3, <1>5, <1>6, <1>7, <1>8, <1>9, OneTabKeeps

(* A tab asks, or the user says no.                                         *)
LEMMA AskedKeeps ==
  ASSUME LogInv, NEW u \in Windows, NEW a, asked' = [asked EXCEPT ![u] = a],
         a = Blank \/ (a.entries = log /\ a.index \in 1..Cap),
         UNCHANGED <<log, told, form, editing, presses, moved, logged, removed, disturbed>>
  PROVE  LogInv'
<1>1. LogShape /\ OnlyTold
  BY DEF LogInv
<1>2. asked'[u] = a /\ \A v \in Windows \ {u} : asked'[v] = asked[v]
  BY <1>1 DEF LogShape
<1>3. LogShape'
  <2>1. DOMAIN asked' = Windows /\ \A w \in Windows : asked'[w] # Blank =>
          /\ asked'[w].index \in 1..Cap /\ asked'[w].entries \in Seq(Entries)
          /\ Len(asked'[w].entries) <= Cap
    BY <1>1, <1>2 DEF LogShape
  <2> QED
    BY <1>1, <2>1 DEF LogShape
<1>4. OnlyTold'
  BY <1>1, <1>2 DEF OnlyTold
<1>5. AddsItsOwn(u)'
  <2>1. \A d \in Catches : Adds(u, d)' => Adds(u, d)
    BY DEF Adds
  <2>2. \A d \in Catches : Held(u, d) => Held(u, d)'
    BY <1>2 DEF Held
  <2> QED
    BY <2>1, <2>2 DEF AddsItsOwn, LogInv
<1>6. EditsItsOwn(u)'
  BY DEF EditsItsOwn, LogInv
<1> QED
  BY <1>2, <1>3, <1>4, <1>5, <1>6, OneTabKeeps

(* The photos of the press p of u have been read: what becomes of u, and    *)
(* of the presses that are left.                                            *)
LEMMA PhotosReadTab ==
  ASSUME LogInv, NEW u \in Windows, NEW k \in DOMAIN presses[u],
         presses' = [presses EXCEPT ![u] = Belated(RemoveAt(@, k))],
         form' = [form EXCEPT ![u] = Blank]
  PROVE  /\ DOMAIN presses' = Windows /\ \A w \in Windows : presses'[w] \in Seq(PressType)
         /\ form' \in [Windows -> Catches \union {Blank}] /\ form'[u] = Blank
         /\ \A v \in Windows \ {u} : form'[v] = form[v] /\ presses'[v] = presses[v]
         /\ \A n \in DOMAIN presses'[u] : /\ presses'[u][n].late
              /\ \E j \in DOMAIN presses[u] : presses'[u][n].catch = presses[u][j].catch
         /\ \A c \in Catches : ~Adds(u, c)'
<1>1. LogShape
  BY DEF LogInv
<1>2. /\ presses[u] \in Seq(PressType) /\ presses'[u] = Belated(RemoveAt(presses[u], k))
      /\ form'[u] = Blank /\ form' \in [Windows -> Catches \union {Blank}]
      /\ \A v \in Windows \ {u} : form'[v] = form[v] /\ presses'[v] = presses[v]
      /\ DOMAIN presses' = Windows
  BY <1>1 DEF LogShape
<1> DEFINE r == RemoveAt(presses[u], k)
<1>3. r \in Seq(PressType) /\ \A n \in DOMAIN r : \E j \in DOMAIN presses[u] : r[n] = presses[u][j]
  <2>1. /\ r \in Seq(PressType) /\ Len(r) = Len(presses[u]) - 1
        /\ DOMAIN r = 1..(Len(presses[u]) - 1)
        /\ \A i \in DOMAIN r :
             /\ i < k => i \in DOMAIN presses[u] /\ r[i] = presses[u][i]
             /\ i >= k => i + 1 \in DOMAIN presses[u] /\ r[i] = presses[u][i + 1]
    BY <1>2, RemoveAtIs
  <2>2. k \in Nat /\ Len(presses[u]) \in Nat
    BY <1>2
  <2> HIDE DEF r
  <2> QED
    BY <2>1, <2>2
<1> HIDE DEF r
<1>4. /\ presses'[u] \in Seq(PressType)
      /\ \A n \in DOMAIN presses'[u] :
           n \in DOMAIN r /\ presses'[u][n].late /\ presses'[u][n].catch = r[n].catch
  BY <1>2, <1>3, BelatedIs DEF r
<1>5. \A n \in DOMAIN presses'[u] : /\ presses'[u][n].late
        /\ \E j \in DOMAIN presses[u] : presses'[u][n].catch = presses[u][j].catch
  BY <1>3, <1>4
<1>6. \A w \in Windows : presses'[w] \in Seq(PressType)
  BY <1>1, <1>2, <1>4 DEF LogShape
<1>7. \A c \in Catches : ~Adds(u, c)'
  BY <1>2, <1>5, BlankIs DEF Adds
<1> QED
  BY <1>2, <1>5, <1>6, <1>7

(* It was for a new entry, or for the one that u edits.                     *)
LEMMA PhotosReadKeeps ==
  ASSUME LogInv, NEW u \in Windows, NEW k \in DOMAIN presses[u], PhotosRead(u, k)
  PROVE  LogInv'
<1>1. PICK c, late : c = presses[u][k].catch /\ late = presses[u][k].late
  OBVIOUS
<1>2. PICK i : i = editing[u]
  OBVIOUS
<1>3. /\ presses' = [presses EXCEPT ![u] = Belated(RemoveAt(@, k))]
      /\ form' = [form EXCEPT ![u] = Blank] /\ UNCHANGED <<told, asked>>
      /\ \/ /\ i # Blank /\ i <= Len(log)
            /\ log' = [log EXCEPT ![i].text = presses[u][k].catch]
            /\ editing' = [editing EXCEPT ![u] = Blank]
            /\ moved' = moved \ {u}
            /\ disturbed' = IF presses[u][k].late \/ u \in moved
                            THEN disturbed \union Of(<<log[i]>>) \union {presses[u][k].catch}
                            ELSE disturbed
            /\ UNCHANGED <<logged, removed>>
         \/ /\ ~(i # Blank /\ i <= Len(log))
            /\ log' = Logged(log, presses[u][k].catch)
            /\ logged' = logged \union {presses[u][k].catch}
            /\ moved' = moved \union EditingFrom(1)
            /\ removed' = removed \union (Of(log) \ Of(log'))
            /\ disturbed' = IF (presses[u][k].late \/ i # Blank) /\ presses[u][k].catch \in Of(log)
                            THEN disturbed \union {presses[u][k].catch} ELSE disturbed
            /\ UNCHANGED editing
  BY <1>2, Zenon DEF PhotosRead
<1>4. /\ DOMAIN presses' = Windows /\ \A w \in Windows : presses'[w] \in Seq(PressType)
      /\ form' \in [Windows -> Catches \union {Blank}] /\ form'[u] = Blank
      /\ \A v \in Windows \ {u} : form'[v] = form[v] /\ presses'[v] = presses[v]
      /\ \A n \in DOMAIN presses'[u] : /\ presses'[u][n].late
           /\ \E j \in DOMAIN presses[u] : presses'[u][n].catch = presses[u][j].catch
      /\ \A d \in Catches : ~Adds(u, d)'
  BY <1>3, PhotosReadTab
<1>5. LogShape /\ OnlyTold /\ c \in Catches /\ c <= told
  BY <1>1, EntriesAre DEF LogInv, OnlyTold
<1>6. AddsItsOwn(u)'
  BY <1>4 DEF AddsItsOwn
<1>7. ASSUME \A d \in Catches : Mentions(log', d) => Mentions(log, d) \/ d = c,
             NEW w \in Windows \ {u}, NEW d \in Catches, Held(w, d)
      PROVE  Held(w, d)'
  <2>1. d # c
    BY <1>1, <1>7 DEF Held
  <2>2. Mentions(log', d) => Mentions(log, d)
    BY <1>7, <2>1
  <2>3. \A v \in Windows : asked'[v] # Blank /\ Mentions(asked'[v].entries, d) =>
          Mentions(log, d) \/ (asked[v] # Blank /\ Mentions(asked[v].entries, d))
    BY <1>3
  <2>4. \A v \in Windows \ {w} :
          /\ form'[v] = d => form[v] = d \/ Mentions(log, d)
          /\ \A n \in DOMAIN presses'[v] : presses'[v][n].catch = d =>
               form[v] = d \/ \E j \in DOMAIN presses[v] : presses[v][j].catch = d
    BY <1>4, BlankIs
  <2> QED
    BY <1>7, <2>2, <2>3, <2>4, HeldStays
<1>8. ASSUME \A d \in Catches : Mentions(log', d) => Mentions(log, d) \/ d = c PROVE OnlyTold'
  <2>1. \A w \in Windows : form'[w] # Blank => form'[w] <= told
    BY <1>4, <1>5 DEF OnlyTold
  <2>2. \A w \in Windows : \A n \in DOMAIN presses'[w] : presses'[w][n].catch <= told
    BY <1>4, <1>5 DEF OnlyTold
  <2> QED
    BY <1>3, <1>5, <1>8, <2>1, <2>2 DEF OnlyTold
<1>9. ASSUME \A d \in Catches : Mentions(log', d) => Mentions(log, d) \/ d = c,
             \A v \in Windows \ {u} : editing'[v] = editing[v],
             LogShape', \A w \in Windows : EditsItsOwn(w)',
             \A d \in logged' \ (removed' \union disturbed') : HasOneEntry(log, d)'
      PROVE  LogInv'
  <2>1. ASSUME NEW w \in Windows \ {u} PROVE AddsItsOwn(w)'
    BY <1>4, <1>7, <1>9, SameAdds
  <2> QED
    BY <1>6, <1>8, <1>9, <2>1 DEF LogInv
<1>10. CASE i # Blank /\ i <= Len(log)
  <2>1. /\ log' = [log EXCEPT ![i].text = c]
        /\ editing' = [editing EXCEPT ![u] = Blank]
        /\ moved' = moved \ {u}
        /\ disturbed' = IF late \/ u \in moved
                        THEN disturbed \union Of(<<log[i]>>) \union {c} ELSE disturbed
        /\ UNCHANGED <<logged, removed>>
    BY <1>1, <1>3, <1>10
  <2>2. i \in DOMAIN log /\ i \in 1..Cap /\ log \in Seq(Entries)
    BY <1>2, <1>5, <1>10 DEF LogShape
  <2>3. PICK t, d : t = log[i].text /\ d = log[i].date
    OBVIOUS
  <2>4. t \in Catches /\ d \in Catches /\ log[i] = [text |-> t, date |-> d] /\ Mentions(log, d)
    BY <1>5, <2>2, <2>3, EntriesAre
  <2>5. (late \/ u \in moved) => disturbed' = disturbed \union {t, d, c}
    <3>1. Of(<<log[i]>>) = {t, d}
      <4>1. DOMAIN <<log[i]>> = {1} /\ <<log[i]>>[1] = log[i]
        OBVIOUS
      <4> QED
        BY <2>3, <4>1 DEF Of
    <3> QED
      BY <2>1, <3>1
  <2>6. ~(late \/ u \in moved) => disturbed' = disturbed /\ (c = t \/ {c, t, d} \subseteq disturbed)
    <3>1. ASSUME ~late, u \notin moved PROVE c = t \/ {c, t, d} \subseteq disturbed
      <4>1. c = form[u]
        BY <1>1, <1>2, <1>10, <3>1 DEF LogInv, EditsItsOwn
      <4> QED
        BY <1>2, <1>10, <2>2, <2>3, <3>1, <4>1 DEF LogInv, EditsItsOwn
    <3> QED
      BY <2>1, <3>1
  <2>7. disturbed \subseteq disturbed' /\ (c = t \/ {c, t, d} \subseteq disturbed')
    BY <2>5, <2>6
  <2>8. /\ [text |-> c, date |-> d] \in Entries /\ log' = [log EXCEPT ![i] = [text |-> c, date |-> d]]
    <3>1. [log[i] EXCEPT !.text = c] = [text |-> c, date |-> d]
      BY <2>4
    <3> QED
      BY <1>5, <2>1, <2>4, <3>1 DEF Entries
  <2>9. /\ log' \in Seq(Entries) /\ Len(log') = Len(log) /\ DOMAIN log' = DOMAIN log
        /\ log'[i] = [text |-> c, date |-> d] /\ \A n \in DOMAIN log \ {i} : log'[n] = log[n]
    BY <2>2, <2>8
  <2>10. log'[i].text = c /\ log'[i].date = d
    BY <2>9
  <2>11. \A e \in Catches : Mentions(log', e) => Mentions(log, e) \/ e = c
    BY <2>4, <2>9, <2>10 DEF Mentions
  <2>12. LogShape'
    <3>1. editing' \in [Windows -> 1..Cap \union {Blank}]
      BY <1>5, <2>1 DEF LogShape
    <3>2. disturbed' \subseteq Catches
      BY <1>5, <2>4, <2>5, <2>6 DEF LogShape
    <3> QED
      BY <1>3, <1>4, <1>5, <2>1, <2>9, <3>1, <3>2 DEF LogShape
  <2>13. \A v \in Windows \ {u} : editing'[v] = editing[v] /\ (v \notin moved' => v \notin moved)
    BY <1>5, <2>1 DEF LogShape
  <2>14. ASSUME NEW w \in Windows PROVE EditsItsOwn(w)'
    <3>1. CASE w = u
      BY <1>5, <2>1, <3>1 DEF EditsItsOwn, LogShape
    <3>2. CASE w # u
      <4>1. EditsItsOwn(w) /\ editing'[w] = editing[w] /\ form'[w] = form[w]
            /\ presses'[w] = presses[w] /\ (w \notin moved' => w \notin moved)
        BY <1>4, <2>13, <3>2 DEF LogInv
      <4>2. CASE editing[w] # i
        BY <2>7, <2>9, <4>1, <4>2 DEF EditsItsOwn
      <4>3. CASE editing[w] = i
        BY <2>2, <2>3, <2>7, <2>9, <2>10, <4>1, <4>3 DEF EditsItsOwn
      <4> QED
        BY <4>2, <4>3
    <3> QED
      BY <3>1, <3>2
  <2>15. ASSUME NEW e \in logged' \ (removed' \union disturbed') PROVE HasOneEntry(log, e)'
    <3>1. HasOneEntry(log, e)
      BY <2>1, <2>7, <2>15 DEF LogInv
    <3>2. CASE c = t
      <4>1. log' = log
        BY <2>2, <2>4, <2>8, <3>2
      <4> QED
        BY <3>1, <4>1
    <3>3. CASE {c, t, d} \subseteq disturbed'
      <4>1. e # c /\ e # t /\ e # d
        BY <2>15, <3>3
      <4>2. PICK n \in DOMAIN log : /\ log[n].text = e /\ log[n].date = e
                                    /\ \A j \in DOMAIN log : j # n => e \notin {log[j].text, log[j].date}
        BY <3>1 DEF HasOneEntry
      <4>3. n # i
        BY <2>3, <4>1, <4>2
      <4>4. /\ n \in DOMAIN log' /\ log'[n].text = e /\ log'[n].date = e
            /\ \A j \in DOMAIN log' : j # n => e \notin {log'[j].text, log'[j].date}
        BY <2>9, <2>10, <4>1, <4>2, <4>3
      <4> QED
        BY <4>4 DEF HasOneEntry
    <3> QED
      BY <2>7, <3>2, <3>3
  <2> QED
    BY <1>9, <2>11, <2>12, <2>13, <2>14, <2>15
<1>11. CASE ~(i # Blank /\ i <= Len(log))
  <2>1. /\ log' = Logged(log, c)
        /\ logged' = logged \union {c}
        /\ moved' = moved \union EditingFrom(1)
        /\ removed' = removed \union (Of(log) \ Of(log'))
        /\ disturbed' = IF (late \/ i # Blank) /\ c \in Of(log) THEN disturbed \union {c} ELSE disturbed
        /\ UNCHANGED editing
    BY <1>1, <1>3, <1>11
  <2>2. log \in Seq(Entries) /\ Len(log) <= Cap
    BY <1>5 DEF LogShape
  <2>3. /\ log' \in Seq(Entries) /\ Len(log') <= Cap
        /\ 1 \in DOMAIN log' /\ log'[1] = [text |-> c, date |-> c]
        /\ \A n \in DOMAIN log' : n = 1 \/ (n - 1 \in DOMAIN log /\ log'[n] = log[n - 1])
    BY <1>5, <2>1, <2>2, LoggedIs
  <2>4. log'[1].text = c /\ log'[1].date = c
    BY <2>3
  <2>5. \A e \in Catches : Mentions(log', e) => Mentions(log, e) \/ e = c
    BY <2>3, <2>4 DEF Mentions
  <2>6. \A e \in Catches : Mentions(log, e) /\ ~Mentions(log', e) => e \in removed'
    BY <2>1, MentionsIs
  <2>7. (c \in Of(log)) <=> Mentions(log, c)
    BY MentionsIs
  <2>8. Mentions(log, c) => c \in disturbed'
    <3>1. CASE late \/ i # Blank
      BY <2>1, <2>7, <3>1
    <3>2. CASE ~late /\ i = Blank
      <4>1. Adds(u, c)
        BY <1>1, <3>2 DEF Adds
      <4> QED
        BY <1>2, <1>5, <3>2, <4>1 DEF LogInv, AddsItsOwn, Held
    <3> QED
      BY <3>1, <3>2
  <2>9. disturbed \subseteq disturbed' /\ disturbed' \subseteq disturbed \union {c}
    BY <2>1
  <2>10. LogShape'
    <3>1. removed' \subseteq Catches
      <4>1. \A n \in DOMAIN log : log[n].text \in Catches /\ log[n].date \in Catches
        BY <1>5, EntriesAre
      <4>2. Of(log) \subseteq Catches
        BY <4>1 DEF Of
      <4> QED
        BY <1>5, <2>1, <4>2 DEF LogShape
    <3>2. moved' \subseteq Windows
      BY <1>5, <2>1 DEF LogShape, EditingFrom
    <3> QED
      BY <1>3, <1>4, <1>5, <2>1, <2>3, <2>9, <3>1, <3>2 DEF LogShape
  <2>11. ASSUME NEW w \in Windows PROVE EditsItsOwn(w)'
    <3>1. editing[w] # Blank => w \in moved'
      BY <1>5, <2>1, BlankIs DEF EditingFrom, LogShape
    <3>2. CASE w = u
      <4>1. \A n \in DOMAIN presses'[u] : presses'[u][n].late
        BY <1>4
      <4> QED
        BY <2>1, <3>1, <3>2, <4>1 DEF EditsItsOwn
    <3>3. CASE w # u
      <4>1. EditsItsOwn(w) /\ form'[w] = form[w] /\ presses'[w] = presses[w]
        BY <1>4, <3>3 DEF LogInv
      <4> QED
        BY <2>1, <3>1, <4>1 DEF EditsItsOwn
    <3> QED
      BY <3>2, <3>3
  <2>12. ASSUME NEW e \in logged' \ (removed' \union disturbed') PROVE HasOneEntry(log, e)'
    <3>1. e \in Catches
      BY <1>5, <2>1, <2>12 DEF LogShape
    <3>2. CASE e = c
      <4>1. ~Mentions(log, c)
        BY <2>8, <2>12, <3>2
      <4>2. \A j \in DOMAIN log' : j # 1 => c \notin {log'[j].text, log'[j].date}
        BY <2>3, <4>1 DEF Mentions
      <4> QED
        BY <2>3, <2>4, <3>2, <4>2 DEF HasOneEntry
    <3>3. CASE e # c
      <4>1. HasOneEntry(log, e)
        BY <2>1, <2>9, <2>12, <3>3 DEF LogInv
      <4>2. PICK n \in DOMAIN log : /\ log[n].text = e /\ log[n].date = e
                                    /\ \A j \in DOMAIN log : j # n => e \notin {log[j].text, log[j].date}
        BY <4>1 DEF HasOneEntry
      <4>3. Mentions(log, e)
        BY <4>2 DEF Mentions
      <4>4. Mentions(log', e)
        BY <2>6, <2>12, <3>1, <4>3
      <4>5. PICK m \in DOMAIN log' : e \in {log'[m].text, log'[m].date}
        BY <4>4 DEF Mentions
      <4>6. m # 1 /\ m - 1 \in DOMAIN log /\ log'[m] = log[m - 1]
        BY <2>3, <2>4, <3>3, <4>5
      <4>7. m - 1 = n
        BY <4>2, <4>5, <4>6
      <4>8. log'[m].text = e /\ log'[m].date = e
        BY <4>2, <4>6, <4>7
      <4>9. \A j \in DOMAIN log' : j # m => e \notin {log'[j].text, log'[j].date}
        <5> SUFFICES ASSUME NEW j \in DOMAIN log', j # m PROVE e \notin {log'[j].text, log'[j].date}
          OBVIOUS
        <5>1. CASE j = 1
          BY <2>4, <3>3, <5>1
        <5>2. CASE j # 1
          <6>1. j - 1 \in DOMAIN log /\ log'[j] = log[j - 1] /\ j - 1 # n
            BY <2>3, <4>7, <5>2
          <6> QED
            BY <4>2, <6>1
        <5> QED
          BY <5>1, <5>2
      <4> QED
        BY <4>8, <4>9 DEF HasOneEntry
    <3> QED
      BY <3>2, <3>3
  <2> QED
    BY <1>9, <2>1, <2>5, <2>10, <2>11, <2>12
<1> QED
  BY <1>10, <1>11

(* The entry the user agreed to remove leaves the list read before.         *)
LEMMA ConfirmedLog ==
  ASSUME LogShape, NEW u \in Windows, Confirmed(u)
  PROVE  /\ log' \in Seq(Entries) /\ Len(log') <= Cap
         /\ \A c \in Catches : Mentions(log', c) => Mentions(asked[u].entries, c)
         /\ removed \subseteq removed' /\ removed' \subseteq Catches
         /\ \A c \in Catches \ removed' :
              HasOneEntry(asked[u].entries, c) => HasOneEntry(log', c)
         /\ \A n \in Nat : n < asked[u].index =>
              /\ (n \in DOMAIN log') <=> (n \in DOMAIN asked[u].entries)
              /\ n \in DOMAIN log' => log'[n] = asked[u].entries[n]
<1>1. PICK entries, index : entries = asked[u].entries /\ index = asked[u].index
  OBVIOUS
<1> DEFINE gone == IF index \in DOMAIN entries THEN {entries[index].text} ELSE {}
<1>2. /\ asked[u] # Blank
      /\ log' = IF gone = {} THEN entries ELSE RemoveAt(entries, index)
      /\ removed' = removed \union gone
  BY <1>1, Zenon DEF Confirmed
<1>3. entries \in Seq(Entries) /\ Len(entries) <= Cap /\ Len(entries) \in Nat /\ index \in Nat
  BY <1>1, <1>2 DEF LogShape
<1>4. CASE index \notin DOMAIN entries
  <2>1. log' = entries /\ removed' = removed
    BY <1>2, <1>4
  <2> QED
    BY <1>1, <1>3, <2>1 DEF LogShape
<1>5. CASE index \in DOMAIN entries
  <2>1. log' = RemoveAt(entries, index) /\ removed' = removed \union {entries[index].text}
    BY <1>2, <1>5
  <2>2. /\ log' \in Seq(Entries) /\ Len(log') = Len(entries) - 1 /\ DOMAIN log' = 1..(Len(entries) - 1)
        /\ DOMAIN entries = 1..Len(entries)
        /\ \A i \in DOMAIN log' : i < index => i \in DOMAIN entries /\ log'[i] = entries[i]
    BY <1>3, <1>5, <2>1, RemoveAtIs
  <2>3. entries[index].text \in Catches
    <3>1. entries[index] \in Entries
      BY <1>3, <1>5
    <3> QED
      BY <3>1 DEF Entries
  <2>4. ASSUME NEW c \in Catches PROVE Mentions(log', c) => Mentions(entries, c)
    BY <1>3, <1>5, <2>1, RemovedMentions
  <2>5. ASSUME NEW c \in Catches \ removed', HasOneEntry(entries, c) PROVE HasOneEntry(log', c)
    <3>1. entries[index].text # c
      BY <2>1, <2>5
    <3> QED
      BY <1>3, <1>5, <2>1, <2>5, <3>1, RemovedMentions
  <2>6. \A n \in Nat : n < index =>
          /\ (n \in DOMAIN log') <=> (n \in DOMAIN entries)
          /\ n \in DOMAIN log' => log'[n] = entries[n]
    BY <1>3, <1>5, <2>2
  <2>7. removed \subseteq removed' /\ removed' \subseteq Catches
    BY <2>1, <2>3 DEF LogShape
  <2>8. Len(log') <= Cap
    <3>1. Cap \in Nat
      BY LogAssumption
    <3> QED
      BY <1>3, <2>2, <3>1
  <2> QED
    BY <1>1, <2>2, <2>4, <2>5, <2>6, <2>7, <2>8
<1> QED
  BY <1>4, <1>5

LEMMA ConfirmedKeeps ==
  ASSUME LogInv, NEW u \in Windows, Confirmed(u)
  PROVE  LogInv'
<1>1. PICK entries, index : entries = asked[u].entries /\ index = asked[u].index
  OBVIOUS
<1>2. /\ asked[u] # Blank
      /\ \/ /\ editing[u] = index
            /\ ClearForm(u)
            /\ presses' = [presses EXCEPT ![u] = Belated(@)]
         \/ /\ editing[u] # index
            /\ UNCHANGED <<form, editing, presses>>
      /\ moved' = (moved \union EditingFrom(index)) \ {v \in {u} : editing[v] = index}
      /\ disturbed' = IF entries = log THEN disturbed
                      ELSE disturbed \union Of(log) \union Of(entries)
      /\ asked' = [asked EXCEPT ![u] = Blank]
      /\ UNCHANGED <<told, logged>>
  BY <1>1, Zenon DEF Confirmed, RemovesEdited
<1>3. LogShape /\ OnlyTold
  BY DEF LogInv
<1>4. /\ log' \in Seq(Entries) /\ Len(log') <= Cap
      /\ \A c \in Catches : Mentions(log', c) => Mentions(entries, c)
      /\ removed \subseteq removed' /\ removed' \subseteq Catches
      /\ \A c \in Catches \ removed' : HasOneEntry(entries, c) => HasOneEntry(log', c)
      /\ \A n \in Nat : n < index =>
           /\ (n \in DOMAIN log') <=> (n \in DOMAIN entries)
           /\ n \in DOMAIN log' => log'[n] = entries[n]
  BY <1>1, <1>3, ConfirmedLog
<1>5. /\ entries \in Seq(Entries) /\ index \in 1..Cap /\ index \in Nat
      /\ \A c \in Catches : Mentions(entries, c) => c <= told
  BY <1>1, <1>2, <1>3 DEF LogShape, OnlyTold
<1>6. /\ asked'[u] = Blank /\ \A v \in Windows \ {u} : asked'[v] = asked[v]
      /\ DOMAIN asked' = Windows
  BY <1>2, <1>3 DEF LogShape
<1>7. /\ \A v \in Windows \ {u} :
           form'[v] = form[v] /\ editing'[v] = editing[v] /\ presses'[v] = presses[v]
      /\ form' \in [Windows -> Catches \union {Blank}]
      /\ editing' \in [Windows -> 1..Cap \union {Blank}] /\ DOMAIN presses' = Windows
      /\ \/ form'[u] = form[u] /\ editing'[u] = editing[u] /\ presses'[u] = presses[u] /\ editing[u] # index
         \/ form'[u] = Blank /\ editing'[u] = Blank /\ presses'[u] = Belated(presses[u])
  BY <1>2, <1>3 DEF LogShape, ClearForm
<1>8. /\ presses'[u] \in Seq(PressType)
      /\ \A k \in DOMAIN presses'[u] :
           /\ k \in DOMAIN presses[u] /\ presses'[u][k].catch = presses[u][k].catch
           /\ presses'[u] # presses[u] => presses'[u][k].late
  <2>1. presses[u] \in Seq(PressType)
    BY <1>3 DEF LogShape
  <2>2. /\ Belated(presses[u]) \in Seq(PressType)
        /\ \A k \in DOMAIN Belated(presses[u]) :
             /\ k \in DOMAIN presses[u] /\ Belated(presses[u])[k].late
             /\ Belated(presses[u])[k].catch = presses[u][k].catch
    BY <2>1, BelatedIs
  <2> QED
    BY <1>7, <2>1, <2>2
<1>9. /\ \A c \in Catches : (c \in Of(log)) <=> Mentions(log, c)
      /\ \A c \in Catches : (c \in Of(entries)) <=> Mentions(entries, c)
      /\ Of(log) \subseteq Catches /\ Of(entries) \subseteq Catches
  <2>1. \A s \in Seq(Entries) : Of(s) \subseteq Catches
    <3> SUFFICES ASSUME NEW s \in Seq(Entries) PROVE Of(s) \subseteq Catches
      OBVIOUS
    <3>1. \A i \in DOMAIN s : s[i] \in Entries
      OBVIOUS
    <3> QED
      BY <3>1 DEF Of, Entries
  <2> QED
    BY <1>3, <1>5, <2>1, MentionsIs DEF LogShape
<1>10. disturbed \subseteq disturbed' /\ disturbed' \subseteq Catches
  BY <1>2, <1>3, <1>9 DEF LogShape
<1>11. LogShape'
  <2>1. \A w \in Windows : presses'[w] \in Seq(PressType)
    BY <1>3, <1>7, <1>8 DEF LogShape
  <2>2. moved' \subseteq Windows
    BY <1>2, <1>3 DEF LogShape, EditingFrom
  <2>3. \A w \in Windows : asked'[w] # Blank =>
          /\ asked'[w].index \in 1..Cap /\ asked'[w].entries \in Seq(Entries)
          /\ Len(asked'[w].entries) <= Cap
    BY <1>3, <1>6 DEF LogShape
  <2> QED
    BY <1>2, <1>3, <1>4, <1>6, <1>7, <1>10, <2>1, <2>2, <2>3 DEF LogShape
<1>12. OnlyTold'
  <2>1. \A w \in Windows : form'[w] # Blank => form'[w] <= told
    BY <1>3, <1>7 DEF OnlyTold
  <2>2. \A w \in Windows : \A k \in DOMAIN presses'[w] : presses'[w][k].catch <= told
    BY <1>3, <1>7, <1>8 DEF OnlyTold
  <2>3. \A w \in Windows : asked'[w] # Blank => \A c \in Catches : Mentions(asked'[w].entries, c) => c <= told
    BY <1>3, <1>6 DEF OnlyTold
  <2> QED
    BY <1>2, <1>4, <1>5, <2>1, <2>2, <2>3 DEF OnlyTold
<1>13. ASSUME NEW w \in Windows, NEW c \in Catches, Held(w, c) PROVE Held(w, c)'
  <2>1. ~Mentions(log', c)
    BY <1>1, <1>2, <1>4, <1>13 DEF Held
  <2>2. \A v \in Windows : asked'[v] # Blank => ~Mentions(asked'[v].entries, c)
    BY <1>6, <1>13 DEF Held
  <2>3. \A v \in Windows \ {w} :
          form'[v] # c /\ \A k \in DOMAIN presses'[v] : presses'[v][k].catch # c
    BY <1>7, <1>8, <1>13, BlankIs DEF Held
  <2> QED
    BY <2>1, <2>2, <2>3 DEF Held
<1>14. ASSUME NEW w \in Windows PROVE AddsItsOwn(w)'
  <2>1. CASE editing'[w] = editing[w] /\ form'[w] = form[w] /\ presses'[w] = presses[w]
    BY <1>13, <2>1, SameAdds
  <2>2. CASE ~(editing'[w] = editing[w] /\ form'[w] = form[w] /\ presses'[w] = presses[w])
    <3>1. w = u /\ form'[u] = Blank
      BY <1>7, <2>2
    <3>2. CASE presses'[u] = presses[u]
      <4>1. \A c \in Catches : Adds(u, c)' => Adds(u, c)
        BY <3>1, <3>2, BlankIs DEF Adds
      <4>2. CASE editing[u] = Blank
        BY <1>13, <3>1, <4>1, <4>2 DEF LogInv, AddsItsOwn
      <4>3. CASE editing[u] # Blank
        <5>1. presses'[u] = Belated(presses[u]) /\ \A k \in DOMAIN Belated(presses[u]) : Belated(presses[u])[k].late
          BY <1>3, <1>7, <2>2, <3>1, BelatedIs DEF LogShape
        <5>2. \A c \in Catches : ~Adds(u, c)'
          BY <3>1, <5>1, BlankIs DEF Adds
        <5> QED
          BY <3>1, <5>2 DEF AddsItsOwn
      <4> QED
        BY <4>2, <4>3
    <3>3. CASE presses'[u] # presses[u]
      <4>1. \A c \in Catches : ~Adds(u, c)'
        BY <1>8, <3>1, <3>3, BlankIs DEF Adds
      <4> QED
        BY <3>1, <4>1 DEF AddsItsOwn
    <3> QED
      BY <3>2, <3>3
  <2> QED
    BY <2>1, <2>2
<1>15. ASSUME NEW w \in Windows PROVE EditsItsOwn(w)'
  <2> SUFFICES ASSUME editing'[w] # Blank
               PROVE  /\ w \notin moved' =>
                           \/ editing'[w] \in DOMAIN log' /\ log'[editing'[w]].text = form'[w]
                           \/ /\ form'[w] \in disturbed'
                              /\ editing'[w] \in DOMAIN log' =>
                                   {log'[editing'[w]].text, log'[editing'[w]].date} \subseteq disturbed'
                      /\ \A k \in DOMAIN presses'[w] : ~presses'[w][k].late => presses'[w][k].catch = form'[w]
    BY DEF EditsItsOwn
  <2>1. /\ form'[w] = form[w] /\ editing'[w] = editing[w] /\ presses'[w] = presses[w]
        /\ w = u => editing[u] # index
    BY <1>7
  <2>2. EditsItsOwn(w)
    BY DEF LogInv
  <2>3. PICK n \in 1..Cap : n = editing[w]
    BY <1>3, <2>1 DEF LogShape
  <2>4. n # Blank /\ n \in Nat
    BY <2>3, BlankIs
  <2>5. \A k \in DOMAIN presses[w] : ~presses[w][k].late => presses[w][k].catch = form[w]
    BY <2>2, <2>3, <2>4 DEF EditsItsOwn
  <2>6. ASSUME w \notin moved'
        PROVE  \/ n \in DOMAIN log' /\ log'[n].text = form[w]
               \/ /\ form[w] \in disturbed'
                  /\ n \in DOMAIN log' => {log'[n].text, log'[n].date} \subseteq disturbed'
    <3>1. w \notin moved /\ n < index
      <4>1. w \notin moved /\ w \notin EditingFrom(index)
        BY <1>2, <2>1, <2>6
      <4> QED
        BY <1>5, <2>3, <2>4, <4>1 DEF EditingFrom
    <3>2. \/ n \in DOMAIN log /\ log[n].text = form[w]
          \/ /\ form[w] \in disturbed
             /\ n \in DOMAIN log => {log[n].text, log[n].date} \subseteq disturbed
      BY <2>2, <2>3, <2>4, <3>1 DEF EditsItsOwn
    <3>3. CASE entries = log
      <4>1. /\ (n \in DOMAIN log') <=> (n \in DOMAIN log)
            /\ n \in DOMAIN log' => log'[n] = log[n]
        BY <1>4, <2>4, <3>1, <3>3
      <4> QED
        BY <1>10, <3>2, <4>1
    <3>4. CASE entries # log
      <4>1. disturbed' = disturbed \union Of(log) \union Of(entries)
        BY <1>2, <3>4
      <4>2. form[w] \in disturbed'
        <5>1. CASE n \in DOMAIN log /\ log[n].text = form[w]
          BY <1>3, <1>9, <4>1, <5>1, EntriesAre
        <5> QED
          BY <3>2, <4>1, <5>1
      <4>3. ASSUME n \in DOMAIN log' PROVE {log'[n].text, log'[n].date} \subseteq disturbed'
        <5>1. n \in DOMAIN entries /\ log'[n] = entries[n]
          BY <1>4, <2>4, <3>1, <4>3
        <5>2. {entries[n].text, entries[n].date} \subseteq Of(entries)
          BY <5>1 DEF Of
        <5> QED
          BY <4>1, <5>1, <5>2
      <4> QED
        BY <4>2, <4>3
    <3> QED
      BY <3>3, <3>4
  <2> QED
    BY <2>1, <2>3, <2>5, <2>6
<1>16. ASSUME NEW c \in logged' \ (removed' \union disturbed') PROVE HasOneEntry(log, c)'
  <2>1. c \in logged \ (removed \union disturbed) /\ c \in Catches
    BY <1>2, <1>3, <1>4, <1>10, <1>16 DEF LogShape
  <2>2. HasOneEntry(log, c)
    BY <2>1 DEF LogInv
  <2>3. CASE entries = log
    BY <1>4, <1>16, <2>1, <2>2, <2>3
  <2>4. CASE entries # log
    <3>1. Mentions(log, c)
      BY <2>2 DEF HasOneEntry, Mentions
    <3> QED
      BY <1>2, <1>9, <1>16, <2>1, <2>4, <3>1
  <2> QED
    BY <2>3, <2>4
<1> QED
  BY <1>11, <1>12, <1>14, <1>15, <1>16 DEF LogInv

LEMMA LogInvNext == LogInv /\ [LogNext]_logVars => LogInv'
<1> SUFFICES ASSUME LogInv, [LogNext]_logVars PROVE LogInv'
  OBVIOUS
<1>1. CASE UNCHANGED logVars
  <2>1. UNCHANGED <<log, told, form, editing, presses, asked, moved, logged, removed, disturbed>>
    BY <1>1 DEF logVars
  <2> QED
    BY <2>1 DEF LogInv, LogShape, OnlyTold, AddsItsOwn, Adds, Held, EditsItsOwn
<1>2. ASSUME NEW w \in Windows, LogStep(w) PROVE LogInv'
  <2>1. CASE TypeCatch(w)
    BY <2>1, TypeCatchKeeps
  <2>2. CASE cancelEdit(w)
    BY <2>2, ClearedKeeps DEF cancelEdit
  <2>3. CASE Press(w)
    BY <2>3, PressKeeps
  <2>4. CASE Confirmed(w)
    BY <2>4, ConfirmedKeeps
  <2>5. CASE Declined(w)
    BY <2>5, AskedKeeps DEF Declined
  <2>6. CASE ReloadLog(w)
    BY <2>6, ClearedKeeps DEF ReloadLog
  <2>7. ASSUME NEW i \in 1..Cap, startEdit(w, i) PROVE LogInv'
    BY <2>7, startEditKeeps
  <2>8. ASSUME NEW i \in 1..Cap, deleteLog(w, i) PROVE LogInv'
    BY <2>8, AskedKeeps DEF deleteLog
  <2>9. ASSUME NEW k \in DOMAIN presses[w], PhotosRead(w, k) PROVE LogInv'
    BY <2>9, PhotosReadKeeps
  <2> QED
    BY <1>2, <2>1, <2>2, <2>3, <2>4, <2>5, <2>6, <2>7, <2>8, <2>9 DEF LogStep
<1> QED
  BY <1>1, <1>2 DEF LogNext

(* A catch once logged has exactly one entry, with its own date, until it   *)
(* is removed (fishing_log.js:236-402), with any number of tabs, photos     *)
(* being read and questions open; but for the catches of the three kinds of *)
(* steps that CatchesAreKept excepts: late presses, edits whose entry has   *)
(* moved since they began, and removals of a list written meanwhile.        *)
THEOREM CatchesStay == LogSpec => []CatchesAreKept
<1>1. LogInv => CatchesAreKept
  <2> SUFFICES ASSUME LogInv, NEW c \in logged \ (removed \union disturbed)
               PROVE  \E i \in DOMAIN log : log[i] = [text |-> c, date |-> c] /\ c \notin Of(RemoveAt(log, i))
    BY DEF CatchesAreKept
  <2>1. HasOneEntry(log, c) /\ c \in Catches /\ log \in Seq(Entries)
    BY DEF LogInv, LogShape
  <2> QED
    BY <2>1, OneEntryMeans
<1> QED
  BY <1>1, LogInvInit, LogInvNext, PTL DEF LogSpec

-----------------------------------------------------------------------------
(***************************************************************************)
(* LegacyDevice                                                            *)
(***************************************************************************)

(* Pages and posts that are not outdated tell of the profile the user       *)
(* meant, and so does the row while none that is has been taken; a process  *)
(* that is not behind has the profile of the row.                           *)
DeviceInv ==
  /\ DeviceTypeOK
  /\ ~undone =>
       /\ recorded.profile = meant
       /\ \A p \in Pages : tab[p] # Nowhere /\ ~tab[p].outdated => tab[p].profile = meant
       /\ \A x \in posts : ~x.outdated => x.payload.profile = meant
  /\ \A s \in Servers \ behind : entry[s] # Nowhere => entry[s].profile = recorded.profile

LEMMA DeviceInvInit == DeviceInit => DeviceInv
<1> SUFFICES ASSUME DeviceInit PROVE DeviceInv
  OBVIOUS
<1>1. recorded \in Rows /\ recorded.profile \in Profiles
  BY DEF DeviceInit, Rows
<1>2. undone \in BOOLEAN
  BY Zenon DEF DeviceInit
<1> QED
  BY <1>1, <1>2, DeviceAssumption DEF DeviceInit, DeviceInv, DeviceTypeOK

(* What a save through s leaves of the processes.                           *)
LEMMA StoresOK ==
  ASSUME DeviceInv, NEW s \in Servers, NEW row \in Rows, Stores(s, row)
  PROVE  /\ recorded' = row
         /\ entry' \in [Servers -> Rows \union {Nowhere}] /\ behind' \subseteq Servers
         /\ \A o \in Servers \ behind' : entry'[o] # Nowhere => entry'[o].profile = recorded'.profile
<1>1. /\ recorded' = row /\ entry' = [entry EXCEPT ![s] = Nowhere]
      /\ entry \in [Servers -> Rows \union {Nowhere}] /\ behind \subseteq Servers
  BY DEF Stores, Emptied, DeviceInv, DeviceTypeOK
<1>2. CASE row.profile = recorded.profile
  BY <1>1, <1>2 DEF Stores, DeviceInv
<1>3. CASE row.profile # recorded.profile
  BY <1>1, <1>3 DEF Stores
<1> QED
  BY <1>1, <1>2, <1>3

LEMMA ReadOK ==
  ASSUME DeviceInv, NEW s \in Servers
  PROVE  Read(s) \in Rows /\ (s \notin behind => Read(s).profile = recorded.profile)
BY DEF Read, DeviceInv, DeviceTypeOK

(* The page, the payload, that a page sends.                                *)
LEMMA SyncOK ==
  ASSUME NEW page \in [profile : Profiles, ground : Grounds, outdated : BOOLEAN],
         NEW favs \in SUBSET Grounds, Sync(page, favs),
         posts \subseteq [payload : Payloads, outdated : BOOLEAN]
  PROVE  /\ posts' \subseteq [payload : Payloads, outdated : BOOLEAN]
         /\ \A x \in posts' : x \in posts \/ (x.payload.profile = page.profile /\ x.outdated = page.outdated)
<1> DEFINE payload == [profile |-> page.profile, favorites |-> favs, location_id |-> page.ground]
           x == [payload |-> payload, outdated |-> page.outdated]
<1>1. payload \in Payloads /\ payload.profile = page.profile
  BY DEF Payloads
<1>2. posts' \subseteq posts \union {x}
  BY DEF Sync
<1> HIDE DEF payload
<1>3. x \in [payload : Payloads, outdated : BOOLEAN] /\ x.payload = payload /\ x.outdated = page.outdated
  BY <1>1
<1> HIDE DEF x
<1> QED
  BY <1>1, <1>2, <1>3

LEMMA OpenOK ==
  ASSUME DeviceInv, NEW p \in Pages, NEW s \in Servers, NEW g \in Grounds,
         NEW t \in Types \union {Nowhere}, Open(p, s, g, t)
  PROVE  DeviceInv'
<1> DEFINE row == Read(s)
           page == [profile |-> IF t = Nowhere THEN row.profile ELSE [row.profile EXCEPT !.types = t],
                    ground |-> g, outdated |-> s \in behind \/ t # Nowhere]
<1>1. row \in Rows /\ row.profile \in Profiles /\ row.favorites \subseteq Grounds
  BY ReadOK DEF Rows
<1>2. page.profile \in Profiles
  BY <1>1 DEF Profiles
<1>3. page \in [profile : Profiles, ground : Grounds, outdated : BOOLEAN]
  BY <1>2
<1>4. ~page.outdated => page.profile = recorded.profile
  BY ReadOK
<1>5. /\ opens' \in 0..MaxOpens /\ entry' = [entry EXCEPT ![s] = row]
      /\ tab' = [tab EXCEPT ![p] = page]
      /\ favorites' \subseteq Grounds /\ Sync(page, favorites')
      /\ UNCHANGED <<recorded, sync_hash, edits, meant, behind, undone>>
  BY <1>1, DeviceAssumption DEF Open, DeviceInv, DeviceTypeOK
<1> HIDE DEF page
<1>6. /\ posts' \subseteq [payload : Payloads, outdated : BOOLEAN]
      /\ \A x \in posts' : x \in posts \/ (x.payload.profile = page.profile /\ x.outdated = page.outdated)
  BY <1>3, <1>5, SyncOK DEF DeviceInv, DeviceTypeOK
<1> HIDE DEF row
<1>7. /\ entry' \in [Servers -> Rows \union {Nowhere}]
      /\ tab' \in [Pages -> [profile : Profiles, ground : Grounds, outdated : BOOLEAN]
                            \union {Nowhere}]
      /\ \A q \in Pages : tab'[q] = tab[q] \/ tab'[q] = page
  BY <1>1, <1>3, <1>5 DEF DeviceInv, DeviceTypeOK
<1>8. \A o \in Servers \ behind : entry'[o] # Nowhere => entry'[o].profile = recorded.profile
  BY <1>5, ReadOK DEF DeviceInv, DeviceTypeOK, row
<1>9. ~undone => /\ \A q \in Pages : tab'[q] # Nowhere /\ ~tab'[q].outdated => tab'[q].profile = meant
                 /\ \A x \in posts' : ~x.outdated => x.payload.profile = meant
  BY <1>4, <1>6, <1>7 DEF DeviceInv
<1> QED
  BY <1>5, <1>6, <1>7, <1>8, <1>9 DEF DeviceInv, DeviceTypeOK

LEMMA ToggleOK == ASSUME DeviceInv, NEW p \in Pages, toggleFavorite(p) PROVE DeviceInv'
<1>1. tab[p] \in [profile : Profiles, ground : Grounds, outdated : BOOLEAN]
  BY DEF toggleFavorite, DeviceInv, DeviceTypeOK
<1>2. /\ favorites' \subseteq Grounds /\ Sync(tab[p], favorites') /\ tab[p] # Nowhere
      /\ UNCHANGED <<recorded, entry, sync_hash, tab, opens, edits, meant, behind, undone>>
  BY <1>1 DEF toggleFavorite, DeviceInv, DeviceTypeOK
<1>3. /\ posts' \subseteq [payload : Payloads, outdated : BOOLEAN]
      /\ \A x \in posts' : x \in posts \/ (x.payload.profile = tab[p].profile /\ x.outdated = tab[p].outdated)
  BY <1>1, <1>2, SyncOK DEF DeviceInv, DeviceTypeOK
<1> QED
  BY <1>2, <1>3 DEF DeviceInv, DeviceTypeOK

(* A payload is taken.                                                      *)
LEMMA PostOK ==
  ASSUME DeviceInv, NEW s \in Servers, NEW x \in posts, posts' = posts \ {x},
         Stores(s, [recorded EXCEPT !.profile = x.payload.profile]),
         sync_hash' \in Payloads \union {Nowhere}, undone' = (undone \/ x.outdated),
         UNCHANGED <<favorites, tab, opens, edits, meant>>
  PROVE  DeviceInv'
<1> DEFINE row == [recorded EXCEPT !.profile = x.payload.profile]
<1>1. x.payload \in Payloads /\ x.outdated \in BOOLEAN /\ x.payload.profile \in Profiles
  BY DEF DeviceInv, DeviceTypeOK, Payloads
<1>2. row \in Rows /\ row.profile = x.payload.profile
  BY <1>1 DEF Rows, DeviceInv, DeviceTypeOK
<1>3. undone' \in BOOLEAN /\ (~undone' => ~undone /\ ~x.outdated)
  <2>1. undone \in BOOLEAN
    BY DEF DeviceInv, DeviceTypeOK
  <2> QED
    BY <1>1, <2>1, Zenon
<1>4. /\ recorded' = row
      /\ entry' \in [Servers -> Rows \union {Nowhere}] /\ behind' \subseteq Servers
      /\ \A o \in Servers \ behind' : entry'[o] # Nowhere => entry'[o].profile = recorded'.profile
  BY <1>2, StoresOK
<1> HIDE DEF row
<1>5. ~undone' => recorded'.profile = meant
  BY <1>2, <1>3, <1>4 DEF DeviceInv
<1> QED
  BY <1>2, <1>3, <1>4, <1>5 DEF DeviceInv, DeviceTypeOK

LEMMA TakenOK ==
  ASSUME DeviceInv, NEW s \in Servers, NEW x \in posts, Taken(x, s) \/ Lost(x, s)
  PROVE  DeviceInv'
<1>1. x.payload \in Payloads
  BY DEF DeviceInv, DeviceTypeOK
<1>2. ASSUME posts' = posts \ {x},
             UNCHANGED <<recorded, entry, behind, favorites, sync_hash, tab, opens, edits, meant, undone>>
      PROVE  DeviceInv'
  BY <1>2 DEF DeviceInv, DeviceTypeOK
<1>3. CASE Taken(x, s)
  BY <1>1, <1>2, <1>3, PostOK DEF Taken
<1>4. CASE Lost(x, s)
  BY <1>2, <1>4, PostOK DEF Lost, DeviceInv, DeviceTypeOK
<1> QED
  BY <1>3, <1>4

LEMMA SaveProfileOK ==
  ASSUME DeviceInv, NEW s \in Servers, NEW profile \in Profiles, SaveProfile(s, profile)
  PROVE  DeviceInv'
<1> DEFINE row == [recorded EXCEPT !.profile = profile]
<1>1. row \in Rows /\ row.profile = profile
  BY DEF Rows, DeviceInv, DeviceTypeOK
<1>2. /\ recorded' = row
      /\ entry' \in [Servers -> Rows \union {Nowhere}] /\ behind' \subseteq Servers
      /\ \A o \in Servers \ behind' : entry'[o] # Nowhere => entry'[o].profile = recorded'.profile
  BY <1>1, StoresOK DEF SaveProfile
<1> HIDE DEF row
<1>3. /\ tab' \in [Pages -> [profile : Profiles, ground : Grounds, outdated : BOOLEAN]
                            \union {Nowhere}]
      /\ \A p \in Pages : tab'[p] # Nowhere => tab'[p].outdated
  <2>1. tab' = [p \in Pages |-> IF tab[p] = Nowhere THEN Nowhere ELSE [tab[p] EXCEPT !.outdated = TRUE]]
    BY DEF SaveProfile
  <2>2. ASSUME NEW p \in Pages
        PROVE  /\ tab'[p] \in [profile : Profiles, ground : Grounds, outdated : BOOLEAN] \union {Nowhere}
               /\ tab'[p] # Nowhere => tab'[p].outdated
    <3>1. tab[p] \in [profile : Profiles, ground : Grounds, outdated : BOOLEAN] \union {Nowhere}
      BY DEF DeviceInv, DeviceTypeOK
    <3> QED
      BY <2>1, <3>1
  <2> QED
    BY <2>1, <2>2
<1>4. /\ posts' \subseteq [payload : Payloads, outdated : BOOLEAN]
      /\ \A x \in posts' : x.outdated
  <2> SUFFICES ASSUME NEW y \in posts'
               PROVE  y \in [payload : Payloads, outdated : BOOLEAN] /\ y.outdated
    OBVIOUS
  <2>1. PICK x \in posts : y = [x EXCEPT !.outdated = TRUE]
    BY DEF SaveProfile
  <2>2. x \in [payload : Payloads, outdated : BOOLEAN]
    BY DEF DeviceInv, DeviceTypeOK
  <2> QED
    BY <2>1, <2>2
<1>5. /\ meant' = profile /\ undone' = FALSE /\ edits' \in 0..MaxEdits
      /\ UNCHANGED <<favorites, sync_hash, opens>>
  BY DeviceAssumption DEF SaveProfile, DeviceInv, DeviceTypeOK
<1> QED
  BY <1>1, <1>2, <1>3, <1>4, <1>5 DEF DeviceInv, DeviceTypeOK

LEMMA SetupFavoriteOK ==
  ASSUME DeviceInv, NEW s \in Servers, NEW g \in Grounds, setup_favorite(s, g)
  PROVE  DeviceInv'
<1>1. PICK F \in SUBSET Grounds : Stores(s, [recorded EXCEPT !.favorites = F])
  BY ReadOK DEF setup_favorite, Rows
<1> DEFINE row == [recorded EXCEPT !.favorites = F]
<1>2. row \in Rows /\ row.profile = recorded.profile
  BY DEF Rows, DeviceInv, DeviceTypeOK
<1>3. /\ recorded' = row
      /\ entry' \in [Servers -> Rows \union {Nowhere}] /\ behind' \subseteq Servers
      /\ \A o \in Servers \ behind' : entry'[o] # Nowhere => entry'[o].profile = recorded'.profile
  BY <1>1, <1>2, StoresOK
<1> HIDE DEF row
<1>4. edits' \in 0..MaxEdits /\ UNCHANGED <<favorites, sync_hash, tab, posts, opens, meant, undone>>
  BY DeviceAssumption DEF setup_favorite, DeviceInv, DeviceTypeOK
<1> QED
  BY <1>2, <1>3, <1>4 DEF DeviceInv, DeviceTypeOK

LEMMA DeviceInvNext == DeviceInv /\ [DeviceNext]_deviceVars => DeviceInv'
<1> SUFFICES ASSUME DeviceInv, [DeviceNext]_deviceVars PROVE DeviceInv'
  OBVIOUS
<1>1. ASSUME NEW s \in Servers, Expire(s) PROVE DeviceInv'
  BY <1>1 DEF Expire, DeviceInv, DeviceTypeOK
<1>2. CASE UNCHANGED deviceVars
  BY <1>2 DEF deviceVars, DeviceInv, DeviceTypeOK
<1> QED
  BY <1>1, <1>2, OpenOK, ToggleOK, TakenOK, SaveProfileOK, SetupFavoriteOK DEF DeviceNext

(* The tabs, the posts under way, the row and the caches keep their types  *)
(* (page.js, views.py).                                                    *)
THEOREM DeviceTypes == DeviceSpec => []DeviceTypeOK
<1>1. DeviceInv => DeviceTypeOK
  BY DEF DeviceInv
<1> QED
  BY <1>1, DeviceInvInit, DeviceInvNext, PTL DEF DeviceSpec

(* What pages post back changes the profile only when an outdated page has *)
(* posted (page.js:346-368, views.py:482-540), with any number of pages,   *)
(* posts and processes.                                                    *)
THEOREM OutdatedPagesAloneUndo == DeviceSpec => []OnlyOutdatedPagesUndo
<1>1. DeviceInv => OnlyOutdatedPagesUndo
  BY DEF DeviceInv, OnlyOutdatedPagesUndo
<1> QED
  BY <1>1, DeviceInvInit, DeviceInvNext, PTL DEF DeviceSpec
=============================================================================
