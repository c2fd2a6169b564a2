--------------------------- MODULE BrowserProofs ----------------------------
(***************************************************************************)
(* Theorems of AccountData, for any number of users, calls and locations,  *)
(* and of the browser's LocationSearch and ServiceWorker.                  *)
(*                                                                         *)
(* TypeOK of AccountData is inductive with what a PATCH holds of the row   *)
(* it has read (SeenOK).  That a deleted account leaves rows only to an    *)
(* overlap needs more: once a user's data are wiped, or the account is     *)
(* gone, and no call overlapped the wipe, no call that could write is      *)
(* under way (Swept).                                                      *)
(***************************************************************************)
EXTENDS MCAccountData, LocationSearch, ServiceWorker, TLAPS

SeenOK ==
  /\ DOMAIN seen = Slots
  /\ \A s \in Slots : Op(s) = "patch" /\ phase[s] = "read" => seen[s] \in PrefRow \union {NoRow}

Typed == TypeOK /\ SeenOK

-----------------------------------------------------------------------------
(* What the calls are made of                                               *)

LEMMA CallShape ==
  ASSUME Typed, NEW s \in Slots
  PROVE  /\ Op(s) # "none" => UserOf(s) \in Users /\ call[s] \in Calls
         /\ Op(s) = "patch" => call[s].body \in Bodies
         /\ Op(s) = "save" => call[s].loc \in Ids
<1>1. call[s] \in Calls \union {NoCall}
  BY DEF Typed, TypeOK
<1>2. NoCall.op = "none"
  BY DEF NoCall
<1> QED
  BY <1>1, <1>2 DEF Calls, Op, UserOf

LEMMA BodyShape ==
  ASSUME NEW b \in Bodies
  PROVE  /\ DOMAIN b \subseteq {"units", "home"}
         /\ "units" \in DOMAIN b => b["units"] \in Units \union {Null}
         /\ "home" \in DOMAIN b => b["home"] \in Homes
<1>1. CASE b \in [{"units"} -> Units \union {Null}] \union [{"home"} -> Homes]
  BY <1>1
<1>2. CASE b \in PrefRow
  BY <1>2 DEF PrefRow
<1> QED
  BY <1>1, <1>2 DEF Bodies

LEMMA Fields == DOMAIN Defaults = {"units", "home"} /\ Defaults.units \in Units /\ Defaults.home \in Homes
BY DEF Defaults, Units, Homes

LEMMA RowShape ==
  ASSUME NEW r, DOMAIN r = {"units", "home"}, r = [f \in DOMAIN r |-> r[f]],
         r["units"] \in Units, r["home"] \in Homes
  PROVE  r \in PrefRow
<1>1. r = [units |-> r["units"], home |-> r["home"]]
  OBVIOUS
<1> QED
  BY <1>1 DEF PrefRow

LEMMA PatchTypes ==
  ASSUME Typed, NEW s \in Slots, Op(s) = "patch", phase[s] = "read"
  PROVE  /\ NewRow(s) \in PrefRow
         /\ prefs[UserOf(s)] # NoRow /\ UpdatedRow(s).units # Null => UpdatedRow(s) \in PrefRow
<1> DEFINE b == call[s].body
<1>1. /\ DOMAIN b \subseteq {"units", "home"}
      /\ "units" \in DOMAIN b => b["units"] \in Units \union {Null}
      /\ "home" \in DOMAIN b => b["home"] \in Homes
  BY CallShape, BodyShape
<1>2. NewRow(s) \in PrefRow
  <2> DEFINE r == NewRow(s)
  <2>1. DOMAIN r = {"units", "home"} /\ r = [f \in DOMAIN r |-> r[f]]
    BY Fields DEF NewRow
  <2>2. \A f \in {"units", "home"} :
           r[f] = IF f \in DOMAIN b /\ b[f] # Null THEN b[f] ELSE Defaults[f]
    BY Fields DEF NewRow
  <2> HIDE DEF b, r
  <2>3. r["units"] \in Units /\ r["home"] \in Homes
    BY <1>1, <2>2, Fields
  <2>4. r \in PrefRow
    BY <2>1, <2>3, RowShape
  <2> QED
    BY <2>4 DEF r
<1>3. ASSUME prefs[UserOf(s)] # NoRow, UpdatedRow(s).units # Null
      PROVE  UpdatedRow(s) \in PrefRow
  <2> DEFINE r == UpdatedRow(s)
  <2>1. DOMAIN r = {"units", "home"} /\ r = [f \in DOMAIN r |-> r[f]]
    BY Fields DEF UpdatedRow
  <2>2. prefs[UserOf(s)] \in PrefRow
    BY <1>3, CallShape DEF Typed, TypeOK
  <2>3. prefs[UserOf(s)]["units"] \in Units /\ prefs[UserOf(s)]["home"] \in Homes
    BY <2>2 DEF PrefRow
  <2>4. r["units"] # Null
    BY <1>3
  <2>5. Sets(s) \subseteq DOMAIN b
    BY DEF Sets
  <2>6. \A f \in {"units", "home"} : r[f] = IF f \in Sets(s) THEN b[f] ELSE prefs[UserOf(s)][f]
    BY <2>5, Fields DEF UpdatedRow
  <2> HIDE DEF b, r
  <2>7. r["units"] \in Units /\ r["home"] \in Homes
    BY <1>1, <2>3, <2>4, <2>5, <2>6
  <2>8. r \in PrefRow
    BY <2>1, <2>7, RowShape
  <2> QED
    BY <2>8 DEF r
<1> QED
  BY <1>2, <1>3

-----------------------------------------------------------------------------
(* The moves the steps are made of: a call goes on, or is answered.         *)

Phases == {"idle", "asked", "resolved", "read", "written"}

LEMMA GoesOn ==
  ASSUME Typed, NEW s \in Slots, NEW q \in Phases, Goto(s, q), UNCHANGED call
  PROVE  /\ phase' \in [Slots -> Phases] /\ phase'[s] = q
         /\ \A t \in Slots : t # s => phase'[t] = phase[t]
         /\ \A t \in Slots : Op(t)' = Op(t) /\ UserOf(t)' = UserOf(t)
BY DEF Typed, TypeOK, Goto, Phases, Op, UserOf

LEMMA CallAnswered ==
  ASSUME Typed, NEW s \in Slots, Answer(s)
  PROVE  /\ phase' \in [Slots -> Phases] /\ phase'[s] = "idle"
         /\ call' \in [Slots -> Calls \union {NoCall}] /\ Op(s)' = "none"
         /\ \A t \in Slots : t # s => /\ phase'[t] = phase[t] /\ seen'[t] = seen[t]
                                      /\ Op(t)' = Op(t) /\ UserOf(t)' = UserOf(t)
         /\ SeenOK'
<1>1. /\ phase' = [phase EXCEPT ![s] = "idle"]
      /\ call' = [call EXCEPT ![s] = NoCall]
      /\ seen' = [seen EXCEPT ![s] = NoRow]
  BY DEF Answer, Goto, Reads
<1>2. /\ phase' \in [Slots -> Phases] /\ phase'[s] = "idle"
      /\ call' \in [Slots -> Calls \union {NoCall}] /\ call'[s] = NoCall
      /\ \A t \in Slots : t # s => phase'[t] = phase[t] /\ call'[t] = call[t] /\ seen'[t] = seen[t]
      /\ DOMAIN seen' = Slots
  BY <1>1 DEF Typed, TypeOK, SeenOK, Phases
<1>3. Op(s)' = "none"
  BY <1>2 DEF Op, NoCall
<1>4. \A t \in Slots : t # s => Op(t)' = Op(t) /\ UserOf(t)' = UserOf(t)
  BY <1>2 DEF Op, UserOf
<1>5. SeenOK'
  BY <1>2, <1>3, <1>4 DEF Typed, SeenOK
<1> QED
  BY <1>2, <1>3, <1>4, <1>5

(* An answer that changes no data keeps the types.                          *)
LEMMA AnswerTyped ==
  ASSUME Typed, NEW s \in Slots, Answer(s), UNCHANGED <<account, dataVars>>
  PROVE  Typed'
<1>1. phase' \in [Slots -> Phases] /\ call' \in [Slots -> Calls \union {NoCall}] /\ SeenOK'
  BY CallAnswered
<1> QED
  BY <1>1 DEF Typed, TypeOK, dataVars, Phases

-----------------------------------------------------------------------------
LEMMA TypedInit == Init => Typed
<1> SUFFICES ASSUME Init PROVE Typed
  OBVIOUS
<1>1. TypeOK
  BY AccountAssumption DEF Init, TypeOK
<1>2. SeenOK
  BY DEF Init, SeenOK
<1> QED
  BY <1>1, <1>2 DEF Typed

LEMMA BeginTyped ==
  ASSUME Typed, NEW s \in Slots, NEW c \in Calls, Begin(s, c)
  PROVE  Typed'
<1>1. call' = [call EXCEPT ![s] = c] /\ UNCHANGED <<account, dataVars, seen>>
  BY DEF Begin
<1>2. PICK q \in {"asked", "resolved"} : phase' = [phase EXCEPT ![s] = q]
  BY DEF Begin, Goto
<1>3. TypeOK'
  BY <1>1, <1>2 DEF Typed, TypeOK, dataVars
<1>4. /\ phase'[s] # "read"
      /\ \A t \in Slots : t # s => phase'[t] = phase[t] /\ call'[t] = call[t]
  BY <1>1, <1>2 DEF Typed, TypeOK
<1>5. SeenOK'
  BY <1>1, <1>4 DEF Typed, SeenOK, Op
<1> QED
  BY <1>3, <1>5 DEF Typed

LEMMA ReadTyped ==
  ASSUME Typed, NEW s \in Slots, Read(s)
  PROVE  Typed'
<1>1. /\ UNCHANGED <<account, dataVars, call>> /\ Goto(s, "read")
      /\ Op(s) \in {"patch", "read", "export", "list"}
      /\ seen' = [seen EXCEPT ![s] = IF Op(s) = "list" THEN RowsOf(UserOf(s)) ELSE prefs[UserOf(s)]]
  BY DEF Read, Reads
<1>2. /\ phase' \in [Slots -> Phases]
      /\ \A t \in Slots : t # s => phase'[t] = phase[t]
      /\ \A t \in Slots : Op(t)' = Op(t)
  BY <1>1, GoesOn DEF Phases
<1>3. Op(s) = "patch" => seen'[s] \in PrefRow \union {NoRow}
  BY <1>1, CallShape DEF Typed, TypeOK, SeenOK
<1>4. SeenOK'
  BY <1>1, <1>2, <1>3 DEF Typed, SeenOK
<1>5. TypeOK'
  BY <1>1, <1>2 DEF Typed, TypeOK, dataVars, Phases
<1> QED
  BY <1>4, <1>5 DEF Typed

(* A step that only goes on, to anything but reading.                       *)
LEMMA OnTyped ==
  ASSUME Typed, NEW s \in Slots, NEW q \in Phases \ {"read"}, Goto(s, q),
         UNCHANGED <<account, call, seen>>,
         prefs' \in [Users -> PrefRow \union {NoRow}], saved' \subseteq SavedRow,
         inserted' \in 0..MaxSaves
  PROVE  Typed'
<1>1. /\ phase' \in [Slots -> Phases] /\ phase'[s] = q
      /\ \A t \in Slots : t # s => phase'[t] = phase[t]
      /\ \A t \in Slots : Op(t)' = Op(t)
  BY GoesOn
<1>2. TypeOK'
  BY <1>1 DEF Typed, TypeOK, Phases
<1>3. SeenOK'
  BY <1>1 DEF Typed, SeenOK
<1> QED
  BY <1>2, <1>3 DEF Typed

LEMMA CommitPatchTyped ==
  ASSUME Typed, NEW s \in Slots, CommitPatch(s)
  PROVE  Typed' /\ prefs' \in [Users -> PrefRow \union {NoRow}]
<1>1. /\ Op(s) = "patch" /\ phase[s] = "read" /\ Goto(s, "written")
      /\ UNCHANGED <<account, saved, inserted, call, seen>>
  BY DEF CommitPatch
<1>2. prefs' \in [Users -> PrefRow \union {NoRow}]
  <2>1. UserOf(s) \in Users /\ prefs \in [Users -> PrefRow \union {NoRow}]
    BY <1>1, CallShape DEF Typed, TypeOK
  <2>2. NewRow(s) \in PrefRow
    BY <1>1, PatchTypes
  <2>3. prefs[UserOf(s)] # NoRow /\ UpdatedRow(s).units # Null => UpdatedRow(s) \in PrefRow
    BY <1>1, PatchTypes
  <2> QED
    BY <2>1, <2>2, <2>3 DEF CommitPatch, PatchInserts, PatchUpdates, PatchSetsNothing
<1>3. "written" \in Phases \ {"read"} /\ saved' \subseteq SavedRow /\ inserted' \in 0..MaxSaves
  BY <1>1 DEF Typed, TypeOK, Phases
<1> QED
  BY <1>1, <1>2, <1>3, OnTyped

LEMMA CommitSaveTyped ==
  ASSUME Typed, NEW s \in Slots, CommitSave(s)
  PROVE  Typed'
<1>1. Op(s) = "save" /\ phase[s] = "resolved" /\ UNCHANGED <<account, prefs>>
  BY DEF CommitSave
<1>2. CASE Answer(s) /\ UNCHANGED <<saved, inserted>>
  BY <1>1, <1>2, AnswerTyped DEF dataVars
<1>3. CASE ~(Answer(s) /\ UNCHANGED <<saved, inserted>>)
  <2> DEFINE row == [id |-> inserted + 1, user |-> UserOf(s), loc |-> call[s].loc]
  <2>1. /\ inserted < MaxSaves /\ inserted' = inserted + 1
        /\ saved' = saved \union {row} /\ seen' = [seen EXCEPT ![s] = row]
        /\ Goto(s, "written") /\ UNCHANGED call
    BY <1>3 DEF CommitSave, Reads
  <2>2. inserted \in 0..MaxSaves /\ saved \subseteq SavedRow
    BY DEF Typed, TypeOK
  <2>3. inserted' \in 0..MaxSaves /\ inserted + 1 \in 1..MaxSaves
    BY <2>1, <2>2, AccountAssumption
  <2>4. row \in SavedRow
    BY <1>1, <2>3, CallShape DEF SavedRow
  <2> HIDE DEF row
  <2>5. /\ phase' \in [Slots -> Phases] /\ phase'[s] = "written"
        /\ \A t \in Slots : t # s => phase'[t] = phase[t]
        /\ \A t \in Slots : Op(t)' = Op(t)
    BY <2>1, GoesOn DEF Phases
  <2>6. TypeOK'
    BY <1>1, <2>1, <2>2, <2>3, <2>4, <2>5 DEF Typed, TypeOK, Phases
  <2>7. SeenOK'
    BY <1>1, <2>1, <2>5 DEF Typed, SeenOK
  <2> QED
    BY <2>6, <2>7 DEF Typed
<1> QED
  BY <1>2, <1>3

LEMMA UnsaveTyped ==
  ASSUME Typed, NEW s \in Slots, FindSaved(s) \/ CommitUnsave(s)
  PROVE  Typed'
<1>1. CASE FindSaved(s) /\ Answer(s)
  BY <1>1, AnswerTyped DEF FindSaved
<1>2. CASE FindSaved(s) /\ ~Answer(s)
  <2>1. Op(s) = "unsave" /\ Goto(s, "read") /\ UNCHANGED <<account, dataVars, call, seen>>
    BY <1>2 DEF FindSaved
  <2>2. /\ phase' \in [Slots -> Phases]
        /\ \A t \in Slots : t # s => phase'[t] = phase[t]
        /\ \A t \in Slots : Op(t)' = Op(t)
    BY <2>1, GoesOn DEF Phases
  <2>3. TypeOK'
    BY <2>1, <2>2 DEF Typed, TypeOK, Phases, dataVars
  <2>4. SeenOK'
    BY <2>1, <2>2 DEF Typed, SeenOK
  <2> QED
    BY <2>3, <2>4 DEF Typed
<1>3. CASE CommitUnsave(s)
  <2>1. Answer(s) /\ saved' \subseteq saved /\ UNCHANGED <<account, prefs, inserted>>
    BY <1>3 DEF CommitUnsave
  <2>2. phase' \in [Slots -> Phases] /\ call' \in [Slots -> Calls \union {NoCall}] /\ SeenOK'
    BY <2>1, CallAnswered
  <2> QED
    BY <2>1, <2>2 DEF Typed, TypeOK, Phases
<1> QED
  BY <1>1, <1>2, <1>3

LEMMA WipeTyped ==
  ASSUME Typed, NEW s \in Slots, CommitWipe(s)
  PROVE  Typed'
<1>1. /\ saved' \subseteq saved /\ prefs' = [prefs EXCEPT ![UserOf(s)] = NoRow]
      /\ Goto(s, "written") /\ UNCHANGED <<account, inserted, call, seen>>
  BY DEF CommitWipe
<1>2. /\ prefs' \in [Users -> PrefRow \union {NoRow}] /\ saved' \subseteq SavedRow
      /\ inserted' \in 0..MaxSaves /\ "written" \in Phases \ {"read"}
  BY <1>1 DEF Typed, TypeOK, Phases
<1> QED
  BY <1>1, <1>2, OnTyped

LEMMA TypedNext == Typed /\ [Next]_vars => Typed'
<1> SUFFICES ASSUME Typed, [Next]_vars PROVE Typed'
  OBVIOUS
<1>1. ASSUME NEW u \in Users, Register(u) PROVE Typed'
  BY <1>1 DEF Typed, TypeOK, SeenOK, Register, dataVars, Op
<1>2. ASSUME NEW s \in Slots, Step(s) PROVE Typed'
  <2>1. CASE Resolved(s)
    <3>1. Goto(s, "resolved") /\ UNCHANGED <<account, dataVars, call, seen>>
      BY <2>1 DEF Resolved
    <3>2. /\ "resolved" \in Phases \ {"read"} /\ prefs' \in [Users -> PrefRow \union {NoRow}]
          /\ saved' \subseteq SavedRow /\ inserted' \in 0..MaxSaves
      BY <3>1 DEF Typed, TypeOK, Phases, dataVars
    <3> QED
      BY <3>1, <3>2, OnTyped
  <2>2. CASE Unresolved(s) \/ PatchFails(s) \/ Refresh(s) \/ Respond(s) \/ Fails(s)
    BY <2>2, AnswerTyped DEF Unresolved, PatchFails, Refresh, Respond, Fails
  <2>3. CASE RemoveUser(s)
    <3>1. Answer(s) /\ UNCHANGED dataVars /\ account' = [account EXCEPT ![UserOf(s)] = "gone"]
      BY <2>3 DEF RemoveUser
    <3>2. phase' \in [Slots -> Phases] /\ call' \in [Slots -> Calls \union {NoCall}] /\ SeenOK'
      BY <3>1, CallAnswered
    <3> QED
      BY <3>1, <3>2 DEF Typed, TypeOK, Phases, dataVars
  <2> QED
    BY <1>2, <2>1, <2>2, <2>3, ReadTyped, CommitPatchTyped, CommitSaveTyped, UnsaveTyped, WipeTyped
    DEF Step
<1>3. CASE UNCHANGED vars
  BY <1>3 DEF vars, Typed, TypeOK, SeenOK, Op, dataVars
<1> QED
  BY <1>1, <1>2, <1>3, BeginTyped DEF Next

(* Every variable keeps its type: no row ever has units NULL, every call    *)
(* holds of its user's row what it has read.                                *)
THEOREM AccountDataIsTyped == Spec => []TypeOK
<1>1. Typed => TypeOK
  BY DEF Typed
<1> QED
  BY <1>1, TypedInit, TypedNext, PTL DEF Spec

-----------------------------------------------------------------------------
(* Which step moves what                                                    *)

(* The preferences of u change in the commit of a PATCH or of the wipe.     *)
LEMMA WhoChangesPrefs ==
  ASSUME Typed, [Next]_vars, NEW u \in Users, prefs'[u] # prefs[u]
  PROVE  \E s \in Slots : /\ UserOf(s) = u
                         /\ \/ CommitPatch(s)
                            \/ CommitWipe(s) /\ prefs'[u] = NoRow
<1>1. PICK s \in Slots : Step(s)
  BY DEF Next, Register, Begin, vars, dataVars
<1>2. CommitPatch(s) \/ CommitWipe(s)
  BY <1>1 DEF Step, Resolved, Unresolved, Read, PatchFails, CommitSave, FindSaved, CommitUnsave,
              Refresh, Respond, RemoveUser, Fails, dataVars
<1>3. prefs \in [Users -> PrefRow \union {NoRow}]
  BY DEF Typed, TypeOK
<1>4. CASE CommitPatch(s)
  <2>1. \/ prefs' = [prefs EXCEPT ![UserOf(s)] = NewRow(s)]
        \/ prefs' = [prefs EXCEPT ![UserOf(s)] = UpdatedRow(s)]
        \/ UNCHANGED prefs
    BY <1>4 DEF CommitPatch, PatchInserts, PatchUpdates, PatchSetsNothing
  <2>2. UserOf(s) = u
    BY <1>3, <2>1
  <2> QED
    BY <1>4, <2>2
<1>5. CASE CommitWipe(s)
  <2>1. prefs' = [prefs EXCEPT ![UserOf(s)] = NoRow]
    BY <1>5 DEF CommitWipe
  <2>2. UserOf(s) = u /\ prefs'[u] = NoRow
    BY <1>3, <2>1
  <2> QED
    BY <1>5, <2>2
<1> QED
  BY <1>2, <1>4, <1>5

(* A call's phase changes in its own steps.                                 *)
LEMMA WhoMoves ==
  ASSUME Typed, [Next]_vars, NEW s \in Slots, phase'[s] # phase[s]
  PROVE  Step(s) \/ \E c \in Calls : Begin(s, c)
<1>1. PICK t \in Slots : Step(t) \/ \E c \in Calls : Begin(t, c)
  BY DEF Next, Register, vars, dataVars
<1>2. \E q : phase' = [phase EXCEPT ![t] = q]
  BY <1>1 DEF Step, Begin, Resolved, Unresolved, Read, CommitPatch, PatchFails, CommitSave, FindSaved,
              CommitUnsave, Refresh, Respond, CommitWipe, RemoveUser, Fails, Answer, Goto
<1>3. t = s
  BY <1>2 DEF Typed, TypeOK
<1> QED
  BY <1>1, <1>3

(* The fields of a row a PATCH updates are those its body sets, and they    *)
(* take the body's values.                                                  *)
LEMMA UpdatedField ==
  ASSUME Typed, NEW s \in Slots, Op(s) = "patch", phase[s] = "read", PatchUpdates(s)
  PROVE  /\ prefs'[UserOf(s)] = UpdatedRow(s) /\ UpdatedRow(s) # NoRow
         /\ \A f \in DOMAIN Defaults :
              IF f \in Sets(s) THEN f \in DOMAIN call[s].body /\ UpdatedRow(s)[f] = call[s].body[f]
                               ELSE UpdatedRow(s)[f] = prefs[UserOf(s)][f]
<1>1. UserOf(s) \in Users /\ prefs \in [Users -> PrefRow \union {NoRow}]
  BY CallShape DEF Typed, TypeOK
<1>2. prefs'[UserOf(s)] = UpdatedRow(s)
  BY <1>1 DEF PatchUpdates
<1>3. UpdatedRow(s) # NoRow
  BY PatchTypes, AccountAssumption DEF PatchUpdates
<1>4. Sets(s) \subseteq DOMAIN call[s].body
  BY DEF Sets
<1> QED
  BY <1>2, <1>3, <1>4 DEF UpdatedRow

LEMMA OmittedStep ==
  ASSUME Typed, [Next]_vars, NEW u \in Users, NEW f \in DOMAIN Defaults,
         prefs[u] # NoRow, prefs'[u] # NoRow, prefs[u][f] # prefs'[u][f]
  PROVE  \E s \in Slots :
           /\ phase[s] # phase'[s] /\ Op(s) = "patch" /\ UserOf(s) = u
           /\ f \in DOMAIN call[s].body /\ call[s].body[f] = prefs'[u][f]
<1>1. PICK s \in Slots : UserOf(s) = u /\ CommitPatch(s)
  BY WhoChangesPrefs
<1>2. Op(s) = "patch" /\ phase[s] = "read" /\ phase'[s] = "written"
  BY <1>1 DEF CommitPatch, Goto, Typed, TypeOK
<1>3. PatchUpdates(s)
  BY <1>1 DEF CommitPatch, PatchInserts, PatchSetsNothing
<1> QED
  BY <1>1, <1>2, <1>3, UpdatedField

(* Whatever PATCHes of a user run at once, a field of an existing row only  *)
(* changes in the commit of one whose body sets it, to what that body says. *)
THEOREM PatchesKeepToTheirFields == Spec => OmittedFieldsUntouched
<1>1. Typed /\ [Next]_vars =>
        \A u \in Users, f \in DOMAIN Defaults :
          (prefs[u] # NoRow /\ prefs'[u] # NoRow /\ prefs[u][f] # prefs'[u][f]) =>
            \E s \in Slots :
              /\ phase[s] # phase'[s] /\ Op(s) = "patch" /\ UserOf(s) = u
              /\ f \in DOMAIN call[s].body /\ call[s].body[f] = prefs'[u][f]
  BY OmittedStep
<1> QED
  BY <1>1, TypedInit, TypedNext, PTL DEF Spec, OmittedFieldsUntouched

LEMMA EffectStep ==
  ASSUME Typed, [Next]_vars, NEW s \in Slots, Op(s) = "patch", phase[s] = "read",
         phase'[s] = "written", seen[s] # NoRow, NEW f \in DOMAIN call[s].body
  PROVE  \/ seen[s][f] = call[s].body[f]
         \/ prefs'[UserOf(s)] # NoRow /\ prefs'[UserOf(s)][f] = call[s].body[f]
<1>1. CommitPatch(s)
  <2>1. Step(s)
    BY WhoMoves DEF Begin
  <2>2. \A q : Answer(s) \/ (Goto(s, q) /\ q # "written") => phase'[s] # "written"
    BY DEF Answer, Goto, Typed, TypeOK
  <2>3. /\ ~Resolved(s) /\ ~CommitSave(s) /\ ~FindSaved(s) /\ ~CommitUnsave(s)
        /\ ~CommitWipe(s) /\ ~RemoveUser(s)
    BY DEF Resolved, CommitSave, FindSaved, CommitUnsave, CommitWipe, RemoveUser
  <2>4. ~Unresolved(s) /\ ~PatchFails(s) /\ ~Refresh(s) /\ ~Respond(s) /\ ~Fails(s) /\ ~Read(s)
    BY <2>2 DEF Unresolved, PatchFails, Refresh, Respond, Fails, Read
  <2> QED
    BY <2>1, <2>3, <2>4 DEF Step
<1>2. f \in DOMAIN Defaults
  BY CallShape, BodyShape, Fields
<1>3. CASE PatchUpdates(s)
  <2>1. f \notin Sets(s) => seen[s][f] = call[s].body[f]
    BY DEF Sets
  <2> QED
    BY <1>2, <1>3, <2>1, UpdatedField
<1>4. CASE PatchSetsNothing(s)
  BY <1>4 DEF PatchSetsNothing, Sets
<1> QED
  BY <1>1, <1>3, <1>4 DEF CommitPatch, PatchInserts

(* What a committed PATCH asked for, nulls included, was so when it read    *)
(* the row or is so after its commit.                                       *)
THEOREM PatchesTakeEffect == Spec => PatchTakesEffect
<1>1. Typed /\ [Next]_vars =>
        \A s \in Slots :
          (Op(s) = "patch" /\ phase[s] = "read" /\ phase'[s] = "written" /\ seen[s] # NoRow) =>
            \A f \in DOMAIN call[s].body :
              \/ seen[s][f] = call[s].body[f]
              \/ prefs'[UserOf(s)] # NoRow /\ prefs'[UserOf(s)][f] = call[s].body[f]
  BY EffectStep
<1> QED
  BY <1>1, TypedInit, TypedNext, PTL DEF Spec, PatchTakesEffect

-----------------------------------------------------------------------------
(* What a deleted account leaves behind                                     *)

NoData(u) == prefs[u] = NoRow /\ RowsOf(u) = {}

WritesFor(s, u) == Writing(s) /\ UserOf(s) = u

Swept(u) ==
  u \notin overlapped /\ (account[u] = "gone" \/ Wiped(u)) =>
    NoData(u) /\ \A s \in Slots : ~WritesFor(s, u)

HistoryInv == Typed /\ \A u \in Users : Swept(u)

(* A step is one of a call under way, which goes on or is answered.         *)
LEMMA StepMoves ==
  ASSUME Typed, NEW s \in Slots, Step(s)
  PROVE  /\ phase[s] # "idle"
         /\ Answer(s) \/ (UNCHANGED call /\ \E q : Goto(s, q))
BY DEF Step, Resolved, Unresolved, Read, CommitPatch, PatchFails, CommitSave, FindSaved, CommitUnsave,
       Refresh, Respond, CommitWipe, RemoveUser, Fails

(* Only a live account's user begins to write.                              *)
LEMMA WritersBegin ==
  ASSUME Typed, [Next]_vars, NEW s \in Slots, NEW u \in Users, WritesFor(s, u)', ~WritesFor(s, u)
  PROVE  account[u] = "live" /\ UNCHANGED <<account, dataVars>> /\ phase'[s] # "written"
<1>1. CASE UNCHANGED <<call, phase>>
  BY <1>1 DEF WritesFor, Writing, Op, UserOf
<1>2. ASSUME NEW t \in Slots, Step(t) PROVE FALSE
  <2>1. CASE Answer(t)
    BY <2>1, CallAnswered DEF WritesFor, Writing
  <2>2. CASE UNCHANGED call /\ \E q : Goto(t, q)
    <3>1. phase[t] # "idle" /\ \A r \in Slots : r # t => phase'[r] = phase[r]
      BY <1>2, <2>2, StepMoves DEF Goto, Typed, TypeOK
    <3> QED
      BY <2>2, <3>1 DEF WritesFor, Writing, Op, UserOf
  <2> QED
    BY <1>2, <2>1, <2>2, StepMoves
<1>3. ASSUME NEW t \in Slots, NEW c \in Calls, Begin(t, c)
      PROVE  account[u] = "live" /\ UNCHANGED <<account, dataVars>> /\ phase'[s] # "written"
  <2>1. /\ call' = [call EXCEPT ![t] = c] /\ account[c.user] = "live" /\ UNCHANGED <<account, dataVars>>
        /\ \E q \in {"asked", "resolved"} : phase' = [phase EXCEPT ![t] = q]
    BY <1>3 DEF Begin, Goto
  <2>2. s = t
    BY <2>1 DEF WritesFor, Writing, Op, UserOf, Typed, TypeOK
  <2>3. UserOf(s)' = c.user /\ UserOf(s)' = u
    BY <2>1, <2>2 DEF UserOf, WritesFor, Typed, TypeOK
  <2> QED
    BY <2>1, <2>2, <2>3 DEF Typed, TypeOK
<1> QED
  BY <1>1, <1>2, <1>3 DEF Next, Register, vars

(* Nobody's data appear without a call that writes for them.                *)
LEMMA DataNeedsWriters ==
  ASSUME Typed, [Next]_vars, NEW u \in Users, NoData(u), \A s \in Slots : ~WritesFor(s, u)
  PROVE  NoData(u)'
<1>1. prefs'[u] = NoRow
  <2> SUFFICES ASSUME prefs'[u] # prefs[u] PROVE prefs'[u] = NoRow
    BY DEF NoData
  <2>1. PICK s \in Slots : UserOf(s) = u /\ (CommitPatch(s) \/ (CommitWipe(s) /\ prefs'[u] = NoRow))
    BY WhoChangesPrefs
  <2>2. ~CommitPatch(s)
    BY <2>1 DEF WritesFor, Writing, CommitPatch
  <2> QED
    BY <2>1, <2>2
<1>2. \A r \in saved' : r \in saved \/ r.user # u
  <2>1. CASE saved' \subseteq saved
    BY <2>1
  <2>2. ASSUME NEW s \in Slots, CommitSave(s) PROVE \A r \in saved' : r \in saved \/ r.user # u
    <3>1. UserOf(s) # u
      BY <2>2 DEF WritesFor, Writing, CommitSave
    <3> DEFINE row == [id |-> inserted + 1, user |-> UserOf(s), loc |-> call[s].loc]
    <3>2. saved' \subseteq saved \union {row} /\ row.user = UserOf(s)
      BY <2>2 DEF CommitSave
    <3> QED
      BY <3>1, <3>2
  <2> QED
    BY <2>1, <2>2 DEF Next, Register, Begin, Step, Resolved, Unresolved, Read, CommitPatch, PatchFails,
         FindSaved, CommitUnsave, Refresh, Respond, CommitWipe, RemoveUser, Fails, vars, dataVars
<1> QED
  BY <1>1, <1>2 DEF NoData, RowsOf

(* Where there was no wipe before, the wipe has just left nothing.          *)
LEMMA WipesSweep ==
  ASSUME Typed, [Next]_vars, NEW u \in Users, Wiped(u)', ~Wiped(u)
  PROVE  NoData(u)'
<1>1. PICK s \in Slots : phase'[s] = "written" /\ Op(s)' = "wipe" /\ UserOf(s)' = u
  BY DEF Wiped
<1>2. CASE ~\E t \in Slots : Step(t)
  BY <1>1, <1>2 DEF Next, Register, Begin, Goto, Wiped, Op, UserOf, vars, Typed, TypeOK
<1>3. ASSUME NEW t \in Slots, Step(t) PROVE NoData(u)'
  <2>1. CASE t # s
    <3>1. /\ \A r \in Slots : r # t => phase'[r] = phase[r] /\ call'[r] = call[r]
      BY <1>3, StepMoves DEF Answer, Goto, Typed, TypeOK
    <3> QED
      BY <1>1, <2>1, <3>1 DEF Wiped, Op, UserOf
  <2>2. CASE t = s
    <3>1. /\ call'[s] = call[s]
      <4>1. ~Answer(s)
        BY <1>1, CallAnswered
      <4> QED
        BY <1>3, <2>2, <4>1, StepMoves
    <3>2. Op(s) = "wipe" /\ UserOf(s) = u
      BY <1>1, <3>1 DEF Op, UserOf
    <3>3. \A q : Goto(s, q) => q = "written"
      BY <1>1 DEF Goto, Typed, TypeOK
    <3>4. ~Answer(s)
      BY <1>1, CallAnswered
    <3>5. CommitWipe(s)
      BY <1>3, <2>2, <3>2, <3>3, <3>4 DEF Step, Resolved, Unresolved, Read, CommitPatch, PatchFails,
         CommitSave, FindSaved, CommitUnsave, Refresh, Respond, RemoveUser, Fails
    <3>6. saved' = saved \ RowsOf(u) /\ prefs' = [prefs EXCEPT ![u] = NoRow]
      BY <3>2, <3>5 DEF CommitWipe
    <3> QED
      BY <3>6 DEF NoData, RowsOf, Typed, TypeOK
  <2> QED
    BY <2>1, <2>2
<1> QED
  BY <1>2, <1>3

(* An account goes after its wipe.                                          *)
LEMMA GoneAfterWipe ==
  ASSUME Typed, [Next]_vars, NEW u \in Users, account'[u] = "gone", account[u] # "gone"
  PROVE  Wiped(u)
<1>1. PICK s \in Slots : RemoveUser(s)
  BY DEF Next, Register, Begin, Step, Resolved, Unresolved, Read, CommitPatch, PatchFails, CommitSave,
         FindSaved, CommitUnsave, Refresh, Respond, CommitWipe, Fails, vars, Typed, TypeOK
<1>2. UserOf(s) = u
  BY <1>1 DEF RemoveUser, Typed, TypeOK
<1> QED
  BY <1>1, <1>2 DEF RemoveUser, Wiped

LEMMA HistoryStep ==
  ASSUME HistoryInv, HistoryNext
  PROVE  HistoryInv'
<1>1. Typed' /\ [Next]_vars /\ Typed
  BY TypedNext DEF HistoryInv, HistoryNext
<1>2. ASSUME NEW u \in Users, u \notin overlapped', (account[u] = "gone" \/ Wiped(u))'
      PROVE  NoData(u)' /\ \A s \in Slots : ~WritesFor(s, u)'
  <2>1. /\ ~(u \in overlapped /\ ~(Wiped(u)' /\ ~Wiped(u)))
        /\ Wiped(u)' => \A s \in Slots : ~WritesFor(s, u)'
    BY <1>2 DEF HistoryNext, WritesFor
  <2>2. CASE Wiped(u)' /\ ~Wiped(u)
    BY <1>1, <2>1, <2>2, WipesSweep
  <2>3. CASE ~(Wiped(u)' /\ ~Wiped(u))
    <3>1. u \notin overlapped
      BY <2>1, <2>3
    <3>2. account[u] = "gone" \/ Wiped(u)
      BY <1>1, <1>2, <2>3, GoneAfterWipe
    <3>3. NoData(u) /\ \A s \in Slots : ~WritesFor(s, u)
      BY <3>1, <3>2 DEF HistoryInv, Swept
    <3>4. NoData(u)'
      BY <1>1, <3>3, DataNeedsWriters
    <3>5. ASSUME NEW s \in Slots, WritesFor(s, u)' PROVE FALSE
      <4>1. account[u] = "live" /\ account' = account
        BY <1>1, <3>3, <3>5, WritersBegin
      <4>2. Wiped(u)'
        BY <1>2, <4>1
      <4> QED
        BY <2>1, <3>5, <4>2
    <3> QED
      BY <3>4, <3>5
  <2> QED
    BY <2>2, <2>3
<1> QED
  BY <1>1, <1>2 DEF HistoryInv, Swept

LEMMA HistoryStutter ==
  ASSUME HistoryInv, UNCHANGED <<vars, overlapped>>
  PROVE  HistoryInv'
<1>1. Typed'
  BY TypedNext DEF HistoryInv
<1> QED
  BY <1>1 DEF HistoryInv, Swept, NoData, RowsOf, WritesFor, Writing, Wiped, Op, UserOf, vars, dataVars

(* For all users, calls and locations: a deleted account leaves a row only  *)
(* to a call that could write and overlapped the wipe.                      *)
THEOREM WipesAreComplete == HistorySpec => []OnlyOverlapLeavesRows
<1>1. HistoryInit => HistoryInv
  BY TypedInit DEF HistoryInit, HistoryInv, Swept, Init, Wiped
<1>2. HistoryInv /\ [HistoryNext]_<<vars, overlapped>> => HistoryInv'
  BY HistoryStep, HistoryStutter
<1>3. HistoryInv => OnlyOverlapLeavesRows
  BY DEF HistoryInv, Swept, NoData, OnlyOverlapLeavesRows
<1> QED
  BY <1>1, <1>2, <1>3, PTL DEF HistorySpec

-----------------------------------------------------------------------------
(***************************************************************************)
(* LocationSearch and ServiceWorker                                        *)
(***************************************************************************)

(* The request that flies is the last one's, for what the field holds; the  *)
(* timer is too, and while it runs nothing flies.                           *)
FieldInv ==
  /\ \A r \in flying : r.by = controller /\ r.q = query
  /\ timer # Nothing => timer = query /\ flying = {}

SearchInv == SearchTypeOK /\ FieldInv

LEMMA SearchInvInit == SearchInit => SearchInv
<1> SUFFICES ASSUME SearchInit PROVE SearchInv
  OBVIOUS
<1>1. FieldInv
  BY DEF SearchInit, FieldInv
<1>2. /\ isOpen \in BOOLEAN /\ isSearching \in BOOLEAN /\ error \in BOOLEAN /\ skip \in BOOLEAN
  BY Zenon DEF SearchInit
<1>3. SearchTypeOK
  BY <1>2, SearchAssumption DEF SearchInit, SearchTypeOK, Queries
<1> QED
  BY <1>1, <1>3 DEF SearchInv

LEMMA EffectOK ==
  ASSUME SearchInv, NEW q \in Queries, NEW skipping \in BOOLEAN, Effect(q, skipping), query' = q,
         controller' = controller, searches' = searches,
         isOpen' \in BOOLEAN, active' \in Names \union {Nothing}, picked' \in Names \union {Nothing}
  PROVE  SearchInv'
<1>1. flying' = {}
  BY DEF Effect, Unabandoned, SearchInv, FieldInv
<1>2. timer' \in Long \union {Nothing} /\ (timer' # Nothing => timer' = query')
  BY DEF Effect, Queries
<1>3. /\ results' \subseteq Names /\ isSearching' \in BOOLEAN /\ error' \in BOOLEAN
      /\ skip' \in BOOLEAN
  BY DEF Effect, SearchInv, SearchTypeOK
<1> QED
  BY <1>1, <1>2, <1>3 DEF SearchInv, SearchTypeOK, FieldInv

LEMMA SearchInvNext == SearchInv /\ [SearchNext]_searchVars => SearchInv'
<1> SUFFICES ASSUME SearchInv, [SearchNext]_searchVars PROVE SearchInv'
  OBVIOUS
<1> USE DEF SearchInv
<1>1. ASSUME NEW q \in Queries, Type(q) PROVE SearchInv'
  <2>1. skip \in BOOLEAN /\ isOpen' \in BOOLEAN
    BY <1>1 DEF Type, SearchTypeOK
  <2> QED
    BY <1>1, <2>1, EffectOK DEF Type, SearchTypeOK
<1>2. ASSUME NEW n \in Names, Select(n) PROVE SearchInv'
  <2>1. CASE n = query
    BY <1>2, <2>1 DEF Select, SearchTypeOK, FieldInv
  <2>2. CASE n # query
    BY <1>2, <2>2, EffectOK, SearchAssumption DEF Select, SearchTypeOK, Queries
  <2> QED
    BY <2>1, <2>2
<1>3. ASSUME NEW n \in Names, Highlight(n) PROVE SearchInv'
  BY <1>3 DEF Highlight, SearchTypeOK, FieldInv
<1>4. CASE OpenOrClose
  BY <1>4 DEF OpenOrClose, SearchTypeOK, FieldInv
<1>5. CASE Fire
  <2>1. /\ flying = {} /\ timer = query /\ timer \in Long
    BY <1>5 DEF Fire, SearchTypeOK, FieldInv
  <2>2. searches + 1 \in 1..MaxSearches
    BY <1>5, SearchAssumption DEF Fire, SearchTypeOK
  <2> QED
    BY <1>5, <2>1, <2>2 DEF Fire, SearchTypeOK, FieldInv
<1>6. ASSUME NEW r \in flying, Land(r) \/ Fail(r) PROVE SearchInv'
  <2>1. Found[r.q] \subseteq Names
    BY SearchAssumption DEF SearchTypeOK
  <2> QED
    BY <1>6, <2>1 DEF Land, Fail, SearchTypeOK, FieldInv
<1>7. CASE UNCHANGED searchVars
  BY <1>7 DEF searchVars, SearchTypeOK, FieldInv
<1> QED
  BY <1>1, <1>2, <1>3, <1>4, <1>5, <1>6, <1>7 DEF SearchNext, Answered

(* The field, its timer and its requests keep their types (location-       *)
(* search.tsx).                                                            *)
THEOREM SearchTypes == SearchSpec => []SearchTypeOK
BY SearchInvInit, SearchInvNext, PTL DEF SearchSpec, SearchInv

(* The requests that fly are for what the field holds, however the user    *)
(* types and whatever order answers come in (location-search.tsx:66).      *)
THEOREM SearchesAreForTheField == SearchSpec => []FlyingForTheField
<1>1. SearchInv => FlyingForTheField
  BY DEF SearchInv, FieldInv, FlyingForTheField
<1> QED
  BY <1>1, SearchInvInit, SearchInvNext, PTL DEF SearchSpec

-----------------------------------------------------------------------------
(* Of what is rendered, kept and shown: how old it may be, and that it is   *)
(* no older than what its path showed before.                               *)
CopyOK(r, p, c) ==
  /\ c \in Copy /\ c.rendered <= c.cached_at /\ c.cached_at <= c.rendered + MaxDelay
  /\ c.cached_at <= time
  /\ c.alone => viewed[r][p] <= c.rendered
  /\ viewed[r][p] <= c.rendered + MaxDelay

(* A navigation that is alone will not be behind what its path has shown,   *)
(* and one whose answer is stored finds it in the cache, or a later one.    *)
NavOK(n) ==
  /\ n \in Navigation
  /\ n.at # "asked" =>
       /\ n.rendered <= time /\ time <= n.rendered + MaxDelay
       /\ n.alone => viewed[n.by][n.path] <= n.rendered
  /\ n.at = "stored" /\ pages[n.by][n.path] # Missing =>
       /\ n.rendered <= pages[n.by][n.path].cached_at
       /\ pages[n.by][n.path].alone => n.rendered <= pages[n.by][n.path].rendered

AloneOK ==
  \A t, u \in Tabs :
    t # u /\ nav[t] # Missing /\ nav[u] # Missing /\ nav[t].path = nav[u].path => ~nav[t].alone

KeptOK ==
  \A r \in Releases, p \in Paths :
    pages[r][p] # Missing => CopyOK(r, p, pages[r][p]) /\ isPageCacheable(p) /\ p # Offline

WorkerInv ==
  /\ WorkerTypeOK
  /\ \A r \in Releases : shell[r] # Missing => shell[r] <= time
  /\ \A r \in Releases, p \in Paths : viewed[r][p] <= time
  /\ KeptOK
  /\ \A t \in Tabs : nav[t] # Missing => NavOK(nav[t])
  /\ AloneOK
  /\ ForecastsShownAreYoung

LEMMA WorkerInvInit == WorkerInit => WorkerInv
BY WorkerAssumption
   DEF WorkerInit, WorkerInv, WorkerTypeOK, KeptOK, AloneOK, ForecastsShownAreYoung, Releases

LEMMA ShellIsYoung == ~ttlForPath(Root) /\ ~ttlForPath(Offline)
BY DEF ttlForPath, Root, Offline, FORECAST_TTL_PATHS, IsPrefix

LEMMA InstallOK == ASSUME WorkerInv, NEW r \in Releases, Install(r) PROVE WorkerInv'
<1>1. UNCHANGED <<time, release, pages, nav, shown, viewed, visits>>
  BY DEF Install
<1>2. /\ shell' \in [Releases -> Nat \union {Missing}]
      /\ \A s \in Releases : shell'[s] # Missing => shell'[s] <= time
  BY DEF Install, WorkerInv, WorkerTypeOK
<1> QED
  BY <1>1, <1>2
     DEF WorkerInv, WorkerTypeOK, KeptOK, CopyOK, NavOK, AloneOK, ForecastsShownAreYoung

LEMMA ActivateOK == ASSUME WorkerInv, NEW r \in Releases, Activate(r) PROVE WorkerInv'
<1>1. /\ release' = r /\ r \in 0..MaxRelease
      /\ UNCHANGED <<time, nav, shown, viewed, visits>>
  BY WorkerAssumption DEF Activate, Releases
<1>2. shell' \in [Releases -> Nat \union {Missing}]
      /\ \A s \in Releases : shell'[s] \in {shell[s], Missing}
  BY DEF Activate, WorkerInv, WorkerTypeOK
<1>3. /\ pages' \in [Releases -> [Paths -> Copy \union {Missing}]]
      /\ \A s \in Releases, p \in Paths : pages'[s][p] \in {pages[s][p], Missing}
  BY DEF Activate, WorkerInv, WorkerTypeOK
<1>4. KeptOK'
  BY <1>1, <1>3 DEF WorkerInv, KeptOK, CopyOK
<1>5. ASSUME NEW t \in Tabs, nav'[t] # Missing PROVE NavOK(nav[t])'
  <2>1. NavOK(nav[t]) /\ nav'[t] = nav[t]
    BY <1>1, <1>5 DEF WorkerInv
  <2>2. nav[t].by \in Releases /\ nav[t].path \in Paths
    BY <2>1 DEF NavOK, Navigation
  <2>3. pages'[nav[t].by][nav[t].path] \in {pages[nav[t].by][nav[t].path], Missing}
    BY <1>3, <2>2
  <2> QED
    BY <1>1, <2>1, <2>3 DEF NavOK
<1> QED
  BY <1>1, <1>2, <1>3, <1>4, <1>5 DEF WorkerInv, WorkerTypeOK, AloneOK, ForecastsShownAreYoung

(* What the navigations of the tabs have to keep, and nothing else changes. *)
LEMMA NavsOK ==
  ASSUME WorkerInv, UNCHANGED <<time, release, shell, pages, shown, viewed>>,
         visits' \in 0..MaxVisits,
         nav' \in [Tabs -> Navigation \union {Missing}],
         \A u \in Tabs : nav'[u] # Missing => NavOK(nav[u])',
         AloneOK'
  PROVE  WorkerInv'
BY DEF WorkerInv, WorkerTypeOK, KeptOK, CopyOK, ForecastsShownAreYoung

LEMMA NavigateOK ==
  ASSUME WorkerInv, NEW t \in Tabs, NEW p \in Paths, Navigate(t, p) PROVE WorkerInv'
<1> DEFINE n == [path |-> p, by |-> release, at |-> "asked", rendered |-> 0, alone |-> OnTheWay(p) = {}]
<1>1. /\ visits' \in 0..MaxVisits /\ release \in Releases /\ nav[t] = Missing
      /\ UNCHANGED <<time, release, shell, pages, shown, viewed>>
  BY WorkerAssumption DEF Navigate, WorkerInv, WorkerTypeOK, Releases
<1>2. n \in Navigation /\ n.path = p /\ n.at = "asked" /\ (n.alone <=> OnTheWay(p) = {})
  BY <1>1 DEF Navigation
<1> HIDE DEF n
<1>3. /\ nav'[t] = n
      /\ \A u \in Tabs : u \in OnTheWay(p) => nav'[u] = [nav[u] EXCEPT !.alone = FALSE]
      /\ \A u \in Tabs : u # t /\ u \notin OnTheWay(p) => nav'[u] = nav[u]
  BY <1>1 DEF Navigate, OnTheWay, n
<1>4. \A u \in Tabs : nav[u] # Missing => nav[u] \in Navigation
  BY DEF WorkerInv, NavOK
<1>5. ASSUME NEW u \in OnTheWay(p)
      PROVE  /\ nav'[u] \in Navigation /\ ~nav'[u].alone /\ nav'[u].path = p
             /\ nav'[u].by = nav[u].by /\ nav'[u].at = nav[u].at /\ nav'[u].rendered = nav[u].rendered
             /\ nav[u] # Missing /\ nav[u].path = p
  <2>1. u \in Tabs /\ nav[u] # Missing /\ nav[u].path = p /\ nav[u] \in Navigation
    BY <1>4 DEF OnTheWay
  <2> QED
    BY <1>3, <2>1 DEF Navigation
<1>6. nav' \in [Tabs -> Navigation \union {Missing}]
  <2>1. \A u \in Tabs : nav'[u] \in Navigation \union {Missing}
    BY <1>2, <1>3, <1>4, <1>5
  <2>2. nav' = [u \in Tabs |-> nav'[u]]
    BY DEF Navigate
  <2> QED
    BY <2>1, <2>2
<1>7. ASSUME NEW u \in Tabs, nav'[u] # Missing PROVE NavOK(nav[u])'
  <2>1. CASE u = t
    BY <1>2, <1>3, <2>1 DEF NavOK
  <2>2. CASE u \in OnTheWay(p)
    <3>1. NavOK(nav[u])
      BY <1>5, <2>2 DEF WorkerInv
    <3> QED
      BY <1>1, <1>5, <2>2, <3>1 DEF NavOK
  <2>3. CASE u # t /\ u \notin OnTheWay(p)
    <3>1. NavOK(nav[u]) /\ nav'[u] = nav[u]
      BY <1>3, <1>7, <2>3 DEF WorkerInv
    <3> QED
      BY <1>1, <3>1 DEF NavOK
  <2> QED
    BY <2>1, <2>2, <2>3
<1>8. AloneOK'
  <2> SUFFICES ASSUME NEW u \in Tabs, NEW v \in Tabs, u # v,
                      nav'[u] # Missing, nav'[v] # Missing, nav'[u].path = nav'[v].path
               PROVE  ~nav'[u].alone
    BY DEF AloneOK
  <2>1. CASE u = t
    <3>1. nav[v] # Missing /\ nav[v].path = p
      BY <1>2, <1>3, <1>5, <2>1
    <3> QED
      BY <1>2, <1>3, <2>1, <3>1 DEF OnTheWay
  <2>2. CASE u \in OnTheWay(p)
    BY <1>5, <2>2
  <2>3. CASE u # t /\ u \notin OnTheWay(p)
    <3>1. nav'[u] = nav[u] /\ nav[u].path # p
      BY <1>3, <2>3 DEF OnTheWay
    <3>2. v # t /\ v \notin OnTheWay(p)
      BY <1>2, <1>3, <1>5, <3>1
    <3>3. nav'[v] = nav[v]
      BY <1>3, <3>2
    <3> QED
      BY <3>1, <3>3 DEF WorkerInv, AloneOK
  <2> QED
    BY <2>1, <2>2, <2>3
<1> QED
  BY <1>1, <1>6, <1>7, <1>8, NavsOK

(* A navigation goes on: its path and release, and whether it is alone,     *)
(* stay.                                                                    *)
LEMMA StaysOnItsWay ==
  ASSUME WorkerInv, NEW t \in Tabs, nav[t] # Missing, NEW n \in Navigation,
         nav' = [nav EXCEPT ![t] = n],
         n.path = nav[t].path, n.by = nav[t].by, n.alone = nav[t].alone
  PROVE  /\ nav' \in [Tabs -> Navigation \union {Missing}] /\ nav'[t] = n
         /\ \A u \in Tabs : u # t => nav'[u] = nav[u]
         /\ AloneOK'
<1>1. /\ nav' \in [Tabs -> Navigation \union {Missing}] /\ nav'[t] = n
      /\ \A u \in Tabs : u # t => nav'[u] = nav[u]
  BY DEF WorkerInv, WorkerTypeOK
<1>2. AloneOK'
  BY <1>1 DEF WorkerInv, AloneOK
<1> QED
  BY <1>1, <1>2

LEMMA RenderOK == ASSUME WorkerInv, NEW t \in Tabs, Render(t) PROVE WorkerInv'
<1> DEFINE n == [nav[t] EXCEPT !.at = "answered", !.rendered = time]
<1>1. /\ nav' = [nav EXCEPT ![t] = n] /\ nav[t] # Missing
      /\ UNCHANGED <<time, release, shell, pages, shown, viewed, visits>>
  BY DEF Render
<1>2. /\ n \in Navigation /\ n.rendered = time /\ n.at = "answered"
      /\ n.path = nav[t].path /\ n.by = nav[t].by /\ n.alone = nav[t].alone
      /\ n.path \in Paths /\ n.by \in Releases
  BY <1>1 DEF WorkerInv, WorkerTypeOK, NavOK, Navigation
<1> HIDE DEF n
<1>3. time <= time + MaxDelay /\ time <= time /\ viewed[n.by][n.path] <= time
  BY <1>2, WorkerAssumption DEF WorkerInv, WorkerTypeOK
<1>4. /\ nav' \in [Tabs -> Navigation \union {Missing}] /\ nav'[t] = n
      /\ \A u \in Tabs : u # t => nav'[u] = nav[u]
      /\ AloneOK'
  BY <1>1, <1>2, StaysOnItsWay
<1>5. \A u \in Tabs : nav'[u] # Missing => NavOK(nav[u])'
  BY <1>1, <1>2, <1>3, <1>4 DEF WorkerInv, NavOK
<1>6. visits' \in 0..MaxVisits
  BY <1>1 DEF WorkerInv, WorkerTypeOK
<1> QED
  BY <1>1, <1>4, <1>5, <1>6, NavsOK

LEMMA PutOK == ASSUME WorkerInv, NEW t \in Tabs, Put(t) PROVE WorkerInv'
<1>0. PICK n, m, c : /\ n = nav[t] /\ m = [nav[t] EXCEPT !.at = "stored"]
                      /\ c = [rendered |-> n.rendered, cached_at |-> time, alone |-> n.alone]
  OBVIOUS
<1>1. /\ n # Missing /\ n.at = "answered" /\ NavOK(n) /\ n = nav[t]
      /\ nav' = [nav EXCEPT ![t] = m]
      /\ UNCHANGED <<time, release, shell, shown, viewed, visits>>
      /\ pages' = IF n.path # Offline /\ isPageCacheable(n.path)
                  THEN [pages EXCEPT ![n.by][n.path] = c] ELSE pages
  BY <1>0 DEF Put, WorkerInv
<1>2. /\ n.path \in Paths /\ n.by \in Releases /\ n.rendered \in Nat /\ n.alone \in BOOLEAN
      /\ n.rendered <= time /\ time <= n.rendered + MaxDelay /\ time \in Nat /\ MaxDelay \in Nat
      /\ n.alone => viewed[n.by][n.path] <= n.rendered
      /\ viewed[n.by][n.path] \in Nat /\ viewed[n.by][n.path] <= time
  BY <1>1, WorkerAssumption DEF NavOK, Navigation, WorkerInv, WorkerTypeOK
<1>3. /\ m \in Navigation /\ m.at = "stored" /\ m.rendered = n.rendered
      /\ m.path = n.path /\ m.by = n.by /\ m.alone = n.alone
  BY <1>0, <1>1 DEF NavOK, Navigation
<1>4. c \in Copy /\ c.rendered = n.rendered /\ c.cached_at = time /\ (c.alone <=> n.alone)
  BY <1>0, <1>2 DEF Copy
<1>5. /\ nav' \in [Tabs -> Navigation \union {Missing}] /\ nav'[t] = m
      /\ \A u \in Tabs : u # t => nav'[u] = nav[u]
      /\ AloneOK'
  BY <1>1, <1>3, StaysOnItsWay
<1>6. /\ pages' \in [Releases -> [Paths -> Copy \union {Missing}]]
      /\ \A r \in Releases, p \in Paths :
           \/ /\ pages'[r][p] = pages[r][p]
              /\ r # n.by \/ p # n.path \/ p = Offline \/ ~isPageCacheable(p)
           \/ /\ r = n.by /\ p = n.path /\ pages'[r][p] = c
              /\ p # Offline /\ isPageCacheable(p)
  BY <1>1, <1>2, <1>4 DEF WorkerInv, WorkerTypeOK
<1>7. CopyOK(n.by, n.path, c) /\ CopyOK(n.by, n.path, c)'
  <2>1. c \in Copy /\ c.rendered <= c.cached_at /\ c.cached_at <= c.rendered + MaxDelay
        /\ c.cached_at <= time
    BY <1>2, <1>4
  <2>2. c.alone => viewed[n.by][n.path] <= c.rendered
    BY <1>2, <1>4
  <2>3. viewed[n.by][n.path] <= c.rendered + MaxDelay
    BY <1>2, <1>4
  <2>4. CopyOK(n.by, n.path, c)
    BY <2>1, <2>2, <2>3 DEF CopyOK
  <2>5. UNCHANGED <<time, viewed>>
    BY <1>1
  <2>6. CopyOK(n.by, n.path, c)'
    BY <2>1, <2>2, <2>3, <2>5 DEF CopyOK
  <2> QED
    BY <2>4, <2>6
<1>8. KeptOK'
  <2> SUFFICES ASSUME NEW r \in Releases, NEW p \in Paths, pages'[r][p] # Missing
               PROVE  CopyOK(r, p, pages[r][p])' /\ isPageCacheable(p) /\ p # Offline
    BY DEF KeptOK
  <2>1. CASE pages'[r][p] = c /\ r = n.by /\ p = n.path /\ p # Offline /\ isPageCacheable(p)
    BY <1>1, <1>7, <2>1 DEF CopyOK
  <2>2. CASE pages'[r][p] = pages[r][p]
    BY <1>1, <2>2 DEF WorkerInv, KeptOK, CopyOK
  <2> QED
    BY <1>6, <2>1, <2>2
<1>9. ASSUME NEW u \in Tabs, nav'[u] # Missing PROVE NavOK(nav[u])'
  <2>1. CASE u = t
    <3>1. pages'[n.by][n.path] # Missing => pages'[n.by][n.path] = c
      BY <1>2, <1>6 DEF WorkerInv, KeptOK
    <3>2. /\ m.rendered <= time' /\ time' <= m.rendered + MaxDelay
          /\ m.alone => viewed'[m.by][m.path] <= m.rendered
      BY <1>1, <1>2, <1>3
    <3>3. pages'[m.by][m.path] # Missing =>
            /\ m.rendered <= pages'[m.by][m.path].cached_at
            /\ m.rendered <= pages'[m.by][m.path].rendered
      BY <1>2, <1>3, <1>4, <3>1
    <3> QED
      BY <1>3, <1>5, <2>1, <3>2, <3>3 DEF NavOK
  <2>2. CASE u # t
    <3>1. NavOK(nav[u]) /\ nav'[u] = nav[u] /\ nav[u] # Missing
      BY <1>5, <1>9, <2>2 DEF WorkerInv
    <3>2. nav[u].by \in Releases /\ nav[u].path \in Paths /\ nav[u].rendered \in Nat
      BY <3>1 DEF NavOK, Navigation
    <3>3. CASE pages'[nav[u].by][nav[u].path] = pages[nav[u].by][nav[u].path]
      BY <1>1, <3>1, <3>3 DEF NavOK
    <3>4. CASE nav[u].by = n.by /\ nav[u].path = n.path /\ pages'[nav[u].by][nav[u].path] = c
      <4>1. ~n.alone
        BY <1>1, <2>2, <3>1, <3>4 DEF WorkerInv, AloneOK
      <4>2. nav[u].at = "stored" => nav[u].rendered <= c.cached_at
        BY <1>4, <3>1 DEF NavOK
      <4> QED
        BY <1>1, <1>4, <3>1, <3>4, <4>1, <4>2 DEF NavOK
    <3> QED
      BY <1>6, <3>2, <3>3, <3>4
  <2> QED
    BY <2>1, <2>2
<1> QED
  BY <1>1, <1>5, <1>6, <1>8, <1>9 DEF WorkerInv, WorkerTypeOK, ForecastsShownAreYoung

(* A tab's navigation ends.  What it has been shown of its path, if         *)
(* anything, is not newer than the copy there allows.                       *)
LEMMA LandedOK ==
  ASSUME WorkerInv, NEW t \in Tabs, nav[t] # Missing, nav' = [nav EXCEPT ![t] = Missing],
         UNCHANGED <<time, release, shell, pages, visits>>,
         shown' \in [path : Paths, age : Nat] \union {Missing},
         shown' # Missing /\ ttlForPath(shown'.path) => shown'.age <= TTL + MaxDelay,
         NEW x \in Nat, x <= time,
         Saw(nav[t].by, nav[t].path, x) \/ UNCHANGED viewed,
         LET c == pages[nav[t].by][nav[t].path]
         IN c # Missing => (c.alone => x <= c.rendered) /\ x <= c.rendered + MaxDelay
  PROVE  WorkerInv'
<1> DEFINE R == nav[t].by
           P == nav[t].path
<1>1. /\ \A u \in Tabs : u # t => nav'[u] = nav[u]
      /\ nav'[t] = Missing
      /\ nav' \in [Tabs -> Navigation \union {Missing}]
      /\ R \in Releases /\ P \in Paths
  BY DEF WorkerInv, WorkerTypeOK, NavOK, Navigation
<1>2. /\ viewed' \in [Releases -> [Paths -> Nat]]
      /\ \A r \in Releases, p \in Paths :
           viewed'[r][p] = viewed[r][p] \/ (r = R /\ p = P /\ viewed'[r][p] = x)
  <2>1. viewed \in [Releases -> [Paths -> Nat]]
    BY DEF WorkerInv, WorkerTypeOK
  <2>2. Saw(R, P, x) \/ UNCHANGED viewed
    OBVIOUS
  <2> HIDE DEF R, P
  <2>3. CASE UNCHANGED viewed
    BY <2>1, <2>3
  <2>4. CASE Saw(R, P, x)
    BY <1>1, <2>1, <2>4 DEF Saw
  <2> QED
    BY <2>2, <2>3, <2>4
<1>3. \A r \in Releases, p \in Paths : viewed'[r][p] <= time'
  BY <1>2 DEF WorkerInv
<1>4. KeptOK'
  <2> SUFFICES ASSUME NEW r \in Releases, NEW p \in Paths, pages[r][p] # Missing
               PROVE  CopyOK(r, p, pages[r][p])' /\ isPageCacheable(p) /\ p # Offline
    BY DEF KeptOK
  <2>1. CopyOK(r, p, pages[r][p]) /\ isPageCacheable(p) /\ p # Offline
    BY DEF WorkerInv, KeptOK
  <2>2. CASE viewed'[r][p] = viewed[r][p]
    BY <2>1, <2>2 DEF CopyOK
  <2>3. CASE r = R /\ p = P /\ viewed'[r][p] = x
    BY <2>1, <2>3 DEF CopyOK
  <2> QED
    BY <1>2, <2>2, <2>3
<1>5. ASSUME NEW u \in Tabs, nav'[u] # Missing PROVE NavOK(nav[u])'
  <2>1. u # t /\ nav'[u] = nav[u] /\ nav[u] # Missing /\ NavOK(nav[u])
    BY <1>1, <1>5 DEF WorkerInv
  <2>2. nav[u].by \in Releases /\ nav[u].path \in Paths
    BY <2>1 DEF NavOK, Navigation
  <2>3. nav[u].alone => nav[u].path # P
    BY <2>1 DEF WorkerInv, AloneOK
  <2>4. nav[u].alone => viewed'[nav[u].by][nav[u].path] = viewed[nav[u].by][nav[u].path]
    BY <1>2, <2>2, <2>3
  <2> QED
    BY <2>1, <2>4 DEF NavOK
<1>6. AloneOK'
  BY <1>1 DEF WorkerInv, AloneOK
<1> QED
  BY <1>1, <1>2, <1>3, <1>4, <1>5, <1>6 DEF WorkerInv, WorkerTypeOK, ForecastsShownAreYoung

LEMMA NotOkOK == ASSUME WorkerInv, NEW t \in Tabs, NotOk(t) PROVE WorkerInv'
<1>1. /\ nav[t] # Missing /\ nav' = [nav EXCEPT ![t] = Missing] /\ shown' = Missing
      /\ UNCHANGED <<time, release, shell, pages, viewed, visits>>
  BY DEF NotOk
<1>2. NavOK(nav[t]) /\ time \in Nat /\ 0 \in Nat /\ MaxDelay \in Nat
  BY <1>1, WorkerAssumption DEF WorkerInv, WorkerTypeOK
<1>3. nav[t].by \in Releases /\ nav[t].path \in Paths
  BY <1>2 DEF NavOK, Navigation
<1>4. pages[nav[t].by][nav[t].path] # Missing => pages[nav[t].by][nav[t].path].rendered \in Nat
  BY <1>3 DEF WorkerInv, KeptOK, CopyOK, Copy
<1>5. /\ 0 <= time
      /\ pages[nav[t].by][nav[t].path] # Missing =>
           /\ 0 <= pages[nav[t].by][nav[t].path].rendered
           /\ 0 <= pages[nav[t].by][nav[t].path].rendered + MaxDelay
  BY <1>2, <1>4
<1> QED
  BY <1>1, <1>2, <1>5, LandedOK

LEMMA ArriveOK == ASSUME WorkerInv, NEW t \in Tabs, Arrive(t) PROVE WorkerInv'
<1> DEFINE n == nav[t]
           c == pages[n.by][n.path]
<1>1. /\ n # Missing /\ n.at = "stored" /\ NavOK(n)
      /\ nav' = [nav EXCEPT ![t] = Missing]
      /\ UNCHANGED <<time, release, shell, pages, visits>>
      /\ shown' = [path |-> n.path, age |-> time - n.rendered]
      /\ Saw(n.by, n.path, n.rendered)
  BY DEF Arrive, Returned, WorkerInv
<1>2. /\ n.path \in Paths /\ n.by \in Releases /\ n.rendered \in Nat /\ n.rendered <= time
      /\ time <= n.rendered + MaxDelay /\ time \in Nat /\ MaxDelay \in Nat /\ TTL \in Nat
  BY <1>1, WorkerAssumption DEF NavOK, Navigation, WorkerInv, WorkerTypeOK
<1>3. c # Missing =>
        /\ c.rendered \in Nat /\ c.cached_at \in Nat /\ c.cached_at <= c.rendered + MaxDelay
        /\ n.rendered <= c.cached_at /\ (c.alone => n.rendered <= c.rendered)
  BY <1>1, <1>2 DEF NavOK, WorkerInv, KeptOK, CopyOK, Copy
<1>4. c # Missing => (c.alone => n.rendered <= c.rendered) /\ n.rendered <= c.rendered + MaxDelay
  BY <1>2, <1>3
<1> HIDE DEF n
<1>5. /\ shown' \in [path : Paths, age : Nat]
      /\ shown'.age <= TTL + MaxDelay
  BY <1>1, <1>2
<1> QED
  BY <1>1, <1>2, <1>4, <1>5, LandedOK DEF n

LEMMA FallBackOK == ASSUME WorkerInv, NEW t \in Tabs, FallBack(t) PROVE WorkerInv'
<1> DEFINE p == nav[t].path
           r == nav[t].by
           c == pages[r][p]
           s == shell[r]
<1>1. /\ nav[t] # Missing /\ p \in Paths /\ r \in Releases
      /\ nav' = [nav EXCEPT ![t] = Missing]
      /\ UNCHANGED <<time, release, shell, pages, visits>>
  BY DEF FallBack, WorkerInv, NavOK, Navigation
<1>2. \/ /\ c # Missing /\ ~IsStale(p, c) /\ shown' = [path |-> p, age |-> time - c.rendered]
         /\ Saw(r, p, c.rendered)
      \/ /\ c = Missing /\ s # Missing /\ p \in CORE_SHELL /\ shown' = [path |-> p, age |-> time - s]
         /\ Saw(r, p, s)
      \/ s # Missing /\ shown' = [path |-> Offline, age |-> time - s] /\ UNCHANGED viewed
      \/ shown' = Missing /\ UNCHANGED viewed
  BY DEF FallBack
<1>3. time \in Nat /\ TTL \in Nat /\ MaxDelay \in Nat /\ Offline \in Paths
  BY WorkerAssumption DEF WorkerInv, WorkerTypeOK, CORE_SHELL
<1>4. s # Missing => s \in Nat /\ s <= time
  BY <1>1 DEF WorkerInv, WorkerTypeOK
<1>5. c # Missing =>
        /\ c.rendered \in Nat /\ c.cached_at \in Nat /\ c.rendered <= time
        /\ c.cached_at <= c.rendered + MaxDelay /\ c.rendered <= c.rendered + MaxDelay
        /\ 0 <= c.rendered /\ 0 <= c.rendered + MaxDelay
  BY SMTT(30), <1>1, <1>3 DEF WorkerInv, KeptOK, CopyOK, Copy
<1> HIDE DEF p, r, c, s
<1>6. CASE /\ c # Missing /\ ~IsStale(p, c) /\ shown' = [path |-> p, age |-> time - c.rendered]
           /\ Saw(r, p, c.rendered)
  <2>1. ttlForPath(p) => time - c.cached_at <= TTL
    BY <1>3, <1>5, <1>6 DEF IsStale
  <2>2. /\ shown' \in [path : Paths, age : Nat]
        /\ ttlForPath(shown'.path) => shown'.age <= TTL + MaxDelay
    BY <1>1, <1>3, <1>5, <1>6, <2>1
  <2>3. /\ c # Missing /\ c.rendered \in Nat /\ c.rendered <= time
        /\ c.alone => c.rendered <= c.rendered
        /\ c.rendered <= c.rendered + MaxDelay
    BY <1>5, <1>6
  <2>4. Saw(r, p, c.rendered)
    BY <1>6
  <2> QED
    BY <1>1, <2>2, <2>3, <2>4, LandedOK DEF p, r, c
<1>7. CASE /\ c = Missing /\ s # Missing /\ p \in CORE_SHELL /\ shown' = [path |-> p, age |-> time - s]
           /\ Saw(r, p, s)
  <2>1. ~ttlForPath(p)
    BY <1>7, ShellIsYoung DEF CORE_SHELL
  <2>2. shown' \in [path : Paths, age : Nat] /\ ~ttlForPath(shown'.path)
    BY <1>1, <1>3, <1>4, <1>7, <2>1
  <2> QED
    BY <1>1, <1>4, <1>7, <2>2, LandedOK DEF p, r, c
<1>8. CASE s # Missing /\ shown' = [path |-> Offline, age |-> time - s] /\ UNCHANGED viewed
  <2>1. shown' \in [path : Paths, age : Nat] /\ ~ttlForPath(shown'.path)
    BY <1>3, <1>4, <1>8, ShellIsYoung
  <2>2. 0 \in Nat /\ 0 <= time
    BY <1>3
  <2> QED
    BY <1>1, <1>5, <1>8, <2>1, <2>2, LandedOK DEF p, r, c
<1>9. CASE shown' = Missing /\ UNCHANGED viewed
  <2>1. 0 \in Nat /\ 0 <= time
    BY <1>3
  <2> QED
    BY <1>1, <1>5, <1>9, <2>1, LandedOK DEF p, r, c
<1> QED
  BY <1>2, <1>6, <1>7, <1>8, <1>9

LEMMA WorkerTickOK == ASSUME WorkerInv, WorkerTick PROVE WorkerInv'
<1>1. /\ time' = time + 1 /\ time \in Nat /\ time' \in Nat /\ MaxDelay \in Nat
      /\ UNCHANGED <<release, shell, pages, nav, shown, viewed, visits>>
  BY WorkerAssumption DEF WorkerTick, WorkerInv, WorkerTypeOK
<1>2. \A t \in Tabs : nav'[t] # Missing => NavOK(nav[t])'
  <2> SUFFICES ASSUME NEW t \in Tabs, nav[t] # Missing PROVE NavOK(nav[t])'
    BY <1>1
  <2>1. NavOK(nav[t])
    BY DEF WorkerInv
  <2>2. nav[t].at # "asked" => nav[t].rendered \in Nat /\ time - nav[t].rendered < MaxDelay
    BY <2>1 DEF NavOK, Navigation, WorkerTick
  <2> QED
    BY <1>1, <2>1, <2>2 DEF NavOK
<1>3. KeptOK'
  BY <1>1 DEF WorkerInv, KeptOK, CopyOK, Copy
<1>4. \A r \in Releases, p \in Paths : viewed'[r][p] <= time'
  BY <1>1 DEF WorkerInv, WorkerTypeOK
<1>5. \A r \in Releases : shell'[r] # Missing => shell'[r] <= time'
  BY <1>1 DEF WorkerInv, WorkerTypeOK
<1> QED
  BY <1>1, <1>2, <1>3, <1>4, <1>5 DEF WorkerInv, WorkerTypeOK, AloneOK, ForecastsShownAreYoung

LEMMA WorkerInvNext == WorkerInv /\ [WorkerNext]_workerVars => WorkerInv'
<1> SUFFICES ASSUME WorkerInv, [WorkerNext]_workerVars PROVE WorkerInv'
  OBVIOUS
<1>1. CASE UNCHANGED workerVars
  BY <1>1 DEF workerVars, WorkerInv, WorkerTypeOK, KeptOK, CopyOK, NavOK, AloneOK, ForecastsShownAreYoung
<1> QED
  BY <1>1, InstallOK, ActivateOK, NavigateOK, RenderOK, NotOkOK, PutOK, ArriveOK, FallBackOK,
     WorkerTickOK
     DEF WorkerNext

(* The tabs, the pages and the worker's copies keep their types (sw.js).   *)
THEOREM WorkerTypes == WorkerSpec => []WorkerTypeOK
<1>1. WorkerInv => WorkerTypeOK
  BY DEF WorkerInv
<1> QED
  BY <1>1, WorkerInvInit, WorkerInvNext, PTL DEF WorkerSpec

(* No conditions are shown that were older than the TTL, give or take the  *)
(* time an answer is under way, from whichever release's copy              *)
(* (sw.js:63-150).                                                         *)
THEOREM ShownForecastsAreYoung == WorkerSpec => []ForecastsShownAreYoung
<1>1. WorkerInv => ForecastsShownAreYoung
  BY DEF WorkerInv
<1> QED
  BY <1>1, WorkerInvInit, WorkerInvNext, PTL DEF WorkerSpec

(* What a visit without a network would be shown is nothing older than any *)
(* tab has been shown of the page, or, where two tabs were on their way to *)
(* it at once, older by no more than an answer is under way (sw.js:100).   *)
THEOREM CopiesAreTheLastSeen == WorkerSpec => []CopyIsTheLastSeen
<1>1. WorkerInv => CopyIsTheLastSeen
  BY DEF WorkerInv, KeptOK, CopyOK, CopyIsTheLastSeen
<1> QED
  BY <1>1, WorkerInvInit, WorkerInvNext, PTL DEF WorkerSpec
=============================================================================
