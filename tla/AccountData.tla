---------------------------- MODULE AccountData ----------------------------
(***************************************************************************)
(* The per-user data of apps/api and the accounts of apps/web that own it: *)
(* the routes of api/v1/preferences.py, saved_locations.py and account.py,  *)
(* and the account hooks of apps/web/lib/auth.ts.                          *)
(*                                                                         *)
(* A route awaits the location resolution and every statement it sends to  *)
(* PostgreSQL, so calls interleave between these.  Transactions are READ   *)
(* COMMITTED: a statement sees what is committed when it runs.  A flush    *)
(* and its commit are one step, in which constraints are checked.          *)
(***************************************************************************)
EXTENDS Naturals, FiniteSets

CONSTANTS
  Users,
  Slots,      \* calls under way at once
  Ids,        \* location ids
  Ops,        \* Ops[u]: the routes user u calls
  MaxSaves,   \* bound on the rows ever inserted into saved_location
  NoRow       \* what session.get returns when there is none

Null == "null"          \* JSON null, SQL NULL and Python None
Units == {"imperial", "metric"}
Homes == Ids \union {Null}

(* One of the four nullable columns stands for all of them.                *)
PrefRow  == [units : Units, home : Homes]

ASSUME AccountAssumption ==
  Null \notin Ids /\ NoRow \notin PrefRow /\ MaxSaves \in Nat

Defaults == [units |-> "imperial", home |-> Null]

(* A PATCH body: the fields that are set in it.                            *)
Bodies == [{"units"} -> Units \union {Null}] \union [{"home"} -> Homes]
            \union PrefRow

SavedRow == [id : 1..MaxSaves, user : Users, loc : Ids]

Calls ==
  {c \in
     [op : {"patch"}, user : Users, body : Bodies]
       \union [op : {"save"}, user : Users, loc : Ids]
       \union [op : {"unsave"}, user : Users, id : 1..MaxSaves]
       \union [op : {"read", "list", "export", "wipe"}, user : Users] :
   c.op \in Ops[c.user]}

VARIABLES
  account,    \* the row of apps/web's auth schema
  prefs,      \* user_preferences
  saved,      \* saved_location
  inserted,   \* rows ever inserted into saved_location: its sequence
  call,       \* what each slot is asked to do
  phase,      \* how far it is
  seen        \* the row or rows it has read

vars == <<account, prefs, saved, inserted, call, phase, seen>>

NoCall == [op |-> "none"]

TypeOK ==
  /\ account \in [Users -> {"none", "live", "gone"}]
  /\ prefs \in [Users -> PrefRow \union {NoRow}]
  /\ saved \subseteq SavedRow
  /\ inserted \in 0..MaxSaves
  /\ call \in [Slots -> Calls \union {NoCall}]
  /\ phase \in [Slots -> {"idle", "asked", "resolved", "read", "written"}]

Init ==
  /\ account = [u \in Users |-> "none"]
  /\ prefs = [u \in Users |-> NoRow]
  /\ saved = {}
  /\ inserted = 0
  /\ call = [s \in Slots |-> NoCall]
  /\ phase = [s \in Slots |-> "idle"]
  /\ seen = [s \in Slots |-> NoRow]

-----------------------------------------------------------------------------
Op(s)    == call[s].op
UserOf(s) == call[s].user

Goto(s, p) == phase' = [phase EXCEPT ![s] = p]

Reads(s, r) == seen' = [seen EXCEPT ![s] = r]

(* The request is answered, and its locals are gone.                        *)
Answer(s) ==
  /\ Goto(s, "idle")
  /\ call' = [call EXCEPT ![s] = NoCall]
  /\ Reads(s, NoRow)

dataVars == <<prefs, saved, inserted>>

RowsOf(u) == {r \in saved : r.user = u}

(* A save and a new home are resolved before the database is touched, a     *)
(* list resolves the rows it has read.                                      *)
NeedsResolving(c) ==
  \/ c.op = "save"
  \/ c.op = "patch" /\ "home" \in DOMAIN c.body /\ c.body.home # Null

-----------------------------------------------------------------------------
(* apps/web *)

(* Sign-up; its analytics event never affects anything else and is left out.*)
Register(u) ==
  /\ account[u] = "none"
  /\ account' = [account EXCEPT ![u] = "live"]
  /\ UNCHANGED <<dataVars, call, phase, seen>>

(* requireSessionUserId, then the signed call of the route: only a signed-  *)
(* in user starts one.  "wipe" is deleteUser, whose beforeDelete hook calls *)
(* DELETE /v1/me.                                                           *)
Begin(s, c) ==
  /\ phase[s] = "idle"
  /\ account[c.user] = "live"
  /\ call' = [call EXCEPT ![s] = c]
  /\ Goto(s, IF NeedsResolving(c) THEN "asked" ELSE "resolved")
  /\ UNCHANGED <<account, dataVars, seen>>

(* The hook returned, so Better Auth deletes the user row.                  *)
RemoveUser(s) ==
  /\ Op(s) = "wipe" /\ phase[s] = "written"
  /\ account' = [account EXCEPT ![UserOf(s)] = "gone"]
  /\ Answer(s)
  /\ UNCHANGED dataVars

-----------------------------------------------------------------------------
(* apps/api *)

Resolved(s) ==
  /\ phase[s] = "asked"
  /\ Goto(s, "resolved")
  /\ UNCHANGED <<account, dataVars, call, seen>>

(* 404 or 422: the id is unknown, not coastal, or its catalogs are down.    *)
Unresolved(s) ==
  /\ \/ phase[s] = "asked"
     \/ Op(s) = "list" /\ phase[s] = "read" /\ seen[s] # {}
  /\ Answer(s)
  /\ UNCHANGED <<account, dataVars>>

(* The first statement: session.get of the row, or the select of the rows.  *)
Read(s) ==
  /\ phase[s] = "resolved"
  /\ Op(s) \in {"patch", "read", "export", "list"}
  /\ Goto(s, "read")
  /\ Reads(s, IF Op(s) = "list" THEN RowsOf(UserOf(s)) ELSE prefs[UserOf(s)])
  /\ UNCHANGED <<account, dataVars, call>>

(* mutant: an omitted field is written back as it was read *)
SetsAll(s) == {"units", "home"}

(* The columns an UPDATE sets: those whose new value differs from the one   *)
(* that was read.                                                           *)
Sets(s) == {f \in DOMAIN call[s].body : call[s].body[f] # seen[s][f]}

(* Flush sends the insert of a new row, where a null takes the column's     *)
(* default, or the update of the row that was read.                         *)
NewRow(s) ==
  [f \in DOMAIN Defaults |->
     IF f \in DOMAIN call[s].body /\ call[s].body[f] # Null
       THEN call[s].body[f] ELSE Defaults[f]]

UpdatedRow(s) ==
  [f \in DOMAIN Defaults |->
     IF f \notin Sets(s) THEN prefs[UserOf(s)][f]
     ELSE IF f \in DOMAIN call[s].body THEN call[s].body[f] ELSE seen[s][f]]

PatchInserts(s) ==
  /\ seen[s] = NoRow /\ prefs[UserOf(s)] = NoRow
  /\ prefs' = [prefs EXCEPT ![UserOf(s)] = NewRow(s)]

PatchUpdates(s) ==
  /\ seen[s] # NoRow /\ Sets(s) # {}
  /\ prefs[UserOf(s)] # NoRow
  /\ UpdatedRow(s).units # Null
  /\ prefs' = [prefs EXCEPT ![UserOf(s)] = UpdatedRow(s)]

PatchSetsNothing(s) ==
  /\ seen[s] # NoRow /\ Sets(s) = {}
  /\ UNCHANGED prefs

CommitPatch(s) ==
  /\ Op(s) = "patch" /\ phase[s] = "read"
  /\ PatchInserts(s) \/ PatchUpdates(s) \/ PatchSetsNothing(s)
  /\ Goto(s, "written")
  /\ UNCHANGED <<account, saved, inserted, call, seen>>

(* Somebody inserted the row first, or deleted it, or units would be NULL.  *)
PatchFails(s) ==
  /\ Op(s) = "patch" /\ phase[s] = "read"
  /\ \/ seen[s] = NoRow /\ prefs[UserOf(s)] # NoRow
     \/ /\ seen[s] # NoRow /\ Sets(s) # {}
        /\ prefs[UserOf(s)] # NoRow => UpdatedRow(s).units = Null
  /\ Answer(s)
  /\ UNCHANGED <<account, dataVars>>

Duplicate(s) == \E r \in RowsOf(UserOf(s)) : r.loc = call[s].loc

CommitSave(s) ==
  /\ Op(s) = "save" /\ phase[s] = "resolved"
  /\ \/ /\ ~Duplicate(s)
        /\ inserted < MaxSaves
        /\ inserted' = inserted + 1
        /\ LET row == [id |-> inserted + 1, user |-> UserOf(s), loc |-> call[s].loc]
           IN saved' = saved \union {row} /\ Reads(s, row)
        /\ Goto(s, "written")
        /\ UNCHANGED call
     \/ /\ Duplicate(s)
        /\ Answer(s)      \* 409
        /\ UNCHANGED <<saved, inserted>>
  /\ UNCHANGED <<account, prefs>>

OwnRow(s) == {r \in saved : r.id = call[s].id /\ r.user = UserOf(s)}

FindSaved(s) ==
  /\ Op(s) = "unsave" /\ phase[s] = "resolved"
  /\ \/ OwnRow(s) # {} /\ Goto(s, "read") /\ UNCHANGED <<call, seen>>
     \/ OwnRow(s) = {} /\ Answer(s)     \* 404
  /\ UNCHANGED <<account, dataVars>>

(* A row that is gone by now is only warned about.                          *)
CommitUnsave(s) ==
  /\ Op(s) = "unsave" /\ phase[s] = "read"
  /\ saved' = {r \in saved : r.id # call[s].id}
  /\ Answer(s)
  /\ UNCHANGED <<account, prefs, inserted>>

(* session.refresh ends the call, with an error when somebody has deleted   *)
(* the row after the commit.                                                *)
Refresh(s) ==
  /\ Op(s) \in {"patch", "save"} /\ phase[s] = "written"
  /\ Answer(s)
  /\ UNCHANGED <<account, dataVars>>

(* The other reads end with the response; the second select of the export   *)
(* returns with it.                                                         *)
Respond(s) ==
  /\ Op(s) \in {"read", "list", "export"} /\ phase[s] = "read"
  /\ Answer(s)
  /\ UNCHANGED <<account, dataVars>>

(* mutant: one of the two tables is forgotten *)
CommitWipeSaved(s) ==
  /\ Op(s) = "wipe" /\ phase[s] = "resolved"
  /\ saved' = saved \ RowsOf(UserOf(s))
  /\ Goto(s, "written")
  /\ UNCHANGED <<account, prefs, inserted, call, seen>>

(* DELETE /v1/me: both tables, one commit. *)
CommitWipe(s) ==
  /\ Op(s) = "wipe" /\ phase[s] = "resolved"
  /\ saved' = saved \ RowsOf(UserOf(s))
  /\ prefs' = [prefs EXCEPT ![UserOf(s)] = NoRow]
  /\ Goto(s, "written")
  /\ UNCHANGED <<account, inserted, call, seen>>

(* A statement, a commit or the connection fails; after a commit the caller *)
(* is told of a failure although its change is there.  A deleteUser whose   *)
(* hook throws leaves the account.                                          *)
Fails(s) ==
  /\ phase[s] \in {"resolved", "read", "written"}
  /\ Answer(s)
  /\ UNCHANGED <<account, dataVars>>

Step(s) ==
  \/ Resolved(s) \/ Unresolved(s) \/ Read(s)
  \/ CommitPatch(s) \/ PatchFails(s)
  \/ CommitSave(s) \/ FindSaved(s) \/ CommitUnsave(s)
  \/ Refresh(s) \/ Respond(s)
  \/ CommitWipe(s) \/ RemoveUser(s)
  \/ Fails(s)

Next ==
  \/ \E u \in Users : Register(u)
  \/ \E s \in Slots, c \in Calls : Begin(s, c)
  \/ \E s \in Slots : Step(s)

Spec == Init /\ [][Next]_vars

-----------------------------------------------------------------------------
(* Properties *)

(* "Omitted fields are left unchanged", also under concurrent PATCHes: a    *)
(* column of an existing row changes only in the commit of a PATCH whose    *)
(* body sets it, and to the value that body gives it.                       *)
OmittedFieldsUntouched ==
  [][\A u \in Users, f \in DOMAIN Defaults :
       (prefs[u] # NoRow /\ prefs'[u] # NoRow /\ prefs[u][f] # prefs'[u][f]) =>
         \E s \in Slots :
           /\ phase[s] # phase'[s] /\ Op(s) = "patch" /\ UserOf(s) = u
           /\ f \in DOMAIN call[s].body /\ call[s].body[f] = prefs'[u][f]]_vars

(* "None ... clears a previously-set" value: what a committed PATCH asked   *)
(* for, nulls included, was in force when it read the row or is after its   *)
(* commit, whatever others committed in between.                            *)
PatchTakesEffect ==
  [][\A s \in Slots :
       (Op(s) = "patch" /\ phase[s] = "read" /\ phase'[s] = "written"
          /\ seen[s] # NoRow) =>
         \A f \in DOMAIN call[s].body :
           \/ seen[s][f] = call[s].body[f]
           \/ prefs'[UserOf(s)] # NoRow /\ prefs'[UserOf(s)][f] = call[s].body[f]]_vars
=============================================================================
