---------------------------- MODULE LegacyDevice ----------------------------
(***************************************************************************)
(* The dashboard of the Flask application in the tabs of one device        *)
(* (templates/index.html, static/js/page.js) and the preferences row it    *)
(* keeps up to date: a page carries the profile it was rendered with and   *)
(* posts it back, with the favorites of localStorage and the location, on  *)
(* every load and every toggle.                                            *)
(*                                                                         *)
(* A profile is the types of fishing, which an address may hold too, and   *)
(* the consent to share catches, which none does.  The row is read through *)
(* the cache of a process (LegacyAccounts has its clock; here an entry may *)
(* expire whenever it likes).  Theme, units and the session's location     *)
(* travel with the rest and are left out.                                  *)
(***************************************************************************)
EXTENDS Naturals, FiniteSets

CONSTANTS
  Servers,       \* gunicorn processes
  Pages,         \* tabs of the device
  Types,         \* what fishing_types may be
  Grounds,       \* locations
  MaxOpens,      \* bound on the pages opened
  MaxEdits,      \* bound on the profiles saved
  Nowhere        \* no page, no entry, no payload, nothing in the address

ASSUME DeviceAssumption == {MaxOpens, MaxEdits} \subseteq Nat

VARIABLES
  recorded,      \* the profiles row: [types, share, favorites]
  entry,         \* _PREFS_CACHE of each process
  favorites,     \* favorite_locations of localStorage
  sync_hash,     \* _prefs_sync_hash, the payload last taken
  tab,           \* the page of each tab
  posts,         \* payloads under way
  opens, edits,
  meant,         \* the profile the user last entered
  behind,        \* processes whose entry has a profile another's save has replaced
  undone         \* an outdated post has been taken since the user's last save

deviceVars == <<recorded, entry, favorites, sync_hash, tab, posts, opens, edits, meant, behind, undone>>

Profiles == [types : Types, share : BOOLEAN]
Rows     == [profile : Profiles, favorites : SUBSET Grounds]
Payloads == [profile : Profiles, favorites : SUBSET Grounds, location_id : Grounds]

DeviceInit ==
  /\ recorded \in [profile : Profiles, favorites : {{}}]
  /\ entry = [s \in Servers |-> Nowhere]
  /\ favorites = {} /\ sync_hash = Nowhere
  /\ tab = [p \in Pages |-> Nowhere]
  /\ posts = {}
  /\ opens = 0 /\ edits = 0
  /\ meant = recorded.profile
  /\ behind = {} /\ undone = FALSE

(* get_preferences.                                                         *)
Read(s) == IF entry[s] = Nowhere THEN recorded ELSE entry[s]

(* mutant: a save leaves the entry of its own process                       *)
EmptiedNot(s) == entry

Emptied(s) == [entry EXCEPT ![s] = Nowhere]

(* save_preferences, through the process s.                                 *)
Stores(s, row) ==
  /\ recorded' = row
  /\ entry' = Emptied(s)
  /\ behind' = IF row.profile = recorded.profile THEN behind \ {s}
               ELSE {o \in Servers \ {s} : entry[o] # Nowhere}

(* syncToServer: nothing that has just been taken is sent again.            *)
Sync(page, favs) ==
  LET payload == [profile |-> page.profile, favorites |-> favs, location_id |-> page.ground]
  IN posts' = IF payload = sync_hash THEN posts
              ELSE posts \union {[payload |-> payload, outdated |-> page.outdated]}

(* A dashboard: rendered with the row's profile, or the address's types in  *)
(* it; the row's favorites join those of the device.                        *)
Open(p, s, ground, types) ==
  LET row == Read(s)
      page == [profile |-> IF types = Nowhere THEN row.profile
                           ELSE [row.profile EXCEPT !.types = types],
               ground |-> ground,
               outdated |-> s \in behind \/ types # Nowhere]
  IN /\ opens < MaxOpens
     /\ opens' = opens + 1
     /\ entry' = [entry EXCEPT ![s] = row]
     /\ tab' = [tab EXCEPT ![p] = page]
     /\ favorites' = favorites \union row.favorites
     /\ Sync(page, favorites')
     /\ UNCHANGED <<recorded, sync_hash, edits, meant, behind, undone>>

toggleFavorite(p) ==
  /\ tab[p] # Nowhere
  /\ favorites' = IF tab[p].ground \in favorites THEN favorites \ {tab[p].ground}
                  ELSE favorites \union {tab[p].ground}
  /\ Sync(tab[p], favorites')
  /\ UNCHANGED <<recorded, entry, sync_hash, tab, opens, edits, meant, behind, undone>>

(* ProfilePayload refuses favorites that are not strings, and the device    *)
(* sends objects: what comes with a favorite is not taken at all.           *)
from_json(payload) == payload.favorites = {}

(* POST /api/preferences, and its answer.                                   *)
Taken(x, s) ==
  /\ x \in posts
  /\ posts' = posts \ {x}
  /\ \/ /\ from_json(x.payload)
        /\ Stores(s, [recorded EXCEPT !.profile = x.payload.profile])
        /\ sync_hash' = x.payload
        /\ undone' = (undone \/ x.outdated)
     \/ /\ ~from_json(x.payload)
        /\ UNCHANGED <<recorded, entry, behind, sync_hash, undone>>
  /\ UNCHANGED <<favorites, tab, opens, edits, meant>>

(* The request, or its answer, is lost.                                     *)
Lost(x, s) ==
  /\ x \in posts
  /\ posts' = posts \ {x}
  /\ \/ /\ from_json(x.payload)
        /\ Stores(s, [recorded EXCEPT !.profile = x.payload.profile])
        /\ undone' = (undone \/ x.outdated)
     \/ UNCHANGED <<recorded, entry, behind, undone>>
  /\ UNCHANGED <<favorites, sync_hash, tab, opens, edits, meant>>

(* The profile page, from any device.  What is open or under way by now     *)
(* tells of the profile before.                                             *)
SaveProfile(s, profile) ==
  /\ edits < MaxEdits
  /\ edits' = edits + 1
  /\ Stores(s, [recorded EXCEPT !.profile = profile])
  /\ meant' = profile /\ undone' = FALSE
  /\ tab' = [p \in Pages |-> IF tab[p] = Nowhere THEN Nowhere
                             ELSE [tab[p] EXCEPT !.outdated = TRUE]]
  /\ posts' = {[x EXCEPT !.outdated = TRUE] : x \in posts}
  /\ UNCHANGED <<favorites, sync_hash, opens>>

(* POST /setup/favorite/<location_id>.                                      *)
setup_favorite(s, ground) ==
  LET row == Read(s)
  IN /\ edits < MaxEdits
     /\ edits' = edits + 1
     /\ Stores(s, [recorded EXCEPT !.favorites =
                     IF ground \in row.favorites THEN row.favorites \ {ground}
                     ELSE row.favorites \union {ground}])
     /\ UNCHANGED <<favorites, sync_hash, tab, posts, opens, meant, undone>>

Expire(s) ==
  /\ entry[s] # Nowhere
  /\ entry' = [entry EXCEPT ![s] = Nowhere]
  /\ behind' = behind \ {s}
  /\ UNCHANGED <<recorded, favorites, sync_hash, tab, posts, opens, edits, meant, undone>>

DeviceNext ==
  \/ \E p \in Pages :
       \/ toggleFavorite(p)
       \/ \E s \in Servers, g \in Grounds, t \in Types \union {Nowhere} : Open(p, s, g, t)
  \/ \E s \in Servers :
       \/ Expire(s)
       \/ \E profile \in Profiles : SaveProfile(s, profile)
       \/ \E g \in Grounds : setup_favorite(s, g)
       \/ \E x \in posts : Taken(x, s) \/ Lost(x, s)

DeviceSpec == DeviceInit /\ [][DeviceNext]_deviceVars
-----------------------------------------------------------------------------
(* The variables keep their types. *)
DeviceTypeOK ==
  /\ recorded \in Rows
  /\ entry \in [Servers -> Rows \union {Nowhere}]
  /\ favorites \subseteq Grounds
  /\ sync_hash \in Payloads \union {Nowhere}
  /\ tab \in [Pages -> [profile : Profiles, ground : Grounds, outdated : BOOLEAN] \union {Nowhere}]
  /\ posts \subseteq [payload : Payloads, outdated : BOOLEAN]
  /\ opens \in 0..MaxOpens /\ edits \in 0..MaxEdits
  /\ meant \in Profiles /\ behind \subseteq Servers /\ undone \in BOOLEAN

(* What pages post back changes the profile only when an outdated page has  *)
(* posted: one opened before the user's last save, one rendered from the    *)
(* cache of a process the save went past, or one opened with types of its   *)
(* own in the address (page.js:346-368, views.py:482-540).                  *)
OnlyOutdatedPagesUndo == ~undone => recorded.profile = meant

(* Catches are shared with the consent the user last gave                   *)
(* (schemas.py: "Opt-in consent to include this angler's catches in         *)
(* anonymized, aggregated community activity").  It does not hold: pages    *)
(* post the profile they were rendered with.                                *)
ConsentIsTheUsers == recorded.profile.share => meant.share
=============================================================================
