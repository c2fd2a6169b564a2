--------------------------- MODULE MCAccountData ---------------------------
(***************************************************************************)
(* Small instances of AccountData for TLC, with a history variable: the    *)
(* users a writing call of whom was under way when their data was wiped,   *)
(* or began between the wipe and the removal of the account.               *)
(***************************************************************************)
EXTENDS AccountData, TLC

VARIABLE overlapped

CONSTANT Writer   \* the user with preferences, who deletes the account

MCOps == [u \in Users |-> IF u = Writer THEN {"patch", "save", "wipe"}
                                        ELSE {"save", "unsave", "list"}]

Writing(s) == phase[s] # "idle" /\ Op(s) \in {"patch", "save"}

Wiped(u) == \E s \in Slots : phase[s] = "written" /\ Op(s) = "wipe" /\ UserOf(s) = u

HistoryInit == Init /\ overlapped = {}

HistoryNext ==
  /\ Next
  /\ overlapped' = {u \in Users :
       \/ u \in overlapped /\ ~ (Wiped(u)' /\ ~Wiped(u))
       \/ Wiped(u)' /\ \E s \in Slots : Writing(s)' /\ UserOf(s)' = u}

HistorySpec == HistoryInit /\ [][HistoryNext]_<<vars, overlapped>>

(* When an account has been deleted, only a call that overlapped the wipe   *)
(* can have left a row behind: the wipe covers both tables, and a hook that *)
(* fails, or a wipe whose answer is lost, leaves the account in place.      *)
OnlyOverlapLeavesRows ==
  \A u \in Users \ overlapped :
    account[u] = "gone" => prefs[u] = NoRow /\ RowsOf(u) = {}
=============================================================================
