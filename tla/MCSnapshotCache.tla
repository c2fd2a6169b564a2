-------------------------- MODULE MCSnapshotCache --------------------------
(* Small instances of SnapshotCache for TLC: two callers of one location    *)
(* over several stale windows, or all callers of all locations at one time, *)
(* where the fetches of some locations need not end.                        *)
EXTENDS SnapshotCache

CONSTANTS Timed,      \* the callers and locations of the first
          TimedKeys,
          HungKeys    \* the locations of the second whose fetches may hang

VARIABLE load

loadVars == <<vars, load>>

LoadInit == Init /\ load \in {"timed", "crowd"}

LoadNext ==
  /\ Next /\ UNCHANGED load
  /\ load = "timed" => /\ \A c \in Callers \ Timed : pc'[c] = "idle"
                       /\ \A c \in Timed : pc'[c] # "idle" => req'[c].key \in TimedKeys
  /\ load = "crowd" => clock' = clock

LoadSpec == LoadInit /\ [][LoadNext]_loadVars /\ FairExcept(HungKeys)

(* AnsweredUnlessHung of SnapshotCache, for the keys the run lets hang: a   *)
(* waiting caller is answered although fetches of those keys may never end. *)
AnsweredOffHungKeys == AnsweredUnlessHung(HungKeys)
=============================================================================
