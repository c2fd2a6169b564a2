--------------------------- MODULE MCLegacyPages ---------------------------
(* Small instances of what the Flask application's pages do in the browser. *)
(* They share nothing, and each behaviour shows one of them.                *)
EXTENDS LegacyLog, LegacyDevice, TLC

VARIABLE part

pagesVars == <<logVars, deviceVars, part>>

Symmetry == Permutations(Windows) \union Permutations(Servers) \union Permutations(Grounds)

PagesInit ==
  /\ part \in {"log", "one log", "device"}
  /\ LogInit /\ DeviceInit
  /\ meant.types = CHOOSE t \in Types : TRUE
  /\ part # "device" => meant.share

(* Two tabs and two catches, or one tab and three, one more than is kept.   *)
LogParts ==
  \/ part = "log" /\ LogNext /\ told' < MaxCatches
  \/ part = "one log" /\ LogStep(CHOOSE w \in Windows : TRUE)

PagesNext ==
  /\ UNCHANGED part
  /\ \/ LogParts /\ UNCHANGED deviceVars
     \/ part = "device" /\ DeviceNext /\ UNCHANGED logVars

PagesSpec == PagesInit /\ [][PagesNext]_pagesVars

(* The variables of both modules keep their types.                          *)
PagesTypeOK == LogTypeOK /\ DeviceTypeOK
=============================================================================
