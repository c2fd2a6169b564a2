------------------------------ MODULE MCCalls ------------------------------
(* Small instances of HttpClient and SignedCalls for TLC, the calls that    *)
(* leave apps/api and those that enter it, and of LegacyRegulations, the    *)
(* lookups of the Flask application.  They share nothing, and each          *)
(* behaviour shows one of the three.                                        *)
EXTENDS HttpClient, SignedCalls, LegacyRegulations, TLC

VARIABLE side

callVars == <<httpVars, signedVars, regVars, side>>

MCBackoff == [a \in 0..MaxRetries |-> 2^a]
MCTimeFrom ==
  [a \in 0..MaxRetries |-> (MaxRetries - a + 1) * AttemptTime + (2^MaxRetries - 2^a)]
MCOffsets == {-1, 0, 3}

CallsInit ==
  /\ HttpInit /\ SignedInit /\ RegulationsInit
  /\ side \in {"out", "in", "regulations"}
  /\ side # "in" => offset = 0
  /\ side # "regulations" => ~keeps

CallsNext ==
  /\ UNCHANGED side
  /\ \/ side = "out" /\ HttpNext /\ UNCHANGED <<signedVars, regVars>>
     \/ side = "in" /\ SignedNext /\ UNCHANGED <<httpVars, regVars>>
     \/ side = "regulations" /\ RegulationsNext /\ UNCHANGED <<httpVars, signedVars>>

(* The event loop runs its timers, no wait outlives its timeout, and the    *)
(* executor of a process runs what it is given.                             *)
CallsFairness ==
  /\ WF_httpVars(side = "out" /\ HttpTick)
  /\ \A f \in Fetchers : WF_httpVars(side = "out" /\ HttpStep(f))
  /\ RegulationsFairness

CallsSpec == CallsInit /\ [][CallsNext]_callVars /\ CallsFairness
=============================================================================
