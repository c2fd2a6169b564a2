---------------------------- MODULE SignedCalls ----------------------------
(***************************************************************************)
(* The signed calls of apps/web to apps/api: internalApiFetch of           *)
(* lib/internal-api-client.ts at one end, InternalAuthDependency with      *)
(* verify and ReplayGuard of infra/internal_signature.py at the other.     *)
(*                                                                         *)
(* The network keeps a call and delivers it any number of times, at any    *)
(* time.  The two services have clocks of their own, Offset apart.  Keys   *)
(* come from the environment, so that a change of the verifier's keys is a *)
(* restart, which loses the memory of the guard.  Both ends compute the    *)
(* same signature of the same fields, which is left out.                   *)
(***************************************************************************)
EXTENDS Integers, FiniteSets

CONSTANTS
  Ids,          \* request ids, each drawn once by randomUUID
  Validity,     \* VALIDITY_SECONDS of the signer
  MaxSkew,      \* max_skew_seconds
  MaxValidity,  \* max_validity_seconds
  Offsets,      \* how far the signer's clock may be ahead of the verifier's
  MaxDelay,     \* a delivery within this time is prompt
  Start,        \* the verifier's clock at the beginning
  MaxTime       \* bound on it

ASSUME SignedAssumption ==
  /\ Validity \in Nat /\ MaxSkew \in Nat /\ MaxValidity \in Nat /\ MaxDelay \in Nat
  /\ 0 < Validity /\ Validity <= MaxValidity
  /\ Start \in Nat
  /\ Offsets \subseteq {d \in Int : MaxDelay - MaxSkew <= d /\ MaxDelay - Validity <= d /\ d <= MaxSkew}

VARIABLES
  now,         \* the verifier's clock
  offset,
  signingKey,  \* INTERNAL_SIGNING_KEY_ID of apps/web
  keys,        \* the keys of apps/api: the active and, in a rotation, the previous one
  switched,    \* when the signer took its key
  sent,        \* the calls the network knows
  seen,        \* _seen of the guard
  serves,      \* serves[i]: how often this process has served call i, 2 for more
  verdict      \* the answer to the last delivery of call i

signedVars == <<now, offset, signingKey, keys, switched, sent, seen, serves, verdict>>

Keys     == {"old", "new"}
Call     == [id : Ids, issued_at : Int, expires_at : Int, key : Keys]
Verdicts == {"none", "served", "malformed_timestamps", "validity_window_too_long",
             "clock_skew_too_large", "expired", "unknown_key_id", "replay_detected"}

SignedTypeOK ==
  /\ now \in Nat
  /\ offset \in Offsets
  /\ signingKey \in Keys /\ keys \subseteq Keys
  /\ switched \in Nat
  /\ sent \subseteq Call
  /\ seen \subseteq [id : Ids, expires_at : Int]
  /\ serves \in [Ids -> 0..2]
  /\ verdict \in [Ids -> Verdicts]

SignedInit ==
  /\ now = Start
  /\ offset \in Offsets
  /\ signingKey = "old" /\ keys = {"old"}
  /\ switched = Start
  /\ sent = {}
  /\ seen = {}
  /\ serves = [i \in Ids |-> 0]
  /\ verdict = [i \in Ids |-> "none"]

-----------------------------------------------------------------------------
(* internalApiFetch: a fresh id, the signer's clock, its current key.       *)
Sign(i) ==
  /\ \A m \in sent : m.id # i
  /\ LET issued == now + offset IN
       sent' = sent \union {[id |-> i, issued_at |-> issued,
                             expires_at |-> issued + Validity, key |-> signingKey]}
  /\ UNCHANGED <<now, offset, signingKey, keys, switched, seen, serves, verdict>>

(* mutant: old entries are dropped by the time of their arrival *)
RememberedShort(t) == {e \in seen : e.expires_at > t + 1}

(* check_and_record first drops what has expired by its own clock.          *)
Remembered(t) == {e \in seen : e.expires_at > t}

(* mutant: the skew is compared with < *)
RejectionAtSkew(m, t) ==
  IF m.issued_at - t >= MaxSkew \/ t - m.issued_at > MaxSkew THEN "clock_skew_too_large"
  ELSE IF t > m.expires_at THEN "expired"
  ELSE IF m.key \notin keys THEN "unknown_key_id"
  ELSE "served"

(* The checks of verify in their order, up to the guard. *)
Rejection(m, t) ==
  IF m.expires_at <= m.issued_at THEN "malformed_timestamps"
  ELSE IF m.expires_at - m.issued_at > MaxValidity THEN "validity_window_too_long"
  ELSE IF m.issued_at - t > MaxSkew \/ t - m.issued_at > MaxSkew THEN "clock_skew_too_large"
  ELSE IF t > m.expires_at THEN "expired"
  ELSE IF m.key \notin keys THEN "unknown_key_id"
  ELSE "served"

(* A delivery.  The guard reads the clock again, a moment after verify was  *)
(* given its now, and in between the clock may move on.                     *)
Deliver(m, t) ==
  /\ t \in now..now + 1 /\ t <= MaxTime
  /\ now' = t
  /\ LET r == Rejection(m, now)
         known == \E e \in Remembered(t) : e.id = m.id IN
       /\ seen' = IF r # "served" THEN seen
                  ELSE IF known THEN Remembered(t)
                  ELSE Remembered(t) \union {[id |-> m.id, expires_at |-> m.expires_at]}
       /\ verdict' = [verdict EXCEPT ![m.id] =
                        IF r = "served" /\ known THEN "replay_detected" ELSE r]
       /\ serves' = IF r = "served" /\ ~known /\ serves[m.id] < 2
                    THEN [serves EXCEPT ![m.id] = @ + 1] ELSE serves
  /\ UNCHANGED <<offset, signingKey, keys, switched, sent>>

(* A restart of apps/api, with the keys it is given. *)
RestartVerifier(ks) ==
  /\ keys' = ks
  /\ seen' = {}
  /\ serves' = [i \in Ids |-> 0]
  /\ UNCHANGED <<now, offset, signingKey, switched, sent, verdict>>

(* A rotation: the verifier learns the new key beside the previous one,     *)
(* then the signer takes it, then, when the calls signed before have run    *)
(* out, the verifier forgets the previous one.                              *)
AddKey == keys = {"old"} /\ RestartVerifier({"new", "old"})

TakeKey ==
  /\ "new" \in keys /\ signingKey = "old"
  /\ signingKey' = "new"
  /\ switched' = now
  /\ UNCHANGED <<now, offset, keys, sent, seen, serves, verdict>>

RetireKey ==
  /\ keys = Keys /\ signingKey = "new"
  /\ now > switched + MaxDelay
  /\ RestartVerifier({"new"})

SignedTick ==
  /\ now < MaxTime
  /\ now' = now + 1
  /\ UNCHANGED <<offset, signingKey, keys, switched, sent, seen, serves, verdict>>

SignedNext ==
  \/ \E i \in Ids : Sign(i)
  \/ \E m \in sent, t \in now..now + 1 : Deliver(m, t)
  \/ RestartVerifier(keys)
  \/ AddKey \/ TakeKey \/ RetireKey
  \/ SignedTick

SignedSpec == SignedInit /\ [][SignedNext]_signedVars

-----------------------------------------------------------------------------
(* "Records request IDs for replay detection within the validity window": a *)
(* process serves a call once, however often it is delivered, until the     *)
(* instant at which it expires.                                             *)
ServedOnce == \A m \in sent : serves[m.id] > 1 => now >= m.expires_at

(* A call that arrives promptly is served: neither clocks within the        *)
(* offsets, nor a restart, nor any step of a key rotation, nor the memory   *)
(* of other calls makes it be refused.                                      *)
PromptCallsAreServed ==
  \A m \in sent :
    verdict[m.id] \notin {"none", "served", "replay_detected"} =>
      now > m.issued_at - offset + MaxDelay
=============================================================================
