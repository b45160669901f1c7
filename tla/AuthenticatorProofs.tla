------------------------- MODULE AuthenticatorProofs -------------------------
(***************************************************************************)
(* Proofs about Authenticator for every set of Auth frames, nonces,       *)
(* appids and stamps: VerifySignature stores a nonce exactly when a       *)
(* verification got past the appid and timestamp checks with it.          *)
(***************************************************************************)
EXTENDS Authenticator, TLAPS

-----------------------------------------------------------------------------
(* Type correctness.  The verdicts and the runtime's fatal errors are    *)
(* strings with spaces, which the SMT backend cannot take: the steps that *)
(* mention them are Zenon's, the arithmetic of the nonce expiries SMT's.  *)

\* The clock and the nonce store: the arithmetic part of TypeOK.
StoreOK ==
    /\ now \in 0..MaxTime
    /\ DOMAIN nonces \subseteq Nonce
    /\ \A n \in DOMAIN nonces : nonces[n] \in (2 * Window)..(MaxTime + 2 * Window)

\* The verifications' control state: the rest of TypeOK.
ControlOK ==
    /\ pc \in [Attempt -> {"idle", "check", "add", "done"}]
    /\ req \in [Attempt -> Requests]
    /\ result \in [Attempt -> Results]
    /\ fatal \in {"none", "concurrent map writes", "concurrent map read and map write"}

LEMMA TypeOKSplit == TypeOK <=> StoreOK /\ ControlOK
  BY Zenon DEF TypeOK, StoreOK, ControlOK

\* Updating one point of a function keeps its type.
LEMMA ExceptType ==
  ASSUME NEW A, NEW B, NEW f \in [A -> B], NEW x \in A, NEW v \in B
  PROVE  [f EXCEPT ![x] = v] \in [A -> B]
  OBVIOUS

\* A constant function has the type of its value.
LEMMA ConstType ==
  ASSUME NEW A, NEW B, NEW v \in B
  PROVE  [x \in A |-> v] \in [A -> B]
  OBVIOUS

LEMMA WindowNat == Window \in Nat /\ MaxTime \in Nat
  BY AuthConstAssumption

\* AddNonce's store keeps every expiry in range while the clock is.
LEMMA StoreKeepsRange ==
  ASSUME StoreOK, NEW n \in Nonce
  PROVE  /\ DOMAIN Store(n, now + 2 * Window) \subseteq Nonce
         /\ \A m \in DOMAIN Store(n, now + 2 * Window) :
               Store(n, now + 2 * Window)[m] \in (2 * Window)..(MaxTime + 2 * Window)
<1>1. now + 2 * Window \in (2 * Window)..(MaxTime + 2 * Window)
  BY WindowNat DEF StoreOK
<1>2. QED
  BY <1>1 DEF StoreOK, Store

LEMMA InitTypeOK == Init => TypeOK
<1> SUFFICES ASSUME Init PROVE StoreOK /\ ControlOK
  BY TypeOKSplit
<1>1. StoreOK
  BY WindowNat DEF Init, StoreOK
<1>2. (CHOOSE r \in Requests : TRUE) \in Requests
  <2>1. AppID # {} /\ Stamp # {} /\ Nonce # {}
    BY AuthConstAssumption
  <2>2. PICK ap \in AppID, st \in Stamp, no \in Nonce : TRUE
    BY <2>1
  <2>3. [appid |-> ap, ts |-> st, nonce |-> no, signOK |-> TRUE] \in Requests
    BY DEF Requests
  <2>4. QED
    BY <2>3
<1>3. pc \in [Attempt -> {"idle", "check", "add", "done"}] /\ req \in [Attempt -> Requests]
  BY <1>2 DEF Init
<1>4. result \in [Attempt -> Results]
  <2>1. "none" \in Results
    BY Zenon DEF Results
  <2>2. QED
    BY <2>1, ConstType, Zenon DEF Init
<1>5. ControlOK
  BY <1>3, <1>4, Zenon DEF Init, ControlOK
<1>6. QED
  BY <1>1, <1>5

LEMMA NextTypeOK == TypeOK /\ [Next]_vars => TypeOK'
<1> SUFFICES ASSUME StoreOK, ControlOK, [Next]_vars PROVE StoreOK' /\ ControlOK'
  BY TypeOKSplit, Zenon DEF TypeOK, StoreOK, ControlOK
<1>1. ASSUME NEW a \in Attempt, NEW r \in Requests, Receive(a, r) PROVE StoreOK' /\ ControlOK'
  <2>1. /\ req' = [req EXCEPT ![a] = r]
        /\ \E p \in {"done", "check"} : pc' = [pc EXCEPT ![a] = p]
        /\ \E v \in {"invalid appid", "timestamp out of window"} :
              result' = [result EXCEPT ![a] = v] \/ result' = result
        /\ UNCHANGED <<now, nonces, fatal>>
    BY <1>1, Zenon DEF Receive
  <2>2. StoreOK'
    BY <2>1 DEF StoreOK
  <2>3. ControlOK'
    BY <2>1, ExceptType, Zenon DEF ControlOK, Results
  <2>4. QED
    BY <2>2, <2>3
<1>2. ASSUME NEW a \in Attempt, HasNonce(a) PROVE StoreOK' /\ ControlOK'
  <2>1. /\ \E p \in {"done", "add"} : pc' = [pc EXCEPT ![a] = p]
        /\ result' = [result EXCEPT ![a] = "nonce already used"] \/ result' = result
        /\ UNCHANGED <<now, req, nonces, fatal>>
    BY <1>2, Zenon DEF HasNonce
  <2>2. StoreOK'
    BY <2>1 DEF StoreOK
  <2>3. ControlOK'
    BY <2>1, ExceptType, Zenon DEF ControlOK, Results
  <2>4. QED
    BY <2>2, <2>3
<1>3. ASSUME NEW a \in Attempt, AddNonce(a) PROVE StoreOK' /\ ControlOK'
  <2>1. req[a].nonce \in Nonce
    BY DEF ControlOK, Requests
  <2>2. CASE /\ nonces' = Store(req[a].nonce, now + 2 * Window)
             /\ pc' = [pc EXCEPT ![a] = "done"]
             /\ result' = [result EXCEPT ![a] = SignatureVerdict(a)]
             /\ UNCHANGED <<now, req, fatal>>
    <3>1. StoreOK'
      BY <2>1, <2>2, StoreKeepsRange DEF StoreOK
    <3>2. SignatureVerdict(a) \in Results
      BY Zenon DEF SignatureVerdict, Results
    <3>3. ControlOK'
      BY <2>2, <3>2, ExceptType, Zenon DEF ControlOK
    <3>4. QED
      BY <3>1, <3>3
  <2>3. CASE /\ fatal' \in {"concurrent map writes", "concurrent map read and map write"}
             /\ UNCHANGED <<now, pc, req, result, nonces>>
    <3>1. StoreOK'
      BY <2>3 DEF StoreOK
    <3>2. ControlOK'
      BY <2>3, Zenon DEF ControlOK
    <3>3. QED
      BY <3>1, <3>2
  <2>4. QED
    BY <1>3, <2>2, <2>3, Zenon DEF AddNonce
<1>4. CASE Tick
  <2>1. now < MaxTime /\ now' = now + 1 /\ UNCHANGED <<pc, req, result, nonces, fatal>>
    BY <1>4 DEF Tick
  <2>2. StoreOK'
    BY <2>1, AuthConstAssumption DEF StoreOK
  <2>3. ControlOK'
    BY <2>1 DEF ControlOK
  <2>4. QED
    BY <2>2, <2>3
<1>5. CASE UNCHANGED vars
  BY <1>5 DEF vars, StoreOK, ControlOK
<1>6. QED
  BY <1>1, <1>2, <1>3, <1>4, <1>5 DEF Next

(* The verifications' variables keep their types in every reachable      *)
(* state, for every instance: in particular every stored nonce expires    *)
(* 2 * timeWindowSec seconds after a clock reading, never earlier.        *)
THEOREM AuthTypeCorrect == Spec => []TypeOK
  BY InitTypeOK, NextTypeOK, PTL DEF Spec

-----------------------------------------------------------------------------
(* The nonce store. *)

\* A verification that has not returned has no result yet.
Pending == \A a \in Attempt : pc[a] # "done" => result[a] = "none"

\* The per-attempt variables are functions on Attempt.
Domains == DOMAIN pc = Attempt /\ DOMAIN req = Attempt /\ DOMAIN result = Attempt

\* NonceBurnOrder is not inductive alone: Receive rewrites req[a], which
\* is harmless only because a verification that has not returned has no
\* result to witness a stored nonce.
BurnInv == Domains /\ Pending /\ NonceBurnOrder

\* The verdicts that burn a nonce.
Burned == {"ok", "invalid signature"}

LEMMA BurnInvInit == Init => BurnInv
  BY DEF Init, BurnInv, Domains, Pending, NonceBurnOrder

LEMMA BurnInvNext == BurnInv /\ [Next]_vars => BurnInv'
<1> SUFFICES ASSUME BurnInv, [Next]_vars PROVE BurnInv'
  OBVIOUS
<1>1. ASSUME NEW a \in Attempt, NEW r \in Requests, Receive(a, r) PROVE BurnInv'
  <2>1. /\ pc[a] = "idle"
        /\ req' = [req EXCEPT ![a] = r]
        /\ UNCHANGED nonces
    BY <1>1, Zenon DEF Receive
  <2>2. result[a] = "none"
    BY <2>1 DEF BurnInv, Pending
  <2>3. CASE /\ pc' = [pc EXCEPT ![a] = "done"]
             /\ \E v \in {"invalid appid", "timestamp out of window"} :
                   result' = [result EXCEPT ![a] = v]
    <3>1. PICK v \in {"invalid appid", "timestamp out of window"} :
                 result' = [result EXCEPT ![a] = v]
      BY <2>3
    <3>2. /\ Domains'
          /\ result'[a] = v /\ pc'[a] = "done"
          /\ \A b \in Attempt \ {a} : result'[b] = result[b] /\ req'[b] = req[b] /\ pc'[b] = pc[b]
      BY <2>1, <2>3, <3>1 DEF BurnInv, Domains
    <3>3. v \notin Burned /\ "none" \notin Burned
      BY DEF Burned
    <3>4. Pending'
      BY <2>2, <3>2, Zenon DEF BurnInv, Pending
    <3>5. ASSUME NEW n \in Nonce, NEW b \in Attempt
          PROVE (req'[b].nonce = n /\ result'[b] \in Burned) <=> (req[b].nonce = n /\ result[b] \in Burned)
      <4>1. CASE b = a
        BY <2>2, <3>2, <3>3, <4>1
      <4>2. CASE b # a
        BY <3>2, <4>2
      <4>3. QED
        BY <4>1, <4>2
    <3>6. NonceBurnOrder'
      BY <2>1, <3>5, Zenon DEF BurnInv, NonceBurnOrder, Burned
    <3>7. QED
      BY <3>2, <3>4, <3>6 DEF BurnInv
  <2>4. CASE pc' = [pc EXCEPT ![a] = "check"] /\ UNCHANGED result
    BY <2>1, <2>2, <2>4, Zenon DEF BurnInv, Domains, Pending, NonceBurnOrder
  <2>5. QED
    BY <1>1, <2>3, <2>4, Zenon DEF Receive
<1>2. ASSUME NEW a \in Attempt, HasNonce(a) PROVE BurnInv'
  <2>1. /\ pc[a] = "check"
        /\ UNCHANGED <<req, nonces>>
    BY <1>2, Zenon DEF HasNonce
  <2>2. result[a] = "none"
    BY <2>1 DEF BurnInv, Pending
  <2>3. CASE pc' = [pc EXCEPT ![a] = "done"]
             /\ result' = [result EXCEPT ![a] = "nonce already used"]
    BY <2>1, <2>2, <2>3, Zenon DEF BurnInv, Domains, Pending, NonceBurnOrder
  <2>4. CASE pc' = [pc EXCEPT ![a] = "add"] /\ UNCHANGED result
    BY <2>1, <2>2, <2>4, Zenon DEF BurnInv, Domains, Pending, NonceBurnOrder
  <2>5. QED
    BY <1>2, <2>3, <2>4, Zenon DEF HasNonce
<1>3. ASSUME NEW a \in Attempt, AddNonce(a) PROVE BurnInv'
  <2>1. CASE nonces' = Store(req[a].nonce, now + 2 * Window)
             /\ pc' = [pc EXCEPT ![a] = "done"]
             /\ result' = [result EXCEPT ![a] = SignatureVerdict(a)]
             /\ UNCHANGED req
    <3>1. pc[a] = "add" /\ result[a] = "none"
      BY <1>3 DEF AddNonce, BurnInv, Pending
    <3>2. result'[a] \in Burned /\ DOMAIN nonces' = DOMAIN nonces \cup {req[a].nonce}
      BY <2>1 DEF BurnInv, Domains, SignatureVerdict, Burned, Store
    <3>3. \A b \in Attempt \ {a} : result'[b] = result[b] /\ pc'[b] = pc[b]
      BY <2>1 DEF BurnInv, Domains
    <3>4. NonceBurnOrder'
      <4>1. SUFFICES ASSUME NEW n \in Nonce
                     PROVE  n \in DOMAIN nonces' <=>
                              \E b \in Attempt : req'[b].nonce = n /\ result'[b] \in Burned
        BY Zenon DEF NonceBurnOrder, Burned
      <4>2. CASE n = req[a].nonce
        BY <2>1, <3>2, <4>2, Zenon
      <4>3. CASE n # req[a].nonce
        <5>1. n \in DOMAIN nonces' <=> n \in DOMAIN nonces
          BY <3>2, <4>3, Zenon
        <5>2. n \in DOMAIN nonces <=>
                \E b \in Attempt \ {a} : req[b].nonce = n /\ result[b] \in Burned
          BY <4>3, Zenon DEF BurnInv, NonceBurnOrder, Burned
        <5>3. (\E b \in Attempt : req'[b].nonce = n /\ result'[b] \in Burned) <=>
                \E b \in Attempt \ {a} : req[b].nonce = n /\ result[b] \in Burned
          BY <2>1, <3>3, <4>3, Zenon
        <5>4. QED
          BY <5>1, <5>2, <5>3, Zenon
      <4>4. QED
        BY <4>2, <4>3
    <3>5. QED
      BY <2>1, <3>3, <3>4, Zenon DEF BurnInv, Domains, Pending
  <2>2. CASE UNCHANGED <<pc, result, nonces, req>>
    BY <2>2 DEF BurnInv, Domains, Pending, NonceBurnOrder
  <2>3. QED
    BY <1>3, <2>1, <2>2 DEF AddNonce
<1>4. CASE Tick
  BY <1>4 DEF Tick, BurnInv, Domains, Pending, NonceBurnOrder
<1>5. CASE UNCHANGED vars
  BY <1>5 DEF vars, BurnInv, Domains, Pending, NonceBurnOrder
<1>6. QED
  BY <1>1, <1>2, <1>3, <1>4, <1>5 DEF Next

(* Spec 4.3 (order of checks), for every instance: the nonce store holds  *)
(* exactly the nonces of verifications that passed the appid and the      *)
(* timestamp checks and reached the HMAC comparison, so a rejected appid  *)
(* or a skewed clock never burns a nonce and a forged signature always    *)
(* does.                                                                   *)
LEMMA NonceBurnInvariant == Spec => []BurnInv
  BY BurnInvInit, BurnInvNext, PTL DEF Spec

THEOREM NonceBurnOrderHolds == Spec => []NonceBurnOrder
<1>1. BurnInv => NonceBurnOrder
  BY DEF BurnInv
<1>2. QED
  BY <1>1, NonceBurnInvariant, PTL
-----------------------------------------------------------------------------
(* Replay rejection for Auths that do not overlap. *)

\* The one step that moves a verification off "check" is its own HasNonce.
LEMMA LeaveCheckIsHasNonce ==
  ASSUME TypeOK, [Next]_vars, NEW a \in Attempt, pc[a] = "check", pc'[a] # "check"
  PROVE  HasNonce(a)
<1>1. pc \in [Attempt -> {"idle", "check", "add", "done"}]
  BY Zenon DEF TypeOK
<1>2. ASSUME NEW x \in Attempt, NEW r \in Requests, Receive(x, r) PROVE FALSE
  <2>1. pc[x] = "idle" /\ (pc' = [pc EXCEPT ![x] = "done"] \/ pc' = [pc EXCEPT ![x] = "check"])
    BY <1>2, Zenon DEF Receive
  <2>2. QED
    BY <1>1, <2>1, Zenon
<1>3. ASSUME NEW x \in Attempt, HasNonce(x), x # a PROVE FALSE
  <2>1. pc' = [pc EXCEPT ![x] = "done"] \/ pc' = [pc EXCEPT ![x] = "add"]
    BY <1>3, Zenon DEF HasNonce
  <2>2. QED
    BY <1>1, <1>3, <2>1, Zenon
<1>4. ASSUME NEW x \in Attempt, AddNonce(x) PROVE FALSE
  <2>1. pc[x] = "add" /\ (pc' = [pc EXCEPT ![x] = "done"] \/ pc' = pc)
    BY <1>4, Zenon DEF AddNonce
  <2>2. QED
    BY <1>1, <2>1, Zenon
<1>5. CASE Tick \/ UNCHANGED vars
  BY <1>5, Zenon DEF Tick, vars
<1>6. QED
  BY <1>2, <1>3, <1>4, <1>5, Zenon DEF Next

\* Each step keeps the replay rule, from the type and the nonce invariant.
LEMMA ReplayStep ==
  ASSUME TypeOK, BurnInv, [Next]_vars,
         NEW a \in Attempt, NEW b \in Attempt,
         pc[a] = "check", pc'[a] # "check", result[b] = "ok", req[b].nonce = req[a].nonce
  PROVE  result'[a] = "nonce already used"
<1>1. HasNonce(a)
  BY LeaveCheckIsHasNonce
<1>2. req[a].nonce \in Nonce
  BY Zenon DEF TypeOK, Requests
<1>3. req[a].nonce \in DOMAIN nonces
  BY <1>2, Zenon DEF BurnInv, NonceBurnOrder
<1>4. result' = [result EXCEPT ![a] = "nonce already used"]
  BY <1>1, <1>3, Zenon DEF HasNonce
<1>5. a \in DOMAIN result
  BY Zenon DEF TypeOK
<1>6. QED
  BY <1>4, <1>5, Zenon

(* Replay rejection for Auths that do not overlap, for every instance:    *)
(* once a verification has accepted a nonce, every later HasNonce of the *)
(* same nonce answers "nonce already used".                              *)
THEOREM ReplayRejectedHolds == Spec => ReplayRejectedOnceAccepted
<1>1. Spec => [](TypeOK /\ BurnInv)
  BY AuthTypeCorrect, NonceBurnInvariant, PTL
<1>2. TypeOK /\ BurnInv /\ [Next]_vars =>
        [\A a, b \in Attempt :
           (pc[a] = "check" /\ pc'[a] # "check" /\ result[b] = "ok" /\ req[b].nonce = req[a].nonce)
              => result'[a] = "nonce already used"]_vars
  BY ReplayStep
<1>3. QED
  BY <1>1, <1>2, PTL DEF Spec, ReplayRejectedOnceAccepted

=============================================================================
