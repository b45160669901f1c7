---------------------------- MODULE Authenticator ----------------------------
(***************************************************************************)
(* The gateway's Authenticator.VerifySignature and its MemoryNonceStore    *)
(* (package security, src/Dockerfile lines 116-231), called by handleAuth  *)
(* from the reader of every connection, so several verifications run at   *)
(* once over the one nonce map, which has no lock.                        *)
(*                                                                         *)
(* An element of Attempt is one Auth frame a reader verifies.  The HMAC   *)
(* comparison is abstracted to the request's signOK: whether `sign` is    *)
(* the HMAC of "appid|sn|ts|nonce" under the appid's key.  Timestamps are *)
(* Go int64 values, modelled as Width-bit two's-complement integers.      *)
(***************************************************************************)
EXTENDS Integers

CONSTANTS
    Attempt,     \* Auth frames read by the connections' readers
    Nonce,       \* nonces the frames carry
    AppID,       \* appids the frames name
    Keys,        \* appids that have a key in Authenticator.keys
    Stamp,       \* ts values the frames carry
    Window,      \* Authenticator.timeWindowSec
    Width,       \* bits of Go's int64 (64 in the build)
    MaxTime      \* bound on the clock time.Now().Unix()

Int64 == -(2^(Width - 1)) .. 2^(Width - 1) - 1

\* Every Auth frame carries an appid, a ts and a nonce.
ASSUME AuthConstAssumption ==
    /\ AppID # {} /\ Stamp # {} /\ Nonce # {}
    /\ Keys \subseteq AppID
    /\ Width \in Nat \ {0, 1}
    /\ Stamp \subseteq Int64
    /\ Window \in Nat /\ MaxTime \in Nat
    /\ MaxTime + 2 * Window \in Int64

VARIABLES
    now,         \* time.Now().Unix()
    pc,          \* where each verification is
    req,         \* the Auth frame each verification checks
    result,      \* the error VerifySignature returns ("ok" for nil)
    nonces,      \* MemoryNonceStore.nonces: nonce -> expiry, a partial function
    fatal        \* "none", or the Go runtime's fatal error that ended the process

vars == <<now, pc, req, result, nonces, fatal>>

Requests == [appid : AppID, ts : Stamp, nonce : Nonce, signOK : BOOLEAN]
Results == {"none", "ok", "invalid appid", "timestamp out of window",
            "nonce already used", "invalid signature"}

(* Verification phases: "idle" before the frame is read; "check" about to *)
(* call HasNonce; "add" about to call AddNonce; "done" returned.          *)
TypeOK ==
    /\ now \in 0..MaxTime
    /\ pc \in [Attempt -> {"idle", "check", "add", "done"}]
    /\ req \in [Attempt -> Requests]
    /\ result \in [Attempt -> Results]
    /\ DOMAIN nonces \subseteq Nonce
    /\ \A n \in DOMAIN nonces : nonces[n] \in (2 * Window)..(MaxTime + 2 * Window)
    /\ fatal \in {"none", "concurrent map writes", "concurrent map read and map write"}

Alive == fatal = "none"

-----------------------------------------------------------------------------
(* int64 arithmetic. *)

\* The two's-complement wrap of Go's signed integer arithmetic.
Wrap(x) == ((x + 2^(Width - 1)) % 2^Width) - 2^(Width - 1)

\* abs(x int64): -x wraps, so abs of the least int64 is negative.
Abs64(x) == IF x < 0 THEN Wrap(-x) ELSE x

\* verifyTimestamp: abs(now-ts) > timeWindowSec rejects.
OutOfWindow(ts) == Abs64(Wrap(now - ts)) > Window

\* The mathematical distance the window is meant to bound.
Distance(ts) == IF now >= ts THEN now - ts ELSE ts - now

-----------------------------------------------------------------------------
(* VerifySignature, in the three steps that touch shared state. *)

\* handleAuth reads an Auth frame; VerifySignature looks the appid's key up
\* and checks the timestamp window, returning on either failure.
Receive(a, r) ==
    /\ Alive
    /\ pc[a] = "idle"
    /\ req' = [req EXCEPT ![a] = r]
    /\ \/ /\ r.appid \notin Keys
          /\ pc' = [pc EXCEPT ![a] = "done"]
          /\ result' = [result EXCEPT ![a] = "invalid appid"]
       \/ /\ r.appid \in Keys
          /\ OutOfWindow(r.ts)
          /\ pc' = [pc EXCEPT ![a] = "done"]
          /\ result' = [result EXCEPT ![a] = "timestamp out of window"]
       \/ /\ r.appid \in Keys
          /\ ~OutOfWindow(r.ts)
          /\ pc' = [pc EXCEPT ![a] = "check"]
          /\ UNCHANGED result
    /\ UNCHANGED <<now, nonces, fatal>>

\* Mutant of HasNonce: the store is never consulted.
HasNonceStub(a) ==
    /\ Alive
    /\ pc[a] = "check"
    /\ pc' = [pc EXCEPT ![a] = "add"]
    /\ UNCHANGED <<now, req, result, nonces, fatal>>

\* verifyNonce: MemoryNonceStore.HasNonce reads the map.
HasNonce(a) ==
    /\ Alive
    /\ pc[a] = "check"
    /\ IF req[a].nonce \in DOMAIN nonces
       THEN /\ pc' = [pc EXCEPT ![a] = "done"]
            /\ result' = [result EXCEPT ![a] = "nonce already used"]
       ELSE /\ pc' = [pc EXCEPT ![a] = "add"]
            /\ UNCHANGED result
    /\ UNCHANGED <<now, req, nonces, fatal>>

\* The map after m.nonces[n] = e.
Store(n, e) == [x \in DOMAIN nonces \cup {n} |-> IF x = n THEN e ELSE nonces[x]]

\* VerifySignature's last step: hmac.Equal against the expected signature.
SignatureVerdict(a) == IF req[a].signOK THEN "ok" ELSE "invalid signature"

\* Another verification may touch the map while this one writes it.
MapBusy(a) == \E b \in Attempt \ {a} : pc[b] \in {"check", "add"}

\* Mutant of AddNonce: the ttl lacks its `* time.Second`, so the entry
\* expires 2 * Window nanoseconds after now.
AddNonceTTLNanos(a) ==
    /\ Alive
    /\ pc[a] = "add"
    /\ nonces' = Store(req[a].nonce, now)
    /\ pc' = [pc EXCEPT ![a] = "done"]
    /\ result' = [result EXCEPT ![a] = SignatureVerdict(a)]
    /\ UNCHANGED <<now, req, fatal>>

\* Mutant of AddNonce: the signature is compared first and only a valid
\* one stores its nonce.
AddNonceAfterSignature(a) ==
    /\ Alive
    /\ pc[a] = "add"
    /\ nonces' = IF req[a].signOK THEN Store(req[a].nonce, now + 2 * Window) ELSE nonces
    /\ pc' = [pc EXCEPT ![a] = "done"]
    /\ result' = [result EXCEPT ![a] = SignatureVerdict(a)]
    /\ UNCHANGED <<now, req, fatal>>

\* verifyNonce: AddNonce stores now + 2 * timeWindowSec; then the HMAC is
\* compared.  The map write is unsynchronised: when another verification
\* accesses the map at the same time the runtime may detect it and abort.
AddNonce(a) ==
    /\ Alive
    /\ pc[a] = "add"
    /\ \/ /\ nonces' = Store(req[a].nonce, now + 2 * Window)
          /\ pc' = [pc EXCEPT ![a] = "done"]
          /\ result' = [result EXCEPT ![a] = SignatureVerdict(a)]
          /\ UNCHANGED fatal
       \/ /\ MapBusy(a)
          /\ fatal' \in {"concurrent map writes", "concurrent map read and map write"}
          /\ UNCHANGED <<pc, result, nonces>>
    /\ UNCHANGED <<now, req>>

\* The clock advances.
Tick ==
    /\ Alive
    /\ now < MaxTime
    /\ now' = now + 1
    /\ UNCHANGED <<pc, req, result, nonces, fatal>>

\* The gateway starts at any clock reading the bound allows: time.Now()
\* is never the origin of the int64 range.
Init ==
    /\ now \in 0..MaxTime
    /\ pc = [a \in Attempt |-> "idle"]
    /\ req = [a \in Attempt |-> CHOOSE r \in Requests : TRUE]
    /\ result = [a \in Attempt |-> "none"]
    /\ nonces = [n \in {} |-> 0]
    /\ fatal = "none"

Next ==
    \/ \E a \in Attempt :
          \/ \E r \in Requests : Receive(a, r)
          \/ HasNonce(a) \/ AddNonce(a)
    \/ Tick

\* MemoryNonceStore.Cleanup is called by no code, so no action evicts a
\* nonce.
Spec == Init /\ [][Next]_vars

-----------------------------------------------------------------------------
(* Properties. *)

(* Spec 4.3 (order of checks): a nonce is in the store exactly when some  *)
(* verification passed the appid and timestamp checks with it and went    *)
(* on to the signature, valid or not; a rejected appid or a skewed clock  *)
(* does not burn it, and a signature presented twice finds it.            *)
NonceBurnOrder ==
    \A n \in Nonce :
        n \in DOMAIN nonces <=>
            \E a \in Attempt : req[a].nonce = n /\ result[a] \in {"ok", "invalid signature"}

(* Replay rejection for Auths that do not overlap: once a verification    *)
(* has accepted a nonce, every later HasNonce of that nonce rejects it.   *)
ReplayRejectedOnceAccepted ==
    [][\A a, b \in Attempt :
         (pc[a] = "check" /\ pc'[a] # "check" /\ result[b] = "ok" /\ req[b].nonce = req[a].nonce)
            => result'[a] = "nonce already used"]_vars

(* Spec 7 (replay rejection): the same nonce is accepted at most once     *)
(* within its TTL, even when devices authenticate concurrently.           *)
NoReplay ==
    \A a, b \in Attempt :
        (a # b /\ result[a] = "ok" /\ result[b] = "ok") => req[a].nonce # req[b].nonce

(* Spec 7 (clock window): verification passes the timestamp check iff    *)
(* |now - ts| <= time_window_sec, at whatever clock reading it runs.      *)
ClockWindow ==
    [][\A a \in Attempt :
         (pc[a] = "idle" /\ pc'[a] # "idle" /\ req'[a].appid \in Keys)
            => (result'[a] # "timestamp out of window" <=> Distance(req'[a].ts) <= Window)]_vars

(* Spec 4.2 (concurrency): devices connect concurrently and the store is  *)
(* shared, so concurrent Auths must not abort the gateway.                *)
NoFatalMapRace == fatal = "none"

=============================================================================
