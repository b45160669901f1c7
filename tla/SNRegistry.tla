----------------------------- MODULE SNRegistry -----------------------------
(***************************************************************************)
(* What the session registry promises the operator (spec 2, 4.4 and 6):    *)
(* single-owner semantics.  An SN routes to at most one connection; a     *)
(* connection that authenticates as an SN takes the SN over and the prior *)
(* owner is closed; a connection, once closed, never routes again.  There *)
(* are no sessions, indices, locks or readers here.                       *)
(***************************************************************************)
EXTENDS TLAPS

CONSTANTS
    Conn,        \* connections the gateway may accept
    SN,          \* serial numbers
    NoID         \* "no connection"

VARIABLES
    route,       \* SN -> the connection a command for it is written to, or NoID
    retired      \* connections that are closed

rvars == <<route, retired>>

RInit ==
    /\ route = [s \in SN |-> NoID]
    /\ retired = {}

\* An open connection that routes for no SN authenticates as s: it takes
\* s over, and the connection that held s is closed (spec 6, reconnect
\* eviction).
Claim(c, s) ==
    /\ c \notin retired
    /\ \A t \in SN : route[t] # c
    /\ route' = [route EXCEPT ![s] = c]
    /\ retired' = retired \cup ({route[s]} \ {NoID})

\* The connections of X are closed (read error, failed ping, expiry,
\* shutdown); every SN one of them held stops routing.
Retire(X) ==
    /\ retired' = retired \cup X
    /\ route' = [s \in SN |-> IF route[s] \in X THEN NoID ELSE route[s]]

RNext ==
    \/ \E c \in Conn, s \in SN : Claim(c, s)
    \/ \E X \in SUBSET Conn : Retire(X)

RSpec == RInit /\ [][RNext]_rvars

-----------------------------------------------------------------------------

(* Single owner (spec 3 and 4.4): no connection is the route of two SNs,  *)
(* and every routed connection is open, so a command is never written to *)
(* a closed or evicted connection.                                        *)
SingleOwner ==
    \A s, t \in SN :
        route[s] # NoID => (route[s] \notin retired /\ (route[t] = route[s] => s = t))

\* The route is a function on SN.
RouteFun == route = [s \in SN |-> route[s]]

LEMMA SingleOwnerNext == RouteFun /\ SingleOwner /\ [RNext]_rvars => RouteFun' /\ SingleOwner'
<1> SUFFICES ASSUME RouteFun, SingleOwner, [RNext]_rvars PROVE RouteFun' /\ SingleOwner'
  OBVIOUS
<1>1. ASSUME NEW c \in Conn, NEW s \in SN, Claim(c, s) PROVE RouteFun' /\ SingleOwner'
  <2>1. \A t \in SN : route'[t] = IF t = s THEN c ELSE route[t]
    BY <1>1 DEF Claim, RouteFun
  <2>2. RouteFun'
    BY <1>1 DEF Claim, RouteFun
  <2>3. SingleOwner'
    BY <1>1, <2>1 DEF Claim, SingleOwner
  <2>4. QED
    BY <2>2, <2>3
<1>2. ASSUME NEW X \in SUBSET Conn, Retire(X) PROVE RouteFun' /\ SingleOwner'
  BY <1>2 DEF Retire, RouteFun, SingleOwner
<1>3. CASE UNCHANGED rvars
  BY <1>3 DEF rvars, RouteFun, SingleOwner
<1>4. QED
  BY <1>1, <1>2, <1>3 DEF RNext

(* Every behaviour of the registry keeps a single owner per SN, each one *)
(* open, for every set of connections and SNs.                           *)
THEOREM SingleOwnerHolds == RSpec => []SingleOwner
<1>1. RInit => RouteFun /\ SingleOwner
  BY DEF RInit, RouteFun, SingleOwner
<1>2. QED
  BY <1>1, SingleOwnerNext, PTL DEF RSpec
=============================================================================
