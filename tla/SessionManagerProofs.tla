------------------------ MODULE SessionManagerProofs ------------------------
(***************************************************************************)
(* Proofs about SessionManager for every value of the constants: the type  *)
(* invariant, and, when peers authenticate once per connection, the       *)
(* inductive invariant IInv from which SN uniqueness and routability of   *)
(* every served authenticated connection follow.                          *)
(***************************************************************************)
EXTENDS SessionManager, TLAPS

\* The one-line Session helpers are expanded everywhere.
USE DEF CloseSessions, UpdatePing, IsClosed, SendMessageOK, GetSessionInfo

-----------------------------------------------------------------------------
(* Type correctness. *)

LEMMA InitTypeOK == Init => TypeOK
  BY ConstAssumption DEF Init, TypeOK, Phases

LEMMA NextTypeOK == TypeOK /\ [Next]_vars => TypeOK'
<1> SUFFICES ASSUME TypeOK, [Next]_vars PROVE TypeOK'
  OBVIOUS
<1> USE DEF TypeOK, Phases
<1>1. ASSUME NEW c \in Conn, Accept(c) PROVE TypeOK'
  BY <1>1 DEF Accept
<1>2. ASSUME NEW c \in Conn, ReaderExit(c) PROVE TypeOK'
  BY <1>2 DEF ReaderExit
<1>3. ASSUME NEW c \in Conn, ReaderRead(c) PROVE TypeOK'
  BY <1>3 DEF ReaderRead
<1>4. ASSUME NEW c \in Conn, ReadFail(c) PROVE TypeOK'
  BY <1>4 DEF ReadFail
<1>5. ASSUME NEW c \in Conn, HandleAuthAdd(c) PROVE TypeOK'
  BY <1>5 DEF HandleAuthAdd, Add
<1>6. ASSUME NEW c \in Conn, HandleAuthRejected(c) PROVE TypeOK'
  BY <1>6 DEF HandleAuthRejected
<1>7. ASSUME NEW c \in Conn, HandlePing(c) PROVE TypeOK'
  BY <1>7 DEF HandlePing
<1>8. ASSUME NEW c \in Conn, HandleOther(c) PROVE TypeOK'
  BY <1>8 DEF HandleOther
<1>9. ASSUME NEW c \in Conn, HeartbeatGet(c) PROVE TypeOK'
  BY <1>9 DEF HeartbeatGet
<1>10. ASSUME NEW c \in Conn, NEW s \in SN, HandleAuthVerified(c, s) PROVE TypeOK'
  BY <1>10 DEF HandleAuthVerified
<1>11. CASE HeartbeatTick
  BY <1>11 DEF HeartbeatTick
<1>12. CASE HeartbeatPing
  <2>1. hbGot \in Conn /\ hbGot' = NoID
    BY <1>12 DEF HeartbeatPing
  <2>2. CASE UNCHANGED <<closed, sessions, snToID>>
    BY <1>12, <2>1, <2>2 DEF HeartbeatPing
  <2>3. CASE Remove(hbGot)
    BY <1>12, <2>1, <2>3 DEF HeartbeatPing, Remove, Drop
  <2>4. QED
    BY <1>12, <2>2, <2>3 DEF HeartbeatPing
<1>13. CASE CleanupExpired
  BY <1>13 DEF CleanupExpired, Drop
<1>14. CASE Stop
  BY <1>14 DEF Stop
<1>15. CASE StopJoined
  BY <1>15 DEF StopJoined
<1>16. CASE Tick
  BY <1>16, ConstAssumption DEF Tick
<1>17. CASE Terminated \/ UNCHANGED vars
  BY <1>17 DEF Terminated, vars
<1>18. QED
  BY <1>1, <1>2, <1>3, <1>4, <1>5, <1>6, <1>7, <1>8, <1>9, <1>10, <1>11,
     <1>12, <1>13, <1>14, <1>15, <1>16, <1>17 DEF Next

(* The type invariant holds in every reachable state. *)
THEOREM TypeCorrect == Spec => []TypeOK
  BY InitTypeOK, NextTypeOK, PTL DEF Spec

-----------------------------------------------------------------------------
(* The registry invariant, when peers authenticate once per connection.  *)

\* The registry conjuncts of IInv (all but TypeOK).
RegistryInv == IdleFresh /\ HeldAuthenticated /\ AuthingHasSN /\ HeldIndexed /\ ServedHeld
               /\ ExitedClosed /\ IndexedHeld

LEMMA IInvInit == Init => IInv
  BY InitTypeOK DEF Init, IInv, IdleFresh, HeldAuthenticated, AuthingHasSN,
                    HeldIndexed, ServedHeld, ExitedClosed, IndexedHeld, Served

(* Dropping held sessions (Remove, CleanupExpired) keeps the registry     *)
(* conjuncts: a remaining session's SN is no dropped session's SN, since  *)
(* each held session is the index entry of its own SN.                    *)
LEMMA DropKeepsRegistry ==
  ASSUME TypeOK, RegistryInv, TypeOK',
         NEW S \in SUBSET sessions, Drop(S),
         phase' = phase, sn' = sn
  PROVE  RegistryInv'
<1> USE DEF RegistryInv
<1>1. IdleFresh'
  BY DEF Drop, IdleFresh, HeldAuthenticated
<1>2. HeldAuthenticated'
  BY DEF Drop, HeldAuthenticated
<1>3. AuthingHasSN'
  BY DEF AuthingHasSN
<1>4. HeldIndexed'
  <2> SUFFICES ASSUME NEW d \in sessions' PROVE snToID'[sn[d]] = d
    BY DEF HeldIndexed
  <2>1. d \in sessions /\ d \notin S
    BY DEF Drop
  <2>2. sn[d] \in SN
    BY <2>1 DEF HeldAuthenticated, TypeOK
  <2>3. ~\E e \in S : sn[e] = sn[d]
    BY <2>1 DEF HeldIndexed
  <2>4. QED
    BY <2>1, <2>2, <2>3 DEF Drop, HeldIndexed
<1>5. ServedHeld'
  BY DEF Drop, ServedHeld, Served
<1>6. ExitedClosed'
  BY DEF Drop, ExitedClosed, TypeOK
<1>7. IndexedHeld'
  <2> SUFFICES ASSUME NEW s \in SN, snToID'[s] # NoID
               PROVE  snToID'[s] \in sessions' /\ sn[snToID'[s]] = s
    BY DEF IndexedHeld
  <2>1. ~\E e \in S : sn[e] = s
    BY DEF Drop
  <2>2. snToID'[s] = snToID[s]
    BY <2>1 DEF Drop
  <2>3. snToID[s] \in sessions /\ sn[snToID[s]] = s
    BY <2>2 DEF IndexedHeld
  <2>4. snToID[s] \notin S
    BY <2>1, <2>3
  <2>5. QED
    BY <2>2, <2>3, <2>4 DEF Drop
<1>8. QED
  BY <1>1, <1>2, <1>3, <1>4, <1>5, <1>6, <1>7

(* SessionManager.Add from the second half of handleAuth keeps the       *)
(* registry conjuncts: the only held session with the new session's SN is *)
(* its index entry, and Add evicts exactly that one.                      *)
LEMMA AuthAddKeepsRegistry ==
  ASSUME TypeOK, RegistryInv, TypeOK',
         NEW c \in Conn, HandleAuthAdd(c)
  PROVE  RegistryInv'
<1> USE DEF RegistryInv
<1>1. /\ phase[c] = "authing"
      /\ sn[c] \in SN
      /\ c \notin sessions
      /\ sn' = sn
      /\ phase' = [phase EXCEPT ![c] = "top"]
  BY DEF HandleAuthAdd, AuthingHasSN, HeldAuthenticated, TypeOK
<1> DEFINE old == snToID[sn[c]]
           ev == IF sn[c] # NoSN /\ old \in sessions THEN {old} ELSE {}
<1>2. /\ closed' = [d \in Conn |-> closed[d] \/ d \in ev]
      /\ sessions' = (sessions \ ev) \cup {c}
      /\ snToID' = [snToID EXCEPT ![sn[c]] = c]
  BY <1>1, ConstAssumption DEF HandleAuthAdd, Add
<1>3. ev \subseteq sessions
  OBVIOUS
<1>4. IdleFresh'
  BY <1>1, <1>2, <1>3 DEF IdleFresh, TypeOK
<1>5. HeldAuthenticated'
  BY <1>1, <1>2, ConstAssumption DEF HeldAuthenticated, TypeOK
<1>6. AuthingHasSN'
  BY <1>1 DEF AuthingHasSN, TypeOK
<1>7. HeldIndexed'
  <2> SUFFICES ASSUME NEW d \in sessions' PROVE snToID'[sn'[d]] = d
    BY DEF HeldIndexed
  <2>1. CASE d = c
    BY <2>1, <1>1, <1>2 DEF TypeOK
  <2>2. CASE d # c
    <3>1. d \in sessions /\ d \notin ev
      BY <2>2, <1>2
    <3>2. sn[d] # sn[c]
      BY <3>1, <1>1, ConstAssumption DEF HeldIndexed
    <3>3. QED
      BY <3>1, <3>2, <1>1, <1>2 DEF HeldIndexed, HeldAuthenticated, TypeOK
  <2>3. QED
    BY <2>1, <2>2
<1>8. ServedHeld'
  BY <1>1, <1>2 DEF ServedHeld, Served, TypeOK
<1>9. ExitedClosed'
  BY <1>1, <1>2 DEF ExitedClosed, TypeOK
<1>10. IndexedHeld'
  <2> SUFFICES ASSUME NEW s \in SN, snToID'[s] # NoID
               PROVE  snToID'[s] \in sessions' /\ sn'[snToID'[s]] = s
    BY DEF IndexedHeld
  <2>1. CASE s = sn[c]
    BY <2>1, <1>1, <1>2 DEF TypeOK
  <2>2. CASE s # sn[c]
    <3>1. snToID'[s] = snToID[s] /\ snToID[s] \in sessions /\ sn[snToID[s]] = s
      BY <2>2, <1>1, <1>2 DEF IndexedHeld, TypeOK
    <3>2. old # NoID => sn[old] = sn[c]
      BY <1>1 DEF IndexedHeld
    <3>3. snToID[s] \notin ev
      BY <3>1, <3>2, <2>2
    <3>4. QED
      BY <3>1, <3>3, <1>1, <1>2
  <2>3. QED
    BY <2>1, <2>2
<1>11. QED
  BY <1>4, <1>5, <1>6, <1>7, <1>8, <1>9, <1>10

(* Every step keeps IInv when no peer re-authenticates: handleAuth then   *)
(* only runs on a connection with no SN, which the manager does not hold. *)
LEMMA IInvNext == ~ReAuth /\ IInv /\ [Next]_vars => IInv'
<1> SUFFICES ASSUME ~ReAuth, TypeOK, RegistryInv, [Next]_vars
             PROVE  RegistryInv'
  BY NextTypeOK DEF IInv, RegistryInv
<1> USE DEF RegistryInv
<1>1. ASSUME NEW c \in Conn, Accept(c) PROVE RegistryInv'
  BY <1>1 DEF Accept, TypeOK, IdleFresh, HeldAuthenticated, AuthingHasSN,
              HeldIndexed, ServedHeld, ExitedClosed, IndexedHeld, Served
<1>2. ASSUME NEW c \in Conn, ReaderExit(c) PROVE RegistryInv'
  <2>1. UNCHANGED <<sn, sessions, snToID>>
    BY <1>2 DEF ReaderExit
  <2>2. HeldAuthenticated' /\ AuthingHasSN' /\ HeldIndexed' /\ IndexedHeld'
    BY <1>2, <2>1 DEF ReaderExit, TypeOK, HeldAuthenticated, AuthingHasSN, HeldIndexed, IndexedHeld
  <2>3. IdleFresh' /\ ServedHeld' /\ ExitedClosed'
    BY <1>2, <2>1 DEF ReaderExit, TypeOK, IdleFresh, ServedHeld, ExitedClosed, Served
  <2>4. QED
    BY <2>2, <2>3
<1>3. ASSUME NEW c \in Conn, ReaderRead(c) PROVE RegistryInv'
  BY <1>3 DEF ReaderRead, TypeOK, IdleFresh, HeldAuthenticated, AuthingHasSN,
              HeldIndexed, ServedHeld, ExitedClosed, IndexedHeld, Served
<1>4. ASSUME NEW c \in Conn, ReadFail(c) PROVE RegistryInv'
  <2>1. UNCHANGED <<sn, sessions, snToID>>
    BY <1>4 DEF ReadFail
  <2>2. HeldAuthenticated' /\ AuthingHasSN' /\ HeldIndexed' /\ IndexedHeld'
    BY <1>4, <2>1 DEF ReadFail, TypeOK, HeldAuthenticated, AuthingHasSN, HeldIndexed, IndexedHeld
  <2>3. IdleFresh' /\ ServedHeld' /\ ExitedClosed'
    BY <1>4, <2>1 DEF ReadFail, TypeOK, IdleFresh, ServedHeld, ExitedClosed, Served
  <2>4. QED
    BY <2>2, <2>3
<1>5. ASSUME NEW c \in Conn, HandleAuthAdd(c) PROVE RegistryInv'
  BY <1>5, NextTypeOK, AuthAddKeepsRegistry
<1>6. ASSUME NEW c \in Conn, HandleAuthRejected(c) PROVE RegistryInv'
  BY <1>6 DEF HandleAuthRejected, TypeOK, IdleFresh, HeldAuthenticated,
              AuthingHasSN, HeldIndexed, ServedHeld, ExitedClosed, IndexedHeld, Served
<1>7. ASSUME NEW c \in Conn, HandlePing(c) PROVE RegistryInv'
  BY <1>7 DEF HandlePing, TypeOK, IdleFresh, HeldAuthenticated, AuthingHasSN,
              HeldIndexed, ServedHeld, ExitedClosed, IndexedHeld, Served
<1>8. ASSUME NEW c \in Conn, HandleOther(c) PROVE RegistryInv'
  BY <1>8 DEF HandleOther, TypeOK, IdleFresh, HeldAuthenticated, AuthingHasSN,
              HeldIndexed, ServedHeld, ExitedClosed, IndexedHeld, Served
<1>9. ASSUME NEW c \in Conn, HeartbeatGet(c) PROVE RegistryInv'
  BY <1>9 DEF HeartbeatGet, IdleFresh, HeldAuthenticated, AuthingHasSN,
              HeldIndexed, ServedHeld, ExitedClosed, IndexedHeld, Served
<1>10. ASSUME NEW c \in Conn, NEW s \in SN, HandleAuthVerified(c, s)
       PROVE RegistryInv'
  <2>1. sn[c] = NoSN /\ c \notin sessions /\ s # NoSN
    BY <1>10, ConstAssumption DEF HandleAuthVerified, HeldAuthenticated
  <2>2. QED
    BY <1>10, <2>1 DEF HandleAuthVerified, TypeOK, IdleFresh,
                       HeldAuthenticated, AuthingHasSN, HeldIndexed,
                       ServedHeld, ExitedClosed, IndexedHeld, Served
<1>11. CASE HeartbeatTick
  BY <1>11 DEF HeartbeatTick, IdleFresh, HeldAuthenticated, AuthingHasSN,
               HeldIndexed, ServedHeld, ExitedClosed, IndexedHeld, Served
<1>12. CASE HeartbeatPing
  <2>1. CASE UNCHANGED <<closed, sessions, snToID>>
    BY <1>12, <2>1 DEF HeartbeatPing, IdleFresh, HeldAuthenticated,
                       AuthingHasSN, HeldIndexed, ServedHeld, ExitedClosed, IndexedHeld, Served
  <2>2. CASE Remove(hbGot)
    BY <1>12, <2>2, NextTypeOK, DropKeepsRegistry DEF HeartbeatPing, Remove
  <2>3. QED
    BY <1>12, <2>1, <2>2 DEF HeartbeatPing
<1>13. CASE CleanupExpired
  BY <1>13, NextTypeOK, DropKeepsRegistry DEF CleanupExpired
<1>14. CASE Stop
  BY <1>14 DEF Stop, TypeOK, IdleFresh, HeldAuthenticated, AuthingHasSN,
               HeldIndexed, ServedHeld, ExitedClosed, IndexedHeld, Served
<1>15. CASE StopJoined
  BY <1>15 DEF StopJoined, IdleFresh, HeldAuthenticated, AuthingHasSN,
               HeldIndexed, ServedHeld, ExitedClosed, IndexedHeld, Served
<1>16. CASE Tick
  BY <1>16 DEF Tick, IdleFresh, HeldAuthenticated, AuthingHasSN,
               HeldIndexed, ServedHeld, ExitedClosed, IndexedHeld, Served
<1>17. CASE Terminated \/ UNCHANGED vars
  BY <1>17 DEF Terminated, vars, IdleFresh, HeldAuthenticated, AuthingHasSN,
               HeldIndexed, ServedHeld, ExitedClosed, IndexedHeld, Served
<1>18. QED
  BY <1>1, <1>2, <1>3, <1>4, <1>5, <1>6, <1>7, <1>8, <1>9, <1>10, <1>11,
     <1>12, <1>13, <1>14, <1>15, <1>16, <1>17 DEF Next

(* When peers authenticate once per connection, the registry invariant   *)
(* holds in every reachable state of the server.                          *)
THEOREM RegistryInvariant == ~ReAuth => (Spec => []IInv)
<1> SUFFICES ASSUME ~ReAuth PROVE Spec => []IInv
  OBVIOUS
<1>1. Init => IInv
  BY IInvInit
<1>2. IInv /\ [Next]_vars => IInv'
  BY IInvNext
<1>3. QED
  BY <1>1, <1>2, PTL DEF Spec

LEMMA IInvSNUnique == IInv => SNUnique
  BY DEF IInv, HeldIndexed, SNUnique

LEMMA IInvRoutable == IInv => RoutableWhileServed
  BY DEF IInv, ServedHeld, HeldIndexed, RoutableWhileServed, GetBySN, Served

(* SN uniqueness (SessionManager.Add evicting the previous holder) holds  *)
(* in every reachable state when peers authenticate once per connection,  *)
(* whatever the interleaving of readers, heartbeat, cleanup and Stop.     *)
THEOREM SNUniqueHolds == ~ReAuth => (Spec => []SNUnique)
  BY RegistryInvariant, IInvSNUnique, PTL

(* Every served, authenticated connection is held and is what GetBySN     *)
(* returns for its SN, in every reachable state when peers authenticate   *)
(* once per connection: heartbeat Remove and cleanup never unindex a      *)
(* newer holder.                                                          *)
THEOREM RoutableHolds == ~ReAuth => (Spec => []RoutableWhileServed)
  BY RegistryInvariant, IInvRoutable, PTL

\* The SNs whose index entry GetBySN returns.
LEMMA IInvFoundServed ==
  ASSUME IInv, NEW s \in SN
  PROVE  GetBySN(s) # NoID <=> s \in ServedSNs
<1> DEFINE d == snToID[s]
<1>1. ASSUME GetBySN(s) # NoID PROVE s \in ServedSNs
  <2>1. d \in sessions /\ ~closed[d] /\ GetBySN(s) = d
    BY <1>1 DEF GetBySN
  <2>2. sn[d] = s /\ d \in Conn
    BY <2>1, ConstAssumption DEF IInv, IndexedHeld, TypeOK
  <2>3. phase[d] \notin {"idle", "authing", "exited"}
    BY <2>1, <2>2 DEF IInv, IdleFresh, HeldAuthenticated, ExitedClosed
  <2>4. Served(d) /\ sn[d] # NoSN
    BY <2>1, <2>2, <2>3, ConstAssumption DEF IInv, TypeOK, Phases, Served
  <2>5. QED
    BY <2>2, <2>4 DEF ServedSNs
<1>2. ASSUME s \in ServedSNs PROVE GetBySN(s) # NoID
  <2>1. PICK c \in Conn : Served(c) /\ sn[c] # NoSN /\ sn[c] = s
    BY <1>2 DEF ServedSNs
  <2>2. c \in sessions /\ d = c
    BY <2>1 DEF IInv, ServedHeld, HeldIndexed
  <2>3. QED
    BY <2>1, <2>2, ConstAssumption DEF GetBySN, Served
<1>3. QED
  BY <1>1, <1>2

\* GetBySN returns a session that carries the SN it was asked for.
LEMMA IInvFoundCarries ==
  ASSUME IInv, NEW s \in SN, GetBySN(s) # NoID
  PROVE  sn[GetBySN(s)] = s
  BY DEF IInv, IndexedHeld, GetBySN

LEMMA IInvOnlineView == IInv => OnlineViewExact
<1> SUFFICES ASSUME IInv PROVE OnlineViewExact
  OBVIOUS
<1>1. ServedSNs \subseteq SN
  BY DEF IInv, TypeOK, ServedSNs
<1>2. {t \in GetOnlineDevices : GetBySN(t) # NoID} = ServedSNs
  BY <1>1, IInvFoundServed, ConstAssumption DEF GetOnlineDevices, GetBySN
<1>3. ListOnline = [s \in ServedSNs |-> s]
  BY <1>1, <1>2, IInvFoundServed, IInvFoundCarries DEF ListOnline
<1>4. \A s \in SN : GetDetail(s) = IF s \in ServedSNs THEN s ELSE NoSN
  BY IInvFoundServed, IInvFoundCarries DEF GetDetail
<1>5. QED
  BY <1>3, <1>4 DEF OnlineViewExact

(* The admin API's device views (ListOnline, GetDetail) list exactly the  *)
(* served authenticated devices, each under its own SN, in every          *)
(* reachable state when peers authenticate once per connection.           *)
THEOREM OnlineViewHolds == ~ReAuth => (Spec => []OnlineViewExact)
  BY RegistryInvariant, IInvOnlineView, PTL

-----------------------------------------------------------------------------
(* Refinement of SNRegistry.  Each registry step of the readers, the     *)
(* heartbeat, the cleanup loop and Stop is a Retire of the sessions it    *)
(* closes, or, for the Add of a connection still open, a Claim of its SN; *)
(* every other step leaves GetBySN and the closed flags alone.            *)

\* The abstract variables, and what the abstract Retire(X) asks of a step.
AbsVars == <<RouteMap, Retired>>

RetireStep(X) ==
    /\ Retired' = Retired \cup X
    /\ RouteMap' = [s \in SN |-> IF RouteMap[s] \in X THEN NoID ELSE RouteMap[s]]

LEMMA RetireStepIsRetire ==
  ASSUME NEW X \in SUBSET Conn, RetireStep(X) PROVE R!RNext
  BY DEF RetireStep, R!RNext, R!Retire

\* A step that changes none of the registry's variables changes no route.
LEMMA RegistryStutter ==
  ASSUME UNCHANGED <<closed, sessions, snToID>> PROVE UNCHANGED AbsVars
  BY DEF AbsVars, RouteMap, Retired, GetBySN

\* Remove and CleanupExpired: dropping held sessions retires exactly them.
LEMMA DropRefines ==
  ASSUME IInv, NEW S \in SUBSET sessions, Drop(S)
  PROVE  RetireStep(S)
<1> USE ConstAssumption DEF IInv
<1>1. S \subseteq Conn /\ NoID \notin S
  BY DEF TypeOK
<1>2. Retired' = Retired \cup S
  BY <1>1 DEF Drop, Retired, TypeOK
<1>3. ASSUME NEW s \in SN
      PROVE  GetBySN(s)' = IF GetBySN(s) \in S THEN NoID ELSE GetBySN(s)
  <2>1. CASE \E d \in S : sn[d] = s
    <3>1. PICK d \in S : sn[d] = s
      BY <2>1
    <3>2. snToID[s] = d /\ snToID'[s] = NoID
      BY <3>1 DEF HeldIndexed, Drop
    <3>3. NoID \notin sessions'
      BY DEF Drop, TypeOK
    <3>4. QED
      BY <1>1, <3>2, <3>3 DEF GetBySN
  <2>2. CASE ~\E d \in S : sn[d] = s
    <3>1. snToID'[s] = snToID[s]
      BY <2>2 DEF Drop
    <3>2. snToID[s] # NoID => (snToID[s] \in sessions /\ snToID[s] \notin S)
      BY <2>2 DEF IndexedHeld
    <3>3. ASSUME snToID[s] \in Conn, snToID[s] \notin S
          PROVE  closed'[snToID[s]] <=> closed[snToID[s]]
      BY <3>3, Zenon DEF Drop
    <3>4. QED
      BY <1>1, <3>1, <3>2, <3>3 DEF GetBySN, Drop, TypeOK
  <2>3. QED
    BY <2>1, <2>2
<1>4. QED
  BY <1>2, <1>3 DEF RetireStep, RouteMap

\* ReaderExit and ReadFail: the reader's deferred Close retires it.
LEMMA CloseOwnRefines ==
  ASSUME TypeOK, NEW c \in Conn, closed' = CloseSessions({c}),
         UNCHANGED <<sessions, snToID>>
  PROVE  RetireStep({c})
<1>1. Retired' = Retired \cup {c}
  BY DEF Retired, TypeOK
<1>2. ASSUME NEW s \in SN
      PROVE  GetBySN(s)' = IF GetBySN(s) \in {c} THEN NoID ELSE GetBySN(s)
  BY ConstAssumption DEF GetBySN, TypeOK
<1>3. QED
  BY <1>1, <1>2 DEF RetireStep, RouteMap

\* Stop: Shutdown retires every held session.
LEMMA StopRefines ==
  ASSUME TypeOK, Stop PROVE RetireStep(sessions)
<1>1. Retired' = Retired \cup sessions
  BY DEF Stop, Retired, TypeOK
<1>2. ASSUME NEW s \in SN
      PROVE  GetBySN(s)' = IF GetBySN(s) \in sessions THEN NoID ELSE GetBySN(s)
  BY ConstAssumption DEF Stop, GetBySN, TypeOK
<1>3. QED
  BY <1>1, <1>2 DEF RetireStep, RouteMap

\* SessionManager.Add from handleAuth, as its effect on the registry: the
\* connection takes its SN over and the evicted holder is closed; if the
\* connection was closed meanwhile (by Stop, say) the step only retires
\* the evicted holder.
LEMMA AddRefines ==
  ASSUME TypeOK, IndexedHeld,
         NEW c \in Conn, NEW s0 \in SN, c \notin sessions,
         NEW ev, ev = IF snToID[s0] \in sessions THEN {snToID[s0]} ELSE {},
         closed' = [d \in Conn |-> closed[d] \/ d \in ev],
         sessions' = (sessions \ ev) \cup {c},
         snToID' = [snToID EXCEPT ![s0] = c]
  PROVE  R!RNext
<1> USE ConstAssumption
<1>1. ev \subseteq sessions /\ sessions \subseteq Conn /\ c \notin ev
  BY DEF TypeOK
<1>2. ASSUME NEW t \in SN, t # s0 PROVE GetBySN(t)' = GetBySN(t) /\ GetBySN(t) \notin ev
  <2>1. snToID'[t] = snToID[t]
    BY <1>2 DEF TypeOK
  <2>2. snToID[t] # NoID => (snToID[t] \in sessions /\ sn[snToID[t]] = t)
    BY DEF IndexedHeld
  <2>3. ev # {} => (ev = {snToID[s0]} /\ sn[snToID[s0]] = s0)
    BY DEF IndexedHeld, TypeOK
  <2>4. snToID[t] \notin ev /\ snToID[t] # c
    BY <1>1, <1>2, <2>2, <2>3 DEF TypeOK
  <2>5. QED
    BY <1>1, <2>1, <2>4 DEF GetBySN, TypeOK
<1>3. \A t \in SN : GetBySN(t) # c
  BY DEF GetBySN
<1>4. GetBySN(s0) = IF snToID[s0] \in ev /\ ~closed[snToID[s0]] THEN snToID[s0] ELSE NoID
  BY DEF GetBySN
<1>5. Retired' = Retired \cup ev
  BY <1>1 DEF Retired, TypeOK
<1>6. CASE ~closed[c]
  <2>1. GetBySN(s0)' = c
    BY <1>1, <1>6 DEF GetBySN, TypeOK
  <2>2. \A t \in SN : RouteMap'[t] = IF t = s0 THEN c ELSE RouteMap[t]
    BY <1>2, <2>1 DEF RouteMap
  <2>3. RouteMap' = [RouteMap EXCEPT ![s0] = c]
    BY <2>2, Zenon DEF RouteMap
  <2>4. Retired \cup ev = Retired \cup ({RouteMap[s0]} \ {NoID})
    BY <1>1, <1>4 DEF RouteMap, Retired
  <2>5. c \notin Retired
    BY <1>6 DEF Retired
  <2>6. R!Claim(c, s0)
    BY <1>3, <1>5, <2>3, <2>4, <2>5 DEF R!Claim, RouteMap
  <2>7. QED
    BY <2>6 DEF R!RNext
<1>7. CASE closed[c]
  <2>1. GetBySN(s0)' = NoID
    BY <1>1, <1>7 DEF GetBySN, TypeOK
  <2>2. ASSUME NEW t \in SN
        PROVE  GetBySN(t)' = IF GetBySN(t) \in ev THEN NoID ELSE GetBySN(t)
    <3>1. CASE t = s0
      BY <3>1, <2>1, <1>4
    <3>2. CASE t # s0
      BY <3>2, <1>2
    <3>3. QED
      BY <3>1, <3>2
  <2>3. RetireStep(ev)
    BY <1>5, <2>2 DEF RetireStep, RouteMap
  <2>4. QED
    BY <1>1, <2>3, RetireStepIsRetire
<1>8. QED
  BY <1>6, <1>7

\* Every step of the server's tasks is a step of SNRegistry, or leaves
\* what GetBySN answers and the closed flags alone.
LEMMA RefinementNext == ~ReAuth /\ IInv /\ [Next]_vars => [R!RNext]_AbsVars
<1> SUFFICES ASSUME IInv, [Next]_vars PROVE [R!RNext]_AbsVars
  OBVIOUS
<1> USE DEF IInv
<1>1. ASSUME NEW c \in Conn, Accept(c) \/ ReaderRead(c) \/ HandleAuthRejected(c) \/ HandlePing(c)
                             \/ HandleOther(c) \/ HeartbeatGet(c)
      PROVE  UNCHANGED AbsVars
  BY <1>1, RegistryStutter DEF Accept, ReaderRead, HandleAuthRejected, HandlePing, HandleOther,
                               HeartbeatGet
<1>2. ASSUME NEW c \in Conn, NEW s \in SN, HandleAuthVerified(c, s) PROVE UNCHANGED AbsVars
  BY <1>2, RegistryStutter DEF HandleAuthVerified
<1>3. CASE HeartbeatTick \/ StopJoined \/ Tick \/ Terminated \/ UNCHANGED vars
  BY <1>3, RegistryStutter DEF HeartbeatTick, StopJoined, Tick, Terminated, vars
<1>4. ASSUME NEW c \in Conn, ReaderExit(c) \/ ReadFail(c) PROVE R!RNext
  <2>1. closed' = CloseSessions({c}) /\ UNCHANGED <<sessions, snToID>>
    BY <1>4 DEF ReaderExit, ReadFail
  <2>2. QED
    BY <2>1, CloseOwnRefines, RetireStepIsRetire
<1>5. ASSUME NEW c \in Conn, HandleAuthAdd(c) PROVE R!RNext
  <2>1. /\ sn[c] \in SN
        /\ c \notin sessions
        /\ closed' = [d \in Conn |-> closed[d] \/ d \in
                        IF snToID[sn[c]] \in sessions THEN {snToID[sn[c]]} ELSE {}]
        /\ sessions' = (sessions \ IF snToID[sn[c]] \in sessions THEN {snToID[sn[c]]} ELSE {})
                        \cup {c}
        /\ snToID' = [snToID EXCEPT ![sn[c]] = c]
    BY <1>5 DEF HandleAuthAdd, Add, AuthingHasSN, HeldAuthenticated, TypeOK
  <2>2. QED
    BY <2>1, AddRefines
<1>6. CASE HeartbeatPing
  <2>1. CASE UNCHANGED <<closed, sessions, snToID>>
    BY <2>1, RegistryStutter
  <2>2. CASE Remove(hbGot)
    <3>1. sessions \cap {hbGot} \in SUBSET sessions /\ sessions \cap {hbGot} \in SUBSET Conn
      BY DEF TypeOK
    <3>2. QED
      BY <2>2, <3>1, DropRefines, RetireStepIsRetire DEF Remove
  <2>3. QED
    BY <1>6, <2>1, <2>2 DEF HeartbeatPing
<1>7. CASE CleanupExpired
  <2> DEFINE S == {d \in sessions : IsExpired(d)}
  <2>1. Drop(S) /\ S \in SUBSET sessions /\ S \in SUBSET Conn
    BY <1>7 DEF CleanupExpired, TypeOK
  <2>2. QED
    BY <2>1, DropRefines, RetireStepIsRetire
<1>8. CASE Stop
  <2>1. sessions \in SUBSET Conn
    BY DEF TypeOK
  <2>2. QED
    BY <1>8, <2>1, StopRefines, RetireStepIsRetire
<1>9. QED
  BY <1>1, <1>2, <1>3, <1>4, <1>5, <1>6, <1>7, <1>8 DEF Next

(* Spec 4.4 and 6 (single-owner semantics), for every set of connections *)
(* and SNs, when peers authenticate once per connection: seen through     *)
(* GetBySN, the registry only ever hands an SN to a newly authenticated,  *)
(* open connection while closing the prior owner, or closes connections   *)
(* and releases their SNs.                                                *)
THEOREM RegistryRefinement == ~ReAuth => (Spec => ImplementsSNRegistry)
<1> SUFFICES ASSUME ~ReAuth PROVE Spec => ImplementsSNRegistry
  OBVIOUS
<1>1. Init => R!RInit
  BY ConstAssumption DEF Init, R!RInit, RouteMap, Retired, GetBySN
<1>2. IInv /\ [Next]_vars => [R!RNext]_AbsVars
  BY RefinementNext
<1>3. QED
  BY <1>1, <1>2, RegistryInvariant, PTL DEF Spec, ImplementsSNRegistry, R!RSpec, AbsVars, R!rvars

(* Single owner, for the implementation: GetBySN never hands two SNs the *)
(* same connection, nor an SN a closed one.                               *)
THEOREM ImplementationSingleOwner == ~ReAuth => (Spec => []R!SingleOwner)
BY RegistryRefinement, R!SingleOwnerHolds DEF ImplementsSNRegistry

=============================================================================
