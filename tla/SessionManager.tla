--------------------------- MODULE SessionManager ---------------------------
(***************************************************************************)
(* The gateway's session registry (internal/tcpserver/session.go) together *)
(* with the server tasks that change it (internal/tcpserver/server.go):    *)
(* the accept loop, one reader per connection with its Auth, Ping/Pong and *)
(* other-frame handlers, the heartbeat loop, the cleanup loop and Stop.    *)
(*                                                                         *)
(* A Session is identified by its id (a model value of Conn).  The        *)
(* manager's map id -> *Session is the set `sessions` of ids it holds; the *)
(* Session fields SN, LastPing and the close channel are functions of the  *)
(* id.  The Authenticator is abstracted to "verification succeeds for SN   *)
(* s" or "fails": it is modelled in its own module.                        *)
(***************************************************************************)
EXTENDS Naturals, FiniteSets

CONSTANTS
    Conn,        \* ids of the sessions of the connections the listener may accept
    SN,          \* serial numbers devices may authenticate as
    NoSN,        \* Session.SN before authentication (the empty string)
    NoID,        \* "no entry" in snToID, and "nothing" for the heartbeat
    Timeout,     \* Server.sessionTimeout, in ticks of the model clock
    MaxTime,     \* bound on the model clock
    ReAuth       \* whether a peer may send Auth on an authenticated connection

ASSUME ConstAssumption ==
    /\ NoSN \notin SN
    /\ NoID \notin Conn
    /\ Timeout \in Nat
    /\ MaxTime \in Nat
    /\ ReAuth \in BOOLEAN

VARIABLES
    now,         \* the clock read by time.Now()
    phase,       \* where each connection's reader (handleConnection) is
    sn,          \* Session.SN
    closed,      \* Session.closeCh is closed (and Conn closed)
    lastPing,    \* Session.LastPing
    sessions,    \* SessionManager.sessions: the ids it holds
    snToID,      \* SessionManager.snToID, NoID where the key is absent
    hbPending,   \* heartbeatLoop: ids of this tick's GetSessionInfo snapshot not yet visited
    hbGot,       \* heartbeatLoop: the session Get returned, about to be pinged
    server       \* "running", "stopping" (inside Stop), "stopped" (Stop returned)

vars == <<now, phase, sn, closed, lastPing, sessions, snToID, hbPending, hbGot, server>>

(* Reader phases: "idle" not yet accepted; "top" at the loop-top select;  *)
(* "reading" blocked in ReadMessage; "authing" between handleAuth setting *)
(* session.SN and calling SessionManager.Add; "exited" returned.          *)
Phases == {"idle", "top", "reading", "authing", "exited"}

TypeOK ==
    /\ now \in 0..MaxTime
    /\ phase \in [Conn -> Phases]
    /\ sn \in [Conn -> SN \cup {NoSN}]
    /\ closed \in [Conn -> BOOLEAN]
    /\ lastPing \in [Conn -> 0..MaxTime]
    /\ sessions \in SUBSET Conn
    /\ snToID \in [SN -> Conn \cup {NoID}]
    /\ hbPending \in SUBSET Conn
    /\ hbGot \in Conn \cup {NoID}
    /\ server \in {"running", "stopping", "stopped"}

-----------------------------------------------------------------------------
(* Session and SessionManager operations, as next-state relations on the *)
(* registry variables closed, sessions and snToID.                        *)

\* Session.IsExpired: time.Since(LastPing) > timeout.
IsExpired(c) == now - lastPing[c] > Timeout

\* Session.UpdatePing: LastPing = time.Now().
UpdatePing(c) == lastPing' = [lastPing EXCEPT ![c] = now]

\* Session.IsClosed: closeCh is closed.
IsClosed(c) == closed[c]

\* The closed flags after Session.Close on every session of S: closeOnce
\* makes a second Close a no-op.
CloseSessions(S) == [d \in Conn |-> closed[d] \/ d \in S]

\* Session.SendMessage under writeMu: ErrSessionClosed once closed, else
\* WriteMessage, which may also fail.  A write can succeed only while open.
SendMessageOK(c) == ~IsClosed(c)

\* Mutant of Drop: the sessions are deleted but Session.Close is not called.
DropKeepsOpen(S) ==
    /\ closed' = closed
    /\ sessions' = sessions \ S
    /\ snToID' = [s \in SN |-> IF \E d \in S : sn[d] = s THEN NoID ELSE snToID[s]]

\* Close, delete from sessions and delete snToID[session.SN] for every
\* session of S: the body shared by Remove and CleanupExpired.  The index
\* entry is deleted whoever it points to.
Drop(S) ==
    /\ closed' = CloseSessions(S)
    /\ sessions' = sessions \ S
    /\ snToID' = [s \in SN |-> IF \E d \in S : sn[d] = s THEN NoID ELSE snToID[s]]

\* Mutant of Add: index and insert without evicting the previous holder.
AddKeepsOld(c) ==
    /\ closed' = closed
    /\ sessions' = sessions \cup {c}
    /\ snToID' = IF sn[c] # NoSN THEN [snToID EXCEPT ![sn[c]] = c] ELSE snToID

\* SessionManager.Add: close and delete the session snToID[SN] names (if the
\* manager still holds it), index the SN to the new session, insert it.
Add(c) ==
    LET evicted == IF sn[c] # NoSN /\ snToID[sn[c]] \in sessions
                   THEN {snToID[sn[c]]} ELSE {}
    IN  /\ closed' = CloseSessions(evicted)
        /\ sessions' = (sessions \ evicted) \cup {c}
        /\ snToID' = IF sn[c] # NoSN THEN [snToID EXCEPT ![sn[c]] = c] ELSE snToID

\* Mutant of Remove: the `exists` check dropped.
RemoveUnchecked(c) == Drop({c})

\* SessionManager.Remove: a no-op unless the manager holds the session.
Remove(c) == Drop(sessions \cap {c})

\* Mutant of GetBySN: the closed filter dropped, as in SessionManager.Get.
GetBySNUnfiltered(s) ==
    IF snToID[s] \in sessions THEN snToID[s] ELSE NoID

\* SessionManager.GetBySN: the indexed session, unless it is closed.
GetBySN(s) ==
    IF snToID[s] \in sessions /\ ~IsClosed(snToID[s]) THEN snToID[s] ELSE NoID

\* SessionManager.GetOnlineDevices: every key of snToID.
GetOnlineDevices == {s \in SN : snToID[s] # NoID}

\* SessionManager.GetSessionInfo: a snapshot of the held sessions, by id.
GetSessionInfo == sessions

-----------------------------------------------------------------------------
(* Server tasks. *)

\* acceptLoop: Accept a connection and start its reader (NewSession).
Accept(c) ==
    /\ server = "running"
    /\ phase[c] = "idle"
    /\ phase' = [phase EXCEPT ![c] = "top"]
    /\ lastPing' = [lastPing EXCEPT ![c] = now]
    /\ UNCHANGED <<now, sn, closed, sessions, snToID, hbPending, hbGot, server>>

\* handleConnection, loop top: return (deferred Close) on shutdown or close.
ReaderExit(c) ==
    /\ phase[c] = "top"
    /\ server # "running" \/ closed[c]
    /\ phase' = [phase EXCEPT ![c] = "exited"]
    /\ closed' = CloseSessions({c})
    /\ UNCHANGED <<now, sn, lastPing, sessions, snToID, hbPending, hbGot, server>>

\* handleConnection, loop top: neither signal; block in ReadMessage.
ReaderRead(c) ==
    /\ phase[c] = "top"
    /\ server = "running"
    /\ ~closed[c]
    /\ phase' = [phase EXCEPT ![c] = "reading"]
    /\ UNCHANGED <<now, sn, closed, lastPing, sessions, snToID, hbPending, hbGot, server>>

\* ReadMessage fails (EOF, read deadline, framing error, closed conn): the
\* reader returns and its deferred session.Close() runs.  It does not remove
\* the session from the manager.
ReadFail(c) ==
    /\ phase[c] = "reading"
    /\ phase' = [phase EXCEPT ![c] = "exited"]
    /\ closed' = CloseSessions({c})
    /\ UNCHANGED <<now, sn, lastPing, sessions, snToID, hbPending, hbGot, server>>

\* An Auth frame whose VerifySignature succeeds for SN s: handleAuth sets
\* session.SN (and AppID, Meta) outside any lock.
HandleAuthVerified(c, s) ==
    /\ phase[c] = "reading"
    /\ ~closed[c]
    /\ ReAuth \/ sn[c] = NoSN
    /\ phase' = [phase EXCEPT ![c] = "authing"]
    /\ sn' = [sn EXCEPT ![c] = s]
    /\ UNCHANGED <<now, closed, lastPing, sessions, snToID, hbPending, hbGot, server>>

\* handleAuth continues: SessionManager.Add, then the AuthOK reply.
HandleAuthAdd(c) ==
    /\ phase[c] = "authing"
    /\ Add(c)
    /\ phase' = [phase EXCEPT ![c] = "top"]
    /\ UNCHANGED <<now, sn, lastPing, hbPending, hbGot, server>>

\* An Auth frame that VerifySignature rejects: AuthOK{false} and an Err
\* reply; handleConnection logs the error and keeps reading.
HandleAuthRejected(c) ==
    /\ phase[c] = "reading"
    /\ ~closed[c]
    /\ ReAuth \/ sn[c] = NoSN
    /\ phase' = [phase EXCEPT ![c] = "top"]
    /\ UNCHANGED <<now, sn, closed, lastPing, sessions, snToID, hbPending, hbGot, server>>

\* Mutant of HandlePing: UpdatePing stores the read deadline (now plus the
\* session timeout) instead of the time of the ping.
HandlePingDeadline(c) ==
    /\ phase[c] = "reading"
    /\ ~closed[c]
    /\ phase' = [phase EXCEPT ![c] = "top"]
    /\ lastPing' = [lastPing EXCEPT ![c] = now + Timeout]
    /\ UNCHANGED <<now, sn, closed, sessions, snToID, hbPending, hbGot, server>>

\* A Ping or Pong frame: UpdatePing (and for Ping a Pong reply, whose write
\* error is only reported back as an Err frame).
HandlePing(c) ==
    /\ phase[c] = "reading"
    /\ ~closed[c]
    /\ phase' = [phase EXCEPT ![c] = "top"]
    /\ UpdatePing(c)
    /\ UNCHANGED <<now, sn, closed, sessions, snToID, hbPending, hbGot, server>>

\* Any other frame (ACK, Report, unknown type): no registry change.
HandleOther(c) ==
    /\ phase[c] = "reading"
    /\ ~closed[c]
    /\ phase' = [phase EXCEPT ![c] = "top"]
    /\ UNCHANGED <<now, sn, closed, lastPing, sessions, snToID, hbPending, hbGot, server>>

\* heartbeatLoop tick: snapshot the ids with GetSessionInfo.
HeartbeatTick ==
    /\ server = "running"
    /\ hbPending = {}
    /\ hbGot = NoID
    /\ hbPending' = GetSessionInfo
    /\ UNCHANGED <<now, phase, sn, closed, lastPing, sessions, snToID, hbGot, server>>

\* heartbeatLoop: next snapshot id; Get it and keep it if it has an SN.
HeartbeatGet(c) ==
    /\ hbGot = NoID
    /\ c \in hbPending
    /\ hbPending' = hbPending \ {c}
    /\ hbGot' = IF c \in sessions /\ sn[c] # NoSN THEN c ELSE NoID
    /\ UNCHANGED <<now, phase, sn, closed, lastPing, sessions, snToID, server>>

\* heartbeatLoop: SendPing on the session Get returned.  It fails with
\* ErrSessionClosed if the session is closed by now, and may fail on a broken
\* connection; on failure the loop calls Remove(session.ID).
HeartbeatPing ==
    /\ hbGot # NoID
    /\ hbGot' = NoID
    /\ \/ /\ SendMessageOK(hbGot)
          /\ UNCHANGED <<closed, sessions, snToID>>
       \/ Remove(hbGot)
    /\ UNCHANGED <<now, phase, sn, lastPing, hbPending, server>>

\* cleanupLoop tick: SessionManager.CleanupExpired(sessionTimeout).
CleanupExpired ==
    /\ server = "running"
    /\ Drop({d \in sessions : IsExpired(d)})
    /\ UNCHANGED <<now, phase, sn, lastPing, hbPending, hbGot, server>>

\* Server.Stop up to wg.Wait: cancel, close(shutdown), close the listener,
\* SessionManager.Shutdown (close every held session, clear both maps).
Stop ==
    /\ server = "running"
    /\ server' = "stopping"
    /\ closed' = CloseSessions(sessions)
    /\ sessions' = {}
    /\ snToID' = [s \in SN |-> NoID]
    /\ UNCHANGED <<now, phase, sn, lastPing, hbPending, hbGot>>

\* Server.Stop returns once wg.Wait sees the three loops return; the
\* heartbeat loop returns only after finishing its current tick.
StopJoined ==
    /\ server = "stopping"
    /\ hbPending = {}
    /\ hbGot = NoID
    /\ server' = "stopped"
    /\ UNCHANGED <<now, phase, sn, closed, lastPing, sessions, snToID, hbPending, hbGot>>

\* The clock advances.
Tick ==
    /\ now < MaxTime
    /\ now' = now + 1
    /\ UNCHANGED <<phase, sn, closed, lastPing, sessions, snToID, hbPending, hbGot, server>>

\* The process has stopped and every reader has returned.
Terminated ==
    /\ server = "stopped"
    /\ \A c \in Conn : phase[c] \in {"idle", "exited"}
    /\ UNCHANGED vars

Init ==
    /\ now = 0
    /\ phase = [c \in Conn |-> "idle"]
    /\ sn = [c \in Conn |-> NoSN]
    /\ closed = [c \in Conn |-> FALSE]
    /\ lastPing = [c \in Conn |-> 0]
    /\ sessions = {}
    /\ snToID = [s \in SN |-> NoID]
    /\ hbPending = {}
    /\ hbGot = NoID
    /\ server = "running"

Next ==
    \/ \E c \in Conn :
          \/ Accept(c) \/ ReaderExit(c) \/ ReaderRead(c) \/ ReadFail(c)
          \/ HandleAuthAdd(c) \/ HandleAuthRejected(c)
          \/ HandlePing(c) \/ HandleOther(c) \/ HeartbeatGet(c)
          \/ \E s \in SN : HandleAuthVerified(c, s)
    \/ HeartbeatTick \/ HeartbeatPing \/ CleanupExpired
    \/ Stop \/ StopJoined \/ Tick \/ Terminated

Spec == Init /\ [][Next]_vars

-----------------------------------------------------------------------------
(* The admin API's read-only device views (internal/api/device_controller). *)

\* DeviceController.GetDetail: the DeviceInfo of GetBySN(sn) (here its SN),
\* or 404 (here NoSN).
GetDetail(s) == IF GetBySN(s) = NoID THEN NoSN ELSE sn[GetBySN(s)]

\* DeviceController.ListOnline: for each SN of GetOnlineDevices that
\* GetBySN still finds, a DeviceInfo carrying session.SN; here the entry's
\* key mapped to the SN it reports.
ListOnline == [s \in {t \in GetOnlineDevices : GetBySN(t) # NoID} |-> sn[GetBySN(s)]]

-----------------------------------------------------------------------------
(* Properties. *)

\* A serving reader: accepted, not returned, session not closed.
Served(c) == phase[c] \in {"top", "reading"} /\ ~closed[c]

(* SN uniqueness (spec 3, 4.4): among the sessions the manager holds, no  *)
(* two open ones carry the same SN.  Add must evict the previous holder   *)
(* even when eviction, heartbeat removal and cleanup interleave.          *)
SNUnique ==
    \A c, d \in sessions :
        (c # d /\ ~closed[c] /\ ~closed[d] /\ sn[c] # NoSN) => sn[c] # sn[d]

(* Routability: a connection that has authenticated and is still being   *)
(* served is held by the manager and is what GetBySN returns for its SN,  *)
(* so an operator's command reaches it.  Breaks if a Remove or cleanup    *)
(* acting on a stale view deletes the index entry of a newer holder.      *)
RoutableWhileServed ==
    \A c \in Conn :
        (Served(c) /\ sn[c] # NoSN) => (c \in sessions /\ GetBySN(sn[c]) = c)

\* The SNs of the connections an operator can reach: served, authenticated.
ServedSNs == {sn[c] : c \in {d \in Conn : Served(d) /\ sn[d] # NoSN}}

(* Spec 5 (device views): GET /api/devices/online lists every device that *)
(* is connected and authenticated, once, under its own SN, and nothing    *)
(* else; GET /api/devices/:sn answers for exactly those SNs, with the     *)
(* device that carries it.  Eviction, read failure, heartbeat removal and  *)
(* cleanup must leave the two views agreeing with the connections.        *)
OnlineViewExact ==
    /\ ListOnline = [s \in ServedSNs |-> s]
    /\ \A s \in SN : GetDetail(s) = IF s \in ServedSNs THEN s ELSE NoSN

(* Index soundness: GetBySN(s) returns a session whose SN is s, so a     *)
(* command for device s is written to device s's connection.              *)
IndexSound ==
    \A s \in SN : GetBySN(s) # NoID => sn[GetBySN(s)] = s

(* Spec 4.6: on a read error the reader closes the connection and the     *)
(* Session is removed from the manager.                                    *)
ExitedRemoved ==
    \A c \in Conn : phase[c] = "exited" => c \notin sessions

(* Spec 4.6 (Shutdown): Stop closes every session, which unblocks the    *)
(* readers, before it returns: once it has returned no reader is blocked  *)
(* in ReadMessage on a connection that is still open.                     *)
StopUnblocksReaders ==
    server = "stopped" => \A c \in Conn : phase[c] = "reading" => closed[c]

-----------------------------------------------------------------------------
(* Refinement of the single-owner registry (SNRegistry): what an operator *)
(* sees is GetBySN for every SN, and which connections are closed.        *)

RouteMap == [s \in SN |-> GetBySN(s)]
Retired == {c \in Conn : closed[c]}

R == INSTANCE SNRegistry WITH route <- RouteMap, retired <- Retired

(* Spec 4.4 and 6 (single-owner semantics): every step of the readers,   *)
(* the heartbeat, the cleanup loop and Stop is, as seen through GetBySN,  *)
(* either an authenticated connection taking its SN over while the prior *)
(* owner is closed, or connections being closed and their SNs released;  *)
(* no index change leaves a connection unroutable but open, or routes to *)
(* a closed one.                                                          *)
ImplementsSNRegistry == R!RSpec

-----------------------------------------------------------------------------
(* The inductive strengthening of SNUnique and RoutableWhileServed when  *)
(* no peer re-authenticates (the shipped client authenticates once per    *)
(* connection), named by conjunct for the proofs.                          *)

\* A connection not yet accepted has no SN, is open and is not held.
IdleFresh ==
    \A c \in Conn : phase[c] = "idle" => (sn[c] = NoSN /\ ~closed[c] /\ c \notin sessions)

\* Only authenticated sessions are held, and none of them is mid-Auth.
HeldAuthenticated ==
    \A c \in sessions : sn[c] # NoSN /\ phase[c] # "authing"

\* A reader between the two halves of handleAuth has set its SN.
AuthingHasSN ==
    \A c \in Conn : phase[c] = "authing" => sn[c] # NoSN

\* Every held session, open or closed, is the index entry of its SN.
HeldIndexed ==
    \A c \in sessions : snToID[sn[c]] = c

\* Every index entry names a held session that carries its SN.
IndexedHeld ==
    \A s \in SN : snToID[s] # NoID => (snToID[s] \in sessions /\ sn[snToID[s]] = s)

\* A reader that has returned has closed its session (deferred Close).
ExitedClosed ==
    \A c \in Conn : phase[c] = "exited" => closed[c]

\* An authenticated reader that is still serving is held.
ServedHeld ==
    \A c \in Conn : (Served(c) /\ sn[c] # NoSN) => c \in sessions

IInv == TypeOK /\ IdleFresh /\ HeldAuthenticated /\ AuthingHasSN /\ HeldIndexed /\ ServedHeld
        /\ ExitedClosed /\ IndexedHeld

=============================================================================
