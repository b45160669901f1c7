----------------------------- MODULE ACKWaiter -----------------------------
(***************************************************************************)
(* ACK correlation: the ACKWaiter (internal/tcpserver/ack_waiter.go), the  *)
(* admin API handlers that use it (MessageController.SendToDevice and      *)
(* SendAsync), the device answering a CMD with ACK frames, and the         *)
(* server's handleACK calling Notify from the connection's reader.         *)
(*                                                                         *)
(* Every command has a fresh cmd_id (uuid.New), so one HTTP request, one   *)
(* Wait call and one channel per element of CmdID.  A send on a closed    *)
(* channel panics in the connection's reader, which has no recover: the   *)
(* process dies, so every step requires that none happened.  A close of   *)
(* a closed channel panics in Wait's deferred cleanup, inside the HTTP    *)
(* handler, where gin.Recovery recovers it; the Unlock after the close is *)
(* not deferred, so aw.mu stays locked and every later Lock and RLock     *)
(* blocks.                                                                 *)
(***************************************************************************)
EXTENDS Naturals

CONSTANTS
    CmdID,       \* cmd_ids of the commands operators send
    MaxAcks,     \* ACK frames a device sends for one command
    UseCancel    \* whether some caller calls ACKWaiter.Cancel

ASSUME AckConstAssumption ==
    /\ MaxAcks \in Nat \ {0}
    /\ UseCancel \in BOOLEAN

VARIABLES
    caller,      \* where each HTTP handler is
    result,      \* what it answers
    waiters,     \* ACKWaiter.waiters: the cmd_ids that have a slot
    chan,        \* state of the cmd_id's channel: "none", "open", "closed"
    buf,         \* ACKs buffered in the channel (capacity 1)
    acksSent,    \* ACK frames the device has written for the cmd_id
    inflight,    \* ACK frames written and not yet read by the server
    notify,      \* the reader inside Notify: "idle", or "found" after the lookup
    panicked,    \* "none", or the runtime panic that ended the process
    muLocked     \* aw.mu left locked by a recovered panic in Wait's cleanup

vars == <<caller, result, waiters, chan, buf, acksSent, inflight, notify, panicked, muLocked>>

(* Handler phases: "idle" before the request; "sent" after SendCommand   *)
(* wrote the CMD and before Wait inserted its slot; "waiting" blocked in  *)
(* Wait's select; "returning" in Wait's deferred cleanup; "done".         *)
CallerPhases == {"idle", "sent", "waiting", "returning", "done"}
Results == {"none", "offline", "sendfail", "async", "ack", "nil", "timeout"}
Panics == {"none", "send on closed channel"}

TypeOK ==
    /\ caller \in [CmdID -> CallerPhases]
    /\ result \in [CmdID -> Results]
    /\ waiters \in SUBSET CmdID
    /\ chan \in [CmdID -> {"none", "open", "closed"}]
    /\ buf \in [CmdID -> 0..1]
    /\ acksSent \in [CmdID -> 0..MaxAcks]
    /\ inflight \in [CmdID -> 0..MaxAcks]
    /\ notify \in [CmdID -> {"idle", "found"}]
    /\ panicked \in Panics
    /\ muLocked \in BOOLEAN

Alive == panicked = "none"

\* aw.mu can be taken: a goroutine that calls Lock or RLock proceeds.
MuFree == ~muLocked

\* The CMD of m has been written to the device.
CmdWritten(m) ==
    \/ caller[m] \in {"sent", "waiting", "returning"}
    \/ result[m] \in {"async", "ack", "nil", "timeout"}

-----------------------------------------------------------------------------
(* MessageController.SendToDevice up to SendCommand: GetBySN fails (404), *)
(* SendCommand fails (500), or the CMD is written.                        *)
SendToDevice(m) ==
    /\ Alive
    /\ caller[m] = "idle"
    /\ \/ caller' = [caller EXCEPT ![m] = "done"] /\ result' = [result EXCEPT ![m] = "offline"]
       \/ caller' = [caller EXCEPT ![m] = "done"] /\ result' = [result EXCEPT ![m] = "sendfail"]
       \/ caller' = [caller EXCEPT ![m] = "sent"] /\ UNCHANGED result
    /\ UNCHANGED <<waiters, chan, buf, acksSent, inflight, notify, panicked, muLocked>>

\* MessageController.SendAsync: write the CMD and answer with the cmd_id.
SendAsync(m) ==
    /\ Alive
    /\ caller[m] = "idle"
    /\ caller' = [caller EXCEPT ![m] = "done"]
    /\ result' = [result EXCEPT ![m] = "async"]
    /\ UNCHANGED <<waiters, chan, buf, acksSent, inflight, notify, panicked, muLocked>>

\* ACKWaiter.Wait: make the channel and insert it under the lock.
WaitRegister(m) ==
    /\ Alive
    /\ MuFree
    /\ caller[m] = "sent"
    /\ caller' = [caller EXCEPT ![m] = "waiting"]
    /\ waiters' = waiters \cup {m}
    /\ chan' = [chan EXCEPT ![m] = "open"]
    /\ UNCHANGED <<result, buf, acksSent, inflight, notify, panicked, muLocked>>

\* Wait's select takes the channel case: a buffered ACK, or the zero value
\* nil from a closed and drained channel (returned with a nil error).
WaitReceive(m) ==
    /\ Alive
    /\ caller[m] = "waiting"
    /\ buf[m] > 0 \/ chan[m] = "closed"
    /\ caller' = [caller EXCEPT ![m] = "returning"]
    /\ result' = [result EXCEPT ![m] = IF buf[m] > 0 THEN "ack" ELSE "nil"]
    /\ buf' = [buf EXCEPT ![m] = IF buf[m] > 0 THEN buf[m] - 1 ELSE 0]
    /\ UNCHANGED <<waiters, chan, acksSent, inflight, notify, panicked, muLocked>>

\* Wait's select takes ctx.Done(): the deadline may pass at any point while
\* blocked, and Go picks either case when both are ready.
WaitTimeout(m) ==
    /\ Alive
    /\ caller[m] = "waiting"
    /\ caller' = [caller EXCEPT ![m] = "returning"]
    /\ result' = [result EXCEPT ![m] = "timeout"]
    /\ UNCHANGED <<waiters, chan, buf, acksSent, inflight, notify, panicked, muLocked>>

\* Mutant of WaitDefer: the deferred cleanup closes but forgets the delete.
WaitDeferKeepsSlot(m) ==
    /\ Alive
    /\ MuFree
    /\ caller[m] = "returning"
    /\ caller' = [caller EXCEPT ![m] = "done"]
    /\ chan' = [chan EXCEPT ![m] = "closed"]
    /\ muLocked' = (chan[m] = "closed")
    /\ UNCHANGED <<waiters, result, buf, acksSent, inflight, notify, panicked>>

\* Wait's deferred cleanup: Lock, delete(waiters, cmdID), close(ch),
\* Unlock.  Closing a closed channel panics after the delete; gin.Recovery
\* ends the request and the Unlock never runs.
WaitDefer(m) ==
    /\ Alive
    /\ MuFree
    /\ caller[m] = "returning"
    /\ caller' = [caller EXCEPT ![m] = "done"]
    /\ waiters' = waiters \ {m}
    /\ chan' = [chan EXCEPT ![m] = "closed"]
    /\ muLocked' = (chan[m] = "closed")
    /\ UNCHANGED <<result, buf, acksSent, inflight, notify, panicked>>

\* Mutant of Cancel: the slot is deleted but its channel is left open.
CancelKeepsOpen(m) ==
    /\ Alive
    /\ MuFree
    /\ UseCancel
    /\ m \in waiters
    /\ waiters' = waiters \ {m}
    /\ UNCHANGED <<caller, result, chan, buf, acksSent, inflight, notify, panicked, muLocked>>

\* ACKWaiter.Cancel: under the lock, close the slot's channel and delete it.
Cancel(m) ==
    /\ Alive
    /\ MuFree
    /\ UseCancel
    /\ m \in waiters
    /\ chan' = [chan EXCEPT ![m] = "closed"]
    /\ waiters' = waiters \ {m}
    /\ UNCHANGED <<caller, result, buf, acksSent, inflight, notify, panicked, muLocked>>

\* The device's command handler (Controller.handleCommand) answers a CMD
\* with SendACK on every branch, its recover included.  MaxAcks above one
\* lets a device answer the same cmd_id again (spec 4.5's second Notify).
DeviceAck(m) ==
    /\ Alive
    /\ CmdWritten(m)
    /\ acksSent[m] < MaxAcks
    /\ acksSent' = [acksSent EXCEPT ![m] = @ + 1]
    /\ inflight' = [inflight EXCEPT ![m] = @ + 1]
    /\ UNCHANGED <<caller, result, waiters, chan, buf, notify, panicked, muLocked>>

\* handleACK reads an ACK frame and Notify looks the slot up under RLock;
\* an unknown cmd_id is dropped.
NotifyLookup(m) ==
    /\ Alive
    /\ MuFree
    /\ inflight[m] > 0
    /\ notify[m] = "idle"
    /\ inflight' = [inflight EXCEPT ![m] = @ - 1]
    /\ notify' = [notify EXCEPT ![m] = IF m \in waiters THEN "found" ELSE "idle"]
    /\ UNCHANGED <<caller, result, waiters, chan, buf, acksSent, panicked, muLocked>>

\* Mutant of NotifySend: the send ignores the channel's capacity of 1.
NotifySendUnbounded(m) ==
    /\ Alive
    /\ notify[m] = "found"
    /\ notify' = [notify EXCEPT ![m] = "idle"]
    /\ IF chan[m] = "closed"
       THEN panicked' = "send on closed channel" /\ UNCHANGED buf
       ELSE buf' = [buf EXCEPT ![m] = @ + 1] /\ UNCHANGED panicked
    /\ UNCHANGED <<caller, result, waiters, chan, acksSent, inflight, muLocked>>

\* Notify, after RUnlock: the non-blocking send on the channel it looked up.
\* A full buffer drops the ACK; a closed channel panics.
NotifySend(m) ==
    /\ Alive
    /\ notify[m] = "found"
    /\ notify' = [notify EXCEPT ![m] = "idle"]
    /\ IF chan[m] = "closed"
       THEN panicked' = "send on closed channel" /\ UNCHANGED buf
       ELSE buf' = [buf EXCEPT ![m] = 1] /\ UNCHANGED panicked
    /\ UNCHANGED <<caller, result, waiters, chan, acksSent, inflight, muLocked>>

Init ==
    /\ caller = [m \in CmdID |-> "idle"]
    /\ result = [m \in CmdID |-> "none"]
    /\ waiters = {}
    /\ chan = [m \in CmdID |-> "none"]
    /\ buf = [m \in CmdID |-> 0]
    /\ acksSent = [m \in CmdID |-> 0]
    /\ inflight = [m \in CmdID |-> 0]
    /\ notify = [m \in CmdID |-> "idle"]
    /\ panicked = "none"
    /\ muLocked = FALSE

Next ==
    \/ \E m \in CmdID :
          \/ SendToDevice(m) \/ SendAsync(m) \/ WaitRegister(m)
          \/ WaitReceive(m) \/ WaitTimeout(m) \/ WaitDefer(m) \/ Cancel(m)
          \/ DeviceAck(m) \/ NotifyLookup(m) \/ NotifySend(m)

\* The deadline of context.WithTimeout fires and the runtime runs the
\* blocked goroutine: a waiting handler keeps being able to return.
Fairness ==
    \A m \in CmdID : WF_vars(WaitTimeout(m)) /\ WF_vars(WaitDefer(m))

Spec == Init /\ [][Next]_vars /\ Fairness

-----------------------------------------------------------------------------
(* Properties. *)

(* Spec 3: a cmd_id has a slot only while its caller is inside Wait, and  *)
(* keeps it as long as the caller waits on an open channel: inserted      *)
(* before the select, removed by Cancel or on every return path, so no    *)
(* ACK is ever routed to the slot of a caller that has gone.              *)
SlotHeldWhileWaiting ==
    \A m \in CmdID :
        /\ m \in waiters => caller[m] \in {"waiting", "returning"}
        /\ (caller[m] \in {"waiting", "returning"} /\ chan[m] = "open") => m \in waiters

(* Spec 5 (cancellation and timeouts): Wait is bounded by the caller's    *)
(* timeout, so every handler blocked in Wait gets out of it, its deferred *)
(* cleanup included, unless the process has died.                         *)
WaitReturns ==
    \A m \in CmdID : caller[m] = "waiting" ~> (caller[m] = "done" \/ ~Alive)

(* Spec 9: Notify never closes, which is meant to keep Notify and a       *)
(* timing-out Wait from panicking; Notify must never send on a channel    *)
(* Wait's cleanup has closed.                                             *)
NoSendOnClosed == panicked # "send on closed channel"

(* Spec 8 (ACK correlation, scenario 1): an ACK the device sends for a    *)
(* command whose handler is about to wait for it is delivered, not        *)
(* dropped as "unknown cmd_id".                                           *)
AckNotDroppedWhileAwaited ==
    [][\A m \in CmdID :
         (inflight'[m] < inflight[m] /\ notify'[m] = "idle") => caller[m] # "sent"]_vars

-----------------------------------------------------------------------------
(* Refinement of AckCorrelation.  A caller past Wait's select has         *)
(* answered; the slot of the abstraction is a registered cmd_id whose     *)
(* caller still waits on an open channel; what that caller will receive   *)
(* is a buffered ACK first, else the zero value of a closed channel.      *)
(* Lookups, ACKs in flight, the deferred cleanup and panics are stutters. *)

AbsPhase == [m \in CmdID |-> IF caller[m] \in {"returning", "done"} THEN "done" ELSE caller[m]]

AbsSlot == {m \in waiters : caller[m] = "waiting" /\ chan[m] = "open"}

AbsMailbox ==
    [m \in CmdID |-> IF caller[m] # "waiting" THEN "empty"
                     ELSE IF buf[m] > 0 THEN "ack"
                     ELSE IF chan[m] = "closed" THEN "cancelled"
                     ELSE "empty"]

AC == INSTANCE AckCorrelation WITH phase <- AbsPhase, slot <- AbsSlot, mailbox <- AbsMailbox

(* Spec 4.5 and 7 (ACK correlation): the waiter implements the single-    *)
(* shot slot, so Wait answers "ack" only with an ACK that Notify put in   *)
(* the slot of a waiting caller, "nil" only after Cancel, and a Notify    *)
(* without a waiting slot or on a full one changes nothing a caller sees. *)
ImplementsAckCorrelation == AC!ASpec

=============================================================================
