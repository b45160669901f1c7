--------------------------- MODULE ACKWaiterProofs ---------------------------
(***************************************************************************)
(* Proofs about ACKWaiter for every set of cmd_ids and every MaxAcks: the  *)
(* type invariant, and that a cmd_id has a slot exactly while its caller   *)
(* is inside Wait on an open channel.                                      *)
(***************************************************************************)
EXTENDS ACKWaiter, TLAPS

-----------------------------------------------------------------------------
(* Type correctness. *)

\* TypeOK is not inductive by itself: DeviceAck bounds acksSent, and an
\* ACK in flight was sent, so inflight is bounded through acksSent.
AckTypeInv == TypeOK /\ \A m \in CmdID : inflight[m] <= acksSent[m]

LEMMA AckInitTypeOK == Init => AckTypeInv
<1> SUFFICES ASSUME Init PROVE AckTypeInv
  OBVIOUS
<1>1. panicked \in Panics /\ muLocked \in BOOLEAN
  BY Zenon DEF Init, Panics
<1>2. /\ caller = [m \in CmdID |-> "idle"]
      /\ result = [m \in CmdID |-> "none"]
      /\ waiters = {}
      /\ chan = [m \in CmdID |-> "none"]
      /\ buf = [m \in CmdID |-> 0]
      /\ acksSent = [m \in CmdID |-> 0]
      /\ inflight = [m \in CmdID |-> 0]
      /\ notify = [m \in CmdID |-> "idle"]
  BY Zenon DEF Init
<1>3. /\ caller \in [CmdID -> CallerPhases]
      /\ result \in [CmdID -> Results]
      /\ waiters \in SUBSET CmdID
      /\ chan \in [CmdID -> {"none", "open", "closed"}]
      /\ buf \in [CmdID -> 0..1]
      /\ acksSent \in [CmdID -> 0..MaxAcks]
      /\ inflight \in [CmdID -> 0..MaxAcks]
      /\ notify \in [CmdID -> {"idle", "found"}]
      /\ \A m \in CmdID : inflight[m] <= acksSent[m]
  BY <1>2, AckConstAssumption DEF CallerPhases, Results
<1>4. QED
  BY <1>1, <1>3, Zenon DEF AckTypeInv, TypeOK

LEMMA AckNextTypeOK == AckTypeInv /\ [Next]_vars => AckTypeInv'
<1> SUFFICES ASSUME AckTypeInv, [Next]_vars PROVE AckTypeInv'
  OBVIOUS
\* Panics is left opaque: the SMT backend rejects a context holding its
\* strings, so NotifySend, which changes panicked, and WaitDefer get a
\* Zenon step.
<1> USE AckConstAssumption DEF AckTypeInv, TypeOK, CallerPhases, Results
<1>1. ASSUME NEW m \in CmdID, SendToDevice(m) PROVE AckTypeInv'
  BY <1>1 DEF SendToDevice
<1>2. ASSUME NEW m \in CmdID, SendAsync(m) PROVE AckTypeInv'
  BY <1>2 DEF SendAsync
<1>3. ASSUME NEW m \in CmdID, WaitRegister(m) PROVE AckTypeInv'
  BY <1>3 DEF WaitRegister
<1>4. ASSUME NEW m \in CmdID, WaitReceive(m) PROVE AckTypeInv'
  BY <1>4 DEF WaitReceive
<1>5. ASSUME NEW m \in CmdID, WaitTimeout(m) PROVE AckTypeInv'
  BY <1>5 DEF WaitTimeout
<1>6. ASSUME NEW m \in CmdID, WaitDefer(m) PROVE AckTypeInv'
  <2>1. /\ muLocked' \in BOOLEAN
        /\ caller' = [caller EXCEPT ![m] = "done"]
        /\ waiters' = waiters \ {m}
        /\ chan' = [chan EXCEPT ![m] = "closed"]
        /\ UNCHANGED <<result, buf, acksSent, inflight, notify, panicked>>
    BY <1>6, Zenon DEF WaitDefer
  <2>2. QED
    BY <2>1
<1>7. ASSUME NEW m \in CmdID, Cancel(m) PROVE AckTypeInv'
  BY <1>7 DEF Cancel
<1>8. ASSUME NEW m \in CmdID, DeviceAck(m) PROVE AckTypeInv'
  BY <1>8 DEF DeviceAck
<1>9. ASSUME NEW m \in CmdID, NotifyLookup(m) PROVE AckTypeInv'
  BY <1>9 DEF NotifyLookup
<1>10. ASSUME NEW m \in CmdID, NotifySend(m) PROVE AckTypeInv'
  <2>1. /\ panicked' \in Panics
        /\ buf' = buf \/ buf' = [buf EXCEPT ![m] = 1]
        /\ notify' = [notify EXCEPT ![m] = "idle"]
        /\ UNCHANGED <<caller, result, waiters, chan, acksSent, inflight, muLocked>>
    BY <1>10, Zenon DEF NotifySend, Panics
  <2>2. QED
    BY <2>1
<1>11. CASE UNCHANGED vars
  BY <1>11 DEF vars
<1>12. QED
  BY <1>1, <1>2, <1>3, <1>4, <1>5, <1>6, <1>7, <1>8, <1>9, <1>10, <1>11 DEF Next

(* The ACKWaiter's variables keep their types in every reachable state:  *)
(* in particular the channel buffer never exceeds its capacity of one.    *)
THEOREM AckTypeCorrect == Spec => []TypeOK
<1>1. AckTypeInv => TypeOK
  BY DEF AckTypeInv
<1>2. QED
  BY <1>1, AckInitTypeOK, AckNextTypeOK, PTL DEF Spec

-----------------------------------------------------------------------------
(* Slot discipline.  SlotHeldWhileWaiting is inductive together with      *)
(* the type invariant: no further strengthening is needed.               *)

AckInv == AckTypeInv /\ SlotHeldWhileWaiting

LEMMA AckInvInit == Init => AckInv
  BY AckInitTypeOK DEF Init, AckInv, SlotHeldWhileWaiting

LEMMA AckInvNext == AckInv /\ [Next]_vars => AckInv'
<1> SUFFICES ASSUME AckTypeInv, SlotHeldWhileWaiting, [Next]_vars
             PROVE  SlotHeldWhileWaiting'
  BY AckNextTypeOK DEF AckInv
<1> USE DEF AckTypeInv, TypeOK, SlotHeldWhileWaiting
<1>1. ASSUME NEW m \in CmdID, SendToDevice(m) PROVE SlotHeldWhileWaiting'
  BY <1>1 DEF SendToDevice
<1>2. ASSUME NEW m \in CmdID, SendAsync(m) PROVE SlotHeldWhileWaiting'
  BY <1>2 DEF SendAsync
<1>3. ASSUME NEW m \in CmdID, WaitRegister(m) PROVE SlotHeldWhileWaiting'
  BY <1>3 DEF WaitRegister
<1>4. ASSUME NEW m \in CmdID, WaitReceive(m) PROVE SlotHeldWhileWaiting'
  BY <1>4 DEF WaitReceive
<1>5. ASSUME NEW m \in CmdID, WaitTimeout(m) PROVE SlotHeldWhileWaiting'
  BY <1>5 DEF WaitTimeout
<1>6. ASSUME NEW m \in CmdID, WaitDefer(m) PROVE SlotHeldWhileWaiting'
  BY <1>6 DEF WaitDefer
<1>7. ASSUME NEW m \in CmdID, Cancel(m) PROVE SlotHeldWhileWaiting'
  BY <1>7 DEF Cancel
<1>8. ASSUME NEW m \in CmdID, DeviceAck(m) PROVE SlotHeldWhileWaiting'
  BY <1>8 DEF DeviceAck
<1>9. ASSUME NEW m \in CmdID, NotifyLookup(m) PROVE SlotHeldWhileWaiting'
  BY <1>9 DEF NotifyLookup
<1>10. ASSUME NEW m \in CmdID, NotifySend(m) PROVE SlotHeldWhileWaiting'
  BY <1>10 DEF NotifySend
<1>11. CASE UNCHANGED vars
  BY <1>11 DEF vars
<1>12. QED
  BY <1>1, <1>2, <1>3, <1>4, <1>5, <1>6, <1>7, <1>8, <1>9, <1>10, <1>11 DEF Next

(* Wait inserts its slot before the select and removes it, with Cancel,  *)
(* on every return path: in every reachable state a slot exists only     *)
(* while its caller is inside Wait, and every caller waiting on an open  *)
(* channel has one.                                                        *)
THEOREM SlotHeldHolds == Spec => []SlotHeldWhileWaiting
<1>1. Init => AckInv
  BY AckInvInit
<1>2. AckInv /\ [Next]_vars => AckInv'
  BY AckInvNext
<1>3. AckInv => SlotHeldWhileWaiting
  BY DEF AckInv
<1>4. QED
  BY <1>1, <1>2, <1>3, PTL DEF Spec

-----------------------------------------------------------------------------
(* Refinement of AckCorrelation.  The mapping needs two more facts about  *)
(* the channels: a command not yet waited on has no channel and nothing   *)
(* buffered (uuid.New makes every cmd_id fresh), and a registered slot's  *)
(* channel is open, since both Cancel and the deferred cleanup delete the *)
(* slot when they close its channel.                                      *)

ChannelDiscipline ==
    \A m \in CmdID :
        /\ caller[m] \in {"idle", "sent"} => (chan[m] = "none" /\ buf[m] = 0)
        /\ m \in waiters => chan[m] = "open"
        /\ notify[m] = "found" => caller[m] \notin {"idle", "sent"}
        /\ caller[m] \in {"waiting", "returning"} => chan[m] # "none"

AckRefInv == AckInv /\ ChannelDiscipline

LEMMA AckRefInvInit == Init => AckRefInv
  BY AckInvInit DEF Init, AckRefInv, ChannelDiscipline

LEMMA AckRefInvNext == AckRefInv /\ [Next]_vars => AckRefInv'
<1> SUFFICES ASSUME AckInv, ChannelDiscipline, [Next]_vars
             PROVE  ChannelDiscipline'
  BY AckInvNext DEF AckRefInv
<1> USE DEF AckInv, AckTypeInv, TypeOK, SlotHeldWhileWaiting, ChannelDiscipline
<1>1. ASSUME NEW m \in CmdID, SendToDevice(m) PROVE ChannelDiscipline'
  BY <1>1 DEF SendToDevice
<1>2. ASSUME NEW m \in CmdID, SendAsync(m) PROVE ChannelDiscipline'
  BY <1>2 DEF SendAsync
<1>3. ASSUME NEW m \in CmdID, WaitRegister(m) PROVE ChannelDiscipline'
  BY <1>3 DEF WaitRegister
<1>4. ASSUME NEW m \in CmdID, WaitReceive(m) PROVE ChannelDiscipline'
  BY <1>4 DEF WaitReceive
<1>5. ASSUME NEW m \in CmdID, WaitTimeout(m) PROVE ChannelDiscipline'
  BY <1>5 DEF WaitTimeout
<1>6. ASSUME NEW m \in CmdID, WaitDefer(m) PROVE ChannelDiscipline'
  <2>1. /\ caller' = [caller EXCEPT ![m] = "done"]
        /\ waiters' = waiters \ {m}
        /\ chan' = [chan EXCEPT ![m] = "closed"]
        /\ UNCHANGED <<buf, notify>>
    BY <1>6, Zenon DEF WaitDefer
  <2>2. QED
    BY <2>1
<1>7. ASSUME NEW m \in CmdID, Cancel(m) PROVE ChannelDiscipline'
  BY <1>7 DEF Cancel
<1>8. ASSUME NEW m \in CmdID, DeviceAck(m) PROVE ChannelDiscipline'
  BY <1>8 DEF DeviceAck
<1>9. ASSUME NEW m \in CmdID, NotifyLookup(m) PROVE ChannelDiscipline'
  BY <1>9 DEF NotifyLookup
<1>10. ASSUME NEW m \in CmdID, NotifySend(m) PROVE ChannelDiscipline'
  <2>1. /\ chan[m] # "closed" => buf' = [buf EXCEPT ![m] = 1]
        /\ chan[m] = "closed" => buf' = buf
        /\ notify[m] = "found" /\ notify' = [notify EXCEPT ![m] = "idle"]
        /\ UNCHANGED <<caller, waiters, chan>>
    BY <1>10, Zenon DEF NotifySend
  <2>2. caller[m] \notin {"idle", "sent"}
    BY <2>1
  <2>3. QED
    BY <2>1, <2>2
<1>11. CASE UNCHANGED vars
  BY <1>11 DEF vars
<1>12. QED
  BY <1>1, <1>2, <1>3, <1>4, <1>5, <1>6, <1>7, <1>8, <1>9, <1>10, <1>11 DEF Next

LEMMA AckRefInvariant == Spec => []AckRefInv
  BY AckRefInvInit, AckRefInvNext, PTL DEF Spec

\* The mapped variables of the abstraction.
AbsVars == <<AbsPhase, result, AbsSlot, AbsMailbox>>

LEMMA AbsInit == Init => AC!AInit
  BY DEF Init, AC!AInit, AbsPhase, AbsSlot, AbsMailbox

LEMMA AbsNext == AckRefInv /\ [Next]_vars => [AC!ANext]_AbsVars
<1> SUFFICES ASSUME AckRefInv, [Next]_vars PROVE [AC!ANext]_AbsVars
  OBVIOUS
<1> USE DEF AckRefInv, AckInv, AckTypeInv, TypeOK, SlotHeldWhileWaiting,
            ChannelDiscipline
<1> DEFINE Stutter == UNCHANGED AbsVars
<1>1. ASSUME NEW m \in CmdID, SendToDevice(m) PROVE AC!Issue(m)
  <2>0. /\ caller[m] = "idle"
        /\ caller' = [caller EXCEPT ![m] = IF caller'[m] = "sent" THEN "sent" ELSE "done"]
        /\ UNCHANGED <<waiters, chan, buf>>
    BY <1>1 DEF SendToDevice
  <2>5. AbsPhase[m] = "idle"
    BY <2>0 DEF AbsPhase
  <2>6. AbsPhase' = [AbsPhase EXCEPT ![m] = IF caller'[m] = "sent" THEN "sent" ELSE "done"]
    BY <2>0 DEF AbsPhase
  <2>7. UNCHANGED AbsSlot
    BY <2>0 DEF AbsSlot
  <2>8. UNCHANGED AbsMailbox
    BY <2>0 DEF AbsMailbox
  <2>1. /\ AbsPhase[m] = "idle"
        /\ AbsPhase' = [AbsPhase EXCEPT ![m] = IF caller'[m] = "sent" THEN "sent" ELSE "done"]
        /\ UNCHANGED <<AbsSlot, AbsMailbox>>
    BY <2>5, <2>6, <2>7, <2>8
  <2>2. \/ caller'[m] = "sent" /\ UNCHANGED result
        \/ caller'[m] = "done" /\ \E r \in {"offline", "sendfail", "async"} : result' = [result EXCEPT ![m] = r]
    BY <1>1 DEF SendToDevice
  <2>3. QED
    BY <2>1, <2>2 DEF AC!Issue
<1>2. ASSUME NEW m \in CmdID, SendAsync(m) PROVE AC!Issue(m)
  <2>1. /\ AbsPhase[m] = "idle"
        /\ AbsPhase' = [AbsPhase EXCEPT ![m] = IF caller'[m] = "sent" THEN "sent" ELSE "done"]
        /\ UNCHANGED <<AbsSlot, AbsMailbox>>
    BY <1>2 DEF SendAsync, AbsPhase, AbsSlot, AbsMailbox
  <2>2. \/ caller'[m] = "sent" /\ UNCHANGED result
        \/ caller'[m] = "done" /\ \E r \in {"offline", "sendfail", "async"} : result' = [result EXCEPT ![m] = r]
    BY <1>2 DEF SendAsync
  <2>3. QED
    BY <2>1, <2>2 DEF AC!Issue
<1>3. ASSUME NEW m \in CmdID, WaitRegister(m) PROVE AC!Register(m)
  <2>1. /\ caller[m] = "sent"
        /\ caller' = [caller EXCEPT ![m] = "waiting"]
        /\ waiters' = waiters \cup {m}
        /\ chan' = [chan EXCEPT ![m] = "open"]
        /\ UNCHANGED <<result, buf>>
    BY <1>3 DEF WaitRegister
  <2>2. AbsPhase[m] = "sent" /\ AbsPhase' = [AbsPhase EXCEPT ![m] = "waiting"]
    BY <2>1 DEF AbsPhase
  <2>3. AbsSlot' = AbsSlot \cup {m}
    BY <2>1 DEF AbsSlot
  <2>4. UNCHANGED AbsMailbox
    BY <2>1 DEF AbsMailbox
  <2>5. QED
    BY <2>1, <2>2, <2>3, <2>4 DEF AC!Register
<1>4. ASSUME NEW m \in CmdID, WaitReceive(m) PROVE AC!Receive(m)
  <2>1. /\ caller[m] = "waiting"
        /\ buf[m] > 0 \/ chan[m] = "closed"
        /\ caller' = [caller EXCEPT ![m] = "returning"]
        /\ result' = [result EXCEPT ![m] = IF buf[m] > 0 THEN "ack" ELSE "nil"]
        /\ buf' = [buf EXCEPT ![m] = IF buf[m] > 0 THEN buf[m] - 1 ELSE 0]
        /\ UNCHANGED <<waiters, chan>>
    BY <1>4 DEF WaitReceive
  <2>2. AbsMailbox[m] = IF buf[m] > 0 THEN "ack" ELSE "cancelled"
    BY <2>1 DEF AbsMailbox
  <2>3. AbsMailbox' = [AbsMailbox EXCEPT ![m] = "empty"]
    BY <2>1 DEF AbsMailbox
  <2>4. AbsSlot' = AbsSlot \ {m} /\ AbsPhase' = [AbsPhase EXCEPT ![m] = "done"]
    BY <2>1 DEF AbsSlot, AbsPhase
  <2>5. QED
    BY <2>1, <2>2, <2>3, <2>4 DEF AC!Receive, AbsPhase
<1>5. ASSUME NEW m \in CmdID, WaitTimeout(m) PROVE AC!Timeout(m)
  BY <1>5 DEF WaitTimeout, AC!Timeout, AbsPhase, AbsSlot, AbsMailbox
<1>6. ASSUME NEW m \in CmdID, WaitDefer(m) PROVE Stutter
  <2>1. /\ caller[m] = "returning"
        /\ caller' = [caller EXCEPT ![m] = "done"]
        /\ waiters' = waiters \ {m}
        /\ chan' = [chan EXCEPT ![m] = "closed"]
        /\ UNCHANGED <<result, buf>>
    BY <1>6, Zenon DEF WaitDefer
  <2>2. QED
    BY <2>1 DEF AbsVars, AbsPhase, AbsSlot, AbsMailbox
<1>7. ASSUME NEW m \in CmdID, Cancel(m) PROVE [AC!ANext]_AbsVars
  <2>1. CASE caller[m] = "waiting"
    <3>1. AC!Cancel(m)
      BY <1>7, <2>1 DEF Cancel, AC!Cancel, AbsPhase, AbsSlot, AbsMailbox
    <3>2. QED
      BY <3>1 DEF AC!ANext
  <2>2. CASE caller[m] # "waiting"
    BY <1>7, <2>2 DEF Cancel, AbsVars, AbsPhase, AbsSlot, AbsMailbox
  <2>3. QED
    BY <2>1, <2>2
<1>8. ASSUME NEW m \in CmdID, DeviceAck(m) PROVE Stutter
  BY <1>8 DEF DeviceAck, AbsVars, AbsPhase, AbsSlot, AbsMailbox
<1>9. ASSUME NEW m \in CmdID, NotifyLookup(m) PROVE Stutter
  BY <1>9 DEF NotifyLookup, AbsVars, AbsPhase, AbsSlot, AbsMailbox
<1>10. ASSUME NEW m \in CmdID, NotifySend(m) PROVE [AC!ANext]_AbsVars
  <2>1. /\ chan[m] # "closed" => buf' = [buf EXCEPT ![m] = 1]
        /\ chan[m] = "closed" => buf' = buf
        /\ UNCHANGED <<caller, result, waiters, chan>>
    BY <1>10, Zenon DEF NotifySend
  <2>2. CASE chan[m] # "closed" /\ caller[m] = "waiting" /\ buf[m] = 0
    <3>1. chan[m] = "open" /\ m \in waiters
      BY <2>2
    <3>6. buf' = [buf EXCEPT ![m] = 1] /\ UNCHANGED <<caller, chan>>
      BY <2>1, <2>2
    <3>7. AbsMailbox[m] = "empty"
      BY <2>2, <3>1 DEF AbsMailbox
    <3>8. AbsMailbox' = [AbsMailbox EXCEPT ![m] = "ack"]
      <4>1. \A k \in CmdID : AbsMailbox'[k] = IF k = m THEN "ack" ELSE AbsMailbox[k]
        BY <2>2, <3>6 DEF AbsMailbox
      <4>2. AbsMailbox' \in [CmdID -> {"empty", "ack", "cancelled"}]
            /\ AbsMailbox \in [CmdID -> {"empty", "ack", "cancelled"}]
        BY DEF AbsMailbox
      <4>3. QED
        BY <4>1, <4>2, Zenon
    <3>2. AbsMailbox' = [AbsMailbox EXCEPT ![m] = "ack"] /\ AbsMailbox[m] = "empty"
      BY <3>7, <3>8
    <3>3. m \in AbsSlot /\ UNCHANGED <<AbsPhase, AbsSlot>>
      BY <2>1, <2>2, <3>1 DEF AbsPhase, AbsSlot
    <3>4. AC!Notify(m)
      BY <2>1, <3>2, <3>3 DEF AC!Notify
    <3>5. QED
      BY <3>4 DEF AC!ANext
  <2>3. CASE ~(chan[m] # "closed" /\ caller[m] = "waiting" /\ buf[m] = 0)
    BY <2>1, <2>3 DEF AbsVars, AbsPhase, AbsSlot, AbsMailbox
  <2>4. QED
    BY <2>2, <2>3
<1>11. CASE UNCHANGED vars
  BY <1>11 DEF vars, AbsVars, AbsPhase, AbsSlot, AbsMailbox
<1>12. QED
  BY <1>1, <1>2, <1>3, <1>4, <1>5, <1>6, <1>7, <1>8, <1>9, <1>10, <1>11
  DEF Next, AC!ANext

(* Spec 4.5 and 7 (ACK correlation) for every set of cmd_ids: every       *)
(* behaviour of the channel-based ACKWaiter, with its handlers, the       *)
(* device and handleACK, is a behaviour of the single-shot slot that      *)
(* AckCorrelation describes.                                              *)
THEOREM AckRefinement == Spec => ImplementsAckCorrelation
<1>1. QED
  BY AckRefInvariant, AbsInit, AbsNext, PTL
     DEF Spec, ImplementsAckCorrelation, AC!ASpec, AbsVars, AC!avars

=============================================================================
