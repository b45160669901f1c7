-------------------------- MODULE AckCorrelation --------------------------
(***************************************************************************)
(* What ACK correlation promises an HTTP caller (spec 4.5 and 7), with no  *)
(* channels, locks or device: each command is issued once; a caller that  *)
(* waits holds a single-shot slot; Notify fills an empty slot, Cancel     *)
(* removes it and leaves the caller a "no value" answer; the caller       *)
(* answers with what its slot received, or times out.                     *)
(***************************************************************************)
CONSTANTS CmdID

VARIABLES
    phase,       \* the caller of each cmd_id: "idle", "sent", "waiting", "done"
    result,      \* what the caller answered
    slot,        \* cmd_ids whose slot exists
    mailbox      \* what a waiting caller will receive: "empty", "ack", "cancelled"

avars == <<phase, result, slot, mailbox>>

AInit ==
    /\ phase = [m \in CmdID |-> "idle"]
    /\ result = [m \in CmdID |-> "none"]
    /\ slot = {}
    /\ mailbox = [m \in CmdID |-> "empty"]

\* The command is routed: the device is offline, the write fails, it is
\* sent without waiting, or it is sent and the caller will wait.
Issue(m) ==
    /\ phase[m] = "idle"
    /\ \/ phase' = [phase EXCEPT ![m] = "done"]
          /\ \E r \in {"offline", "sendfail", "async"} : result' = [result EXCEPT ![m] = r]
       \/ phase' = [phase EXCEPT ![m] = "sent"] /\ UNCHANGED result
    /\ UNCHANGED <<slot, mailbox>>

\* Wait inserts the slot.
Register(m) ==
    /\ phase[m] = "sent"
    /\ phase' = [phase EXCEPT ![m] = "waiting"]
    /\ slot' = slot \cup {m}
    /\ UNCHANGED <<result, mailbox>>

\* Notify delivers into an existing, empty slot.
Notify(m) ==
    /\ m \in slot
    /\ mailbox[m] = "empty"
    /\ mailbox' = [mailbox EXCEPT ![m] = "ack"]
    /\ UNCHANGED <<phase, result, slot>>

\* Cancel removes the slot; a waiter with nothing delivered gets no value.
Cancel(m) ==
    /\ m \in slot
    /\ slot' = slot \ {m}
    /\ mailbox' = [mailbox EXCEPT ![m] = IF @ = "ack" THEN "ack" ELSE "cancelled"]
    /\ UNCHANGED <<phase, result>>

\* Wait returns what the slot received; the slot is reclaimed.
Receive(m) ==
    /\ phase[m] = "waiting"
    /\ mailbox[m] # "empty"
    /\ phase' = [phase EXCEPT ![m] = "done"]
    /\ result' = [result EXCEPT ![m] = IF mailbox[m] = "ack" THEN "ack" ELSE "nil"]
    /\ slot' = slot \ {m}
    /\ mailbox' = [mailbox EXCEPT ![m] = "empty"]

\* Wait's deadline passes; the slot is reclaimed.
Timeout(m) ==
    /\ phase[m] = "waiting"
    /\ phase' = [phase EXCEPT ![m] = "done"]
    /\ result' = [result EXCEPT ![m] = "timeout"]
    /\ slot' = slot \ {m}
    /\ mailbox' = [mailbox EXCEPT ![m] = "empty"]

ANext ==
    \E m \in CmdID :
        Issue(m) \/ Register(m) \/ Notify(m) \/ Cancel(m) \/ Receive(m) \/ Timeout(m)

ASpec == AInit /\ [][ANext]_avars

=============================================================================
