# Formal models of device-agent

TLA+ models of the gateway core of `device-agent`, with TLC runs and TLAPS proofs. The gateway holds a long-lived TCP connection per device. It authenticates each device and tracks it by serial number (SN). Operators send commands to a device over HTTP and wait for the device's ACK.

## The system

| Part | Source | State | Operations |
|---|---|---|---|
| Session / SessionManager | `src/internal/tcpserver/session.go` | `sessions` (id → session), `snToID` (SN → id), per session `SN`, `LastPing`, `closeCh` | `Add`, `Remove`, `Get`, `GetBySN`, `CleanupExpired`, `Shutdown`, `Close`, `UpdatePing`, `IsExpired`, `SendMessage`, `GetOnlineDevices`, `GetSessionInfo` |
| Server tasks | `src/internal/tcpserver/server.go` (lines 1-308) | `shutdown` channel, `wg`, one reader goroutine per connection | `acceptLoop`, `handleConnection`, `handleAuth`/`handlePing`/`handlePong`/`handleACK`, `heartbeatLoop`, `cleanupLoop`, `Stop` |
| ACKWaiter | `src/internal/tcpserver/ack_waiter.go` | `waiters` (cmd_id → chan, capacity 1) | `Wait`, `Notify`, `Cancel` |
| Admin message API | `src/Dockerfile` lines 233-403 (the `api` package) | none of its own | `SendToDevice` (SendCommand, then Wait), `SendAsync` |
| Admin device API | `src/device_controller.go` | none of its own | `ListOnline`, `GetDetail` |
| Authenticator, MemoryNonceStore | `src/Dockerfile` lines 116-231 | nonce map (no lock) | `VerifySignature`: appid, then the timestamp window, then the nonce is stored, then HMAC |
| Frame codec | `src/unnamed/part_000` | none | `ReadMessage`, `WriteMessage`, `NewMessage` |
| Device client | `src/unnamed/part_001`, `src/unnamed/part_003` | connection, backoff | `reconnectLoop`, `authenticate`, read loop with ping ticker, `SendACK` |
| Device controller, websvc, app, frontend | `server.go` lines 308-662, `src/app.go`, `src/main.go`, `src/frontend` | local HTTP server | the device side and the process wiring |

**How the parts interact.**
- Each accepted connection gets a reader goroutine.
- The reader's Auth handler calls `VerifySignature` and then `SessionManager.Add`. Add evicts the previous holder of the SN.
- The heartbeat loop pings every session in a snapshot and calls `Remove` on failure.
- The cleanup loop drops sessions whose `LastPing` is too old.
- An HTTP handler looks up the SN's session with `GetBySN`, writes the CMD, and then blocks in `ACKWaiter.Wait`.
- The device's command handler answers with an ACK. The ACK arrives on the device's reader, and `handleACK` calls `Notify`.
- The device API builds its views from `GetOnlineDevices`, `GetBySN` and `GetSessionInfo`.
- Several actors run concurrently on this shared state: the readers, the heartbeat, the cleanup, the HTTP handlers and `Stop`.

## Modules

### `SessionManager.tla`

This module models the registry and every server task that changes it.

**Variables.**
- `sessions` is the set of ids the manager holds.
- `snToID` is a function SN → id, with `NoID` for an absent key.
- `sn`, `closed` and `lastPing` are the per-session fields.
- `phase` is where each reader is.
- `hbPending` and `hbGot` are the heartbeat's snapshot and the session it just got.
- `server` is `running`, `stopping` or `stopped`.
- `now` is the model clock.

**Operators.** `Add`, `Remove`, `Drop` (the body of CleanupExpired) and `GetBySN` follow the Go functions line by line.

**Actions.** Each action is one atomic section of a goroutine.
- `handleAuth` is split at the `Add` call. `HandleAuthVerified` sets `session.SN` without a lock, and `HandleAuthAdd` runs Add.
- The heartbeat is split into three actions:
  - `HeartbeatTick` takes the snapshot;
  - `HeartbeatGet` runs Get;
  - `HeartbeatPing` runs SendPing and then Remove.
- A `ReadMessage` that fails is `ReadFail`. A frame that parses is one of: an Auth that succeeds for some SN, an Auth that fails, a Ping, a Pong, or another frame.
- Stop is split in two. `Stop` covers cancel, close(shutdown) and `Shutdown`. `StopJoined` is `wg.Wait` returning after the three loops.

**Device views.** `GetDetail(s)` and `ListOnline` are the admin device API (`device_controller.go`) written over the registry's state:
- `GetOnlineDevices` lists the SNs of open sessions;
- `GetBySN` looks each one up again;
- the reply carries `session.SN`.

Each view is a state function, evaluated in one state. The handlers take and release the manager's lock between the calls. Reading the views atomically is one of the schedules the code allows, and it is the one a client sees when nothing interleaves.

**Constant `ReAuth`.** It says whether a peer may send Auth again on an authenticated connection. The shipped client never does.

### `ACKWaiter.tla`

This module models ACK correlation. There is one command per model value of `CmdID`, since cmd_ids are fresh uuids.

- **Caller.** The handler moves through `SendToDevice` or `SendAsync`, then `WaitRegister`, then `WaitReceive` or `WaitTimeout`, then `WaitDefer`.
- **Device.** `DeviceAck` is the device's command handler, `Controller.handleCommand`. It answers a CMD with `SendACK` on every branch, its `recover` included. `MaxAcks` above one lets it answer the same cmd_id again.
- **Reader.** The reader handles each ACK with `NotifyLookup`, which runs under RLock, and then `NotifySend`, which runs after RUnlock.
- **Cancel.** `Cancel` can interleave with all of the above. No code under `src/` calls `ACKWaiter.Cancel` today. The constant `UseCancel` models a caller that would.
- **Send on a closed channel.** This panic happens in `NotifySend`, on the connection's reader goroutine. That goroutine has no `recover`, so the process dies. It is the value of `panicked`, and every action requires `Alive`.
- **Close of a closed channel.** This panic happens in Wait's deferred cleanup, inside the HTTP handler.
  - `gin.Recovery()` (`device_controller.go:113`) recovers it, and the request ends with a 500.
  - The `delete` has already run, but the `Unlock` at `ack_waiter.go:32` is not deferred and never runs.
  - The model sets `muLocked`. Every action that takes `aw.mu` requires `MuFree`: `WaitRegister`, `WaitDefer` and `Cancel` (Lock), and `NotifyLookup` (RLock).

### `AckCorrelation.tla`

This is the abstract specification of what ACK correlation promises a caller, written from spec sections 4.5 and 7. Each command is issued once (`Issue`). A caller that waits holds a single-shot slot (`Register`). The remaining actions are:
- `Notify` fills an empty slot.
- `Cancel` removes the slot and leaves the caller a "no value" answer.
- The caller answers with what its slot received (`Receive`), or times out (`Timeout`).

It has no channels, locks or device.

`ACKWaiter.tla` maps itself onto it with `AC == INSTANCE AckCorrelation WITH ...`:
- `AbsPhase` merges `returning` into `done`.
- `AbsSlot` is the set of waiters whose caller waits on an open channel.
- `AbsMailbox` is `ack` when the buffer holds a value, `cancelled` when the channel was closed under a waiting caller, and `empty` otherwise.

Under this mapping the following steps are stutters:
- the lookup half of Notify;
- an ACK in flight;
- Wait's deferred cleanup, including the one that panics and leaves `aw.mu` locked.

No step happens after a fatal panic.

### `SNRegistry.tla`

This is the abstract specification of the session registry's promise, written from spec sections 2, 4.4 and 6: single-owner semantics. It has two variables:
- `route` maps each SN to the connection a command for it goes to, or `NoID`.
- `retired` is the set of closed connections.

It has two actions:
- `Claim(c, s)`: an open connection that routes for no SN takes `s` over, and the connection that held `s` is closed.
- `Retire(X)`: the connections of `X` are closed, and every SN one of them held stops routing.

`SessionManager.tla` maps itself onto it with `R == INSTANCE SNRegistry WITH route <- RouteMap, retired <- Retired`:
- `RouteMap` is `GetBySN` for every SN.
- `Retired` is the set of closed sessions.

The property `ImplementsSNRegistry` is `R!RSpec`. Under this mapping:
- `HandleAuthAdd` is a `Claim`, or a `Retire` of the evicted holder when the connection was closed in the meantime.
- `ReaderExit`, `ReadFail`, the heartbeat's `Remove`, `CleanupExpired` and `Stop` are `Retire` steps.
- Every other step leaves both abstract variables unchanged.

### `Authenticator.tla`

This module models `Authenticator.VerifySignature` and `MemoryNonceStore` (`src/Dockerfile` 116-231). Each element of `Attempt` is one Auth frame a reader verifies. The three steps that touch shared state are actions:
- **`Receive`.** It checks the appid's key and then the timestamp window. Either failure returns.
- **`HasNonce`.** It reads the map.
- **`AddNonce`.** It stores `now + 2 * Window`, and then the HMAC comparison gives the verdict, abstracted to the request's `signOK`. The map has no lock. When another verification is between its HasNonce and its AddNonce, the write may instead end the process with Go's fatal "concurrent map writes" or "concurrent map read and map write".

**Timestamps.**
- Timestamps are int64 values, modelled as `Width`-bit two's complement.
- `Wrap` is Go's signed wraparound.
- `Abs64` is the code's `abs`, whose negation wraps.
- `OutOfWindow(ts)` is `abs(now - ts) > timeWindowSec`, exactly as written.

**Eviction.** `MemoryNonceStore.Cleanup` is called by no code, so no action evicts a nonce.

### Proof modules and MC modules

- **`SessionManagerProofs.tla`**, **`ACKWaiterProofs.tla`** and **`AuthenticatorProofs.tla`** hold the TLAPS proofs. `SNRegistry.tla` holds the proof of its own invariant.
- **`MC_SessionManager.tla`, `MC_ACKWaiter.tla` and `MC_Authenticator.tla`** give the model values, stamps and symmetry sets for TLC.

### Abstractions

- **Authentication.** In `SessionManager` the Authenticator is abstracted to an outcome: the signature is valid for some SN, or it is rejected. `Authenticator.tla` models it in detail on its own.
- **Frames and time.** Frames are abstracted to their kind. Time is an integer clock, and expiry compares `now - lastPing` with `Timeout`.
- **Data race on session fields.** `session.SN` and `LastPing` are written by the reader with no lock, which is a data race. The model treats each write as atomic, one of the outcomes the race can produce.
- **Admin API.** In `ACKWaiter`, `GetBySN` is a nondeterministic "offline" outcome. The 400 replies (bad sn, bad body, bad payload) return before anything is sent, exactly as the offline outcome does.
- **Width.** The Authenticator is checked with `Width = 4`, so the int64 range becomes -8..7. The wraparound that matters has the same shape at every width: for `ts = now - 2^(Width-1)`, `now - ts` wraps to the least value, and `abs` of that stays negative.
- **Clock origin.** The clock starts at any reading in `0..MaxTime`, because `time.Now().Unix()` is never the origin of the int64 range. At `now > 0`, the least int64 timestamp itself is rejected. The timestamp that passes is `now - 2^(Width-1)`.

## Runs

| Run | cfg | Expect | What it shows |
|---|---|---|---|
| registry | `SessionManager.cfg` | pass | `TypeOK`, `SNUnique`, `RoutableWhileServed`, `OnlineViewExact` and the refinement `ImplementsSNRegistry` hold under every interleaving of 3 connections over 2 SNs, with heartbeat, cleanup and Stop (about 119k states) |
| registry_reauth | `SessionManager_reauth.cfg` | violation of `IndexSound` | after re-authenticating with another SN, the old SN still routes to the connection |
| registry_readfail | `SessionManager_readfail.cfg` | violation of `ExitedRemoved` | a reader that failed leaves its session in the manager |
| registry_stop | `SessionManager_stop.cfg` | violation of `StopUnblocksReaders` | Stop returns while an unauthenticated reader is still blocked |
| ack | `ACKWaiter.cfg` | pass | `TypeOK`, `SlotHeldWhileWaiting` and `ImplementsAckCorrelation` (the refinement). The run includes Cancel, two ACKs per command, and the recovered double-close that leaves `aw.mu` locked (about 21k states) |
| ack_notify_race | `ACKWaiter_notify_race.cfg` | violation of `NoSendOnClosed` | Notify sends on a channel closed by a timed-out Wait, and the process panics |
| ack_cancel | `ACKWaiter_cancel.cfg` | violation of the liveness `WaitReturns` | Cancel makes Wait's deferred close panic. gin recovers it with `aw.mu` still locked, and another handler whose deadline has passed never gets through its cleanup |
| ack_lost | `ACKWaiter_lost.cfg` | violation of `AckNotDroppedWhileAwaited` | an ACK read before Wait registers is dropped |
| auth | `Authenticator.cfg` | pass | `TypeOK`; `NonceBurnOrder` (a nonce is stored exactly when a verification reached the signature check with it); `ReplayRejectedOnceAccepted` (about 69k states) |
| auth_replay | `Authenticator_replay.cfg` | violation of `NoReplay` | two concurrent Auths with one nonce both pass HasNonce before either stores it, and both are accepted |
| auth_fatal | `Authenticator_fatal.cfg` | violation of `NoFatalMapRace` | two concurrent Auths touch the unlocked nonce map, and the runtime aborts the gateway |
| auth_window | `Authenticator_window.cfg` | violation of `ClockWindow` | at `now = 2`, the ts `now - 2^(Width-1) = -6` makes `now - ts` wrap to the least int64, `abs` stays negative, and the stale frame passes the window |

### Bounds

**Registry.**
- Three connections over two SNs are enough for an evicted holder, a new holder and a bystander.
- They are also enough for two connections of one SN alongside a connection of the other SN.
- `Timeout = 1` and `MaxTime = 2` let a session be fresh, then expired, then refreshed by a ping.
- Symmetry over connections and SNs is sound because the properties treat them uniformly.

**ACK.**
- Two commands and `MaxAcks = 2` allow a duplicate ACK against the full buffer, and a late ACK after the timeout.
- The ACK runs use no symmetry, because `ack_cancel` checks liveness and the state space is small.

**Authenticator.**
- There are three attempts and two nonces, so two attempts can share a nonce while a third uses the other.
- There are two appids, only one of which has a key.
- The window is 1, and the clock starts anywhere in 0..2 and runs up to 2.
- There are three stamps:
  - 0, in the window at clock readings 0 and 1;
  - 2, in the window at readings 1 and 2;
  - `MaxTime - 2^(Width-1) = -6`, which is rejected at readings 0 and 1, and whose distance wraps at reading 2.
- Symmetry over attempts and over nonces is sound. Appids are not symmetric, because one has a key.

### Deadlock checking

The ACKWaiter and Authenticator runs set `CHECK_DEADLOCK FALSE`. Their sets of requests and Auth frames are finite, and once every one has been answered the model rightly stops. The registry runs check deadlock. Their final state is `Terminated`: Stop has returned and every reader has exited.

### Fairness

`WaitReturns` is checked in `ack_cancel` under weak fairness of `WaitTimeout` and `WaitDefer`:
- `context.WithTimeout` makes `ctx.Done()` ready once the deadline passes, so a blocked `Wait` stays able to return.
- The Go scheduler runs a runnable goroutine eventually, so the deferred cleanup runs whenever `aw.mu` can be taken.

Under this fairness, the only way a handler can stay in Wait is for `aw.mu` to be locked for good. That is what the violation shows. Without Cancel, the property follows from the fairness alone, so no passing run checks it.

Nothing else is assumed fair. The refinement `ImplementsAckCorrelation` is a safety property, because `ASpec` has no fairness.

### Mutants

Each property of a passing run has a mutant. Each mutant changes one mapped definition the way a plausible bug would, and TLC finds the property violated:
- `HandlePingDeadline` makes UpdatePing store the read deadline instead of the ping time, which breaks TypeOK.
- `AddKeepsOld` drops Add's eviction, which breaks SNUnique.
- `RemoveUnchecked` drops Remove's `exists` check, which breaks RoutableWhileServed.
- `GetBySNUnfiltered` forgets GetBySN's closed check, which breaks OnlineViewExact.
- `DropKeepsOpen` makes Remove and CleanupExpired delete a session without calling `Session.Close`. This breaks `ImplementsSNRegistry`: an SN stops routing while its connection stays open.
- `NotifySendUnbounded` ignores the channel capacity, which breaks TypeOK.
- `WaitDeferKeepsSlot` forgets the `delete`, which breaks SlotHeldWhileWaiting.
- `CancelKeepsOpen` deletes the waiter but does not close its channel, which breaks the refinement: the caller is never told.
- `AddNonceTTLNanos` drops `* time.Second` from the TTL, which breaks TypeOK.
- `AddNonceAfterSignature` stores the nonce only for a valid signature, which breaks NonceBurnOrder.
- `HasNonceStub` never consults the store, which breaks ReplayRejectedOnceAccepted.

### Findings

The violation runs record disagreements between the code and the spec or its comments (see `findings` in `PROJECT.json`):
- **Re-authentication.** It misroutes commands.
- **Failed reads.** A failed read leaves a held session.
- **Stop.** It can return while a reader is still blocked.
- **Notify.** It can send on a closed channel.
- **Cancel.** Cancel followed by Wait's deferred close double-closes the channel. gin recovers the panic, but `aw.mu` stays locked, so every later Wait and Notify hangs. No code calls Cancel today, so the bug is latent.
- **Early ACKs.** An ACK that arrives before Wait registers is lost.
- **Authenticator.**
  - It accepts a replayed nonce when the two Auths overlap.
  - It can crash the process on its unlocked map.
  - It lets the timestamp `now - 2^63` through the window.

## What is proved

All proofs are checked by `tlapm` with no omitted step.

### `SessionManagerProofs.tla`

The results hold for all sets `Conn` and `SN` and every `Timeout` and `MaxTime`. They assume only `ConstAssumption`: `NoSN ∉ SN`, `NoID ∉ Conn`, and the numbers are naturals.

- **`TypeCorrect`**: `Spec => []TypeOK`.
- **`RegistryInvariant`**: `~ReAuth => (Spec => []IInv)`.
- **`SNUniqueHolds`**, **`RoutableHolds`** and **`OnlineViewHolds`**: `SNUnique`, `RoutableWhileServed` and `OnlineViewExact` hold in every reachable state when `~ReAuth`.
- **`RegistryRefinement`**: `~ReAuth => (Spec => ImplementsSNRegistry)`.
- **`ImplementationSingleOwner`**: `~ReAuth => (Spec => []R!SingleOwner)`. This is `SingleOwnerHolds` of `SNRegistry.tla` carried over through the refinement.

`SNUnique` is not inductive by itself, so the proof uses `IInv`. `IInv` adds these facts to `TypeOK`:
- `IdleFresh`: a connection not yet accepted has no SN, is open and is not held.
- `HeldAuthenticated`: every held session has an SN and is not between the two halves of handleAuth.
- `AuthingHasSN`: a reader between the two halves of handleAuth has set its SN.
- `HeldIndexed`: every held session is the index entry of its own SN.
- `IndexedHeld`: every index entry names a held session that carries its SN.
- `ServedHeld`: an open, authenticated, still-running reader is held.
- `ExitedClosed`: a reader that has returned has closed its session.

**How the properties follow.**
- From `HeldIndexed`, two held sessions cannot share an SN, because the index is a function. This gives `SNUnique`. It is also why Add's single eviction is enough, and why `Drop`'s index deletion never hits another held session.
- `ServedHeld` together with `HeldIndexed` gives `RoutableWhileServed`.
- For the device views, the lemmas `IInvFoundServed` and `IInvFoundCarries` show that `GetBySN(s)` finds a session exactly for the SNs of served connections, and that the session it finds carries `s`:
  - `IndexedHeld` rules out a stale index entry;
  - `ExitedClosed` rules out an entry for a returned reader.

  From these two lemmas, `IInvOnlineView` derives `OnlineViewExact`.

**Where `~ReAuth` is needed.** Without it, `HandleAuthVerified` could change the SN of a held session and break `HeldIndexed`. The registry_reauth run shows the resulting misrouting.

**Lemmas.** `DropKeepsRegistry` covers Remove and CleanupExpired, and `AuthAddKeepsRegistry` covers Add. TLC confirmed `IInv` as an invariant of the registry configuration before the proof.

**The refinement argument.** The proof follows the usual three steps:
1. `Spec => []IInv`;
2. `Init => R!RInit`;
3. `IInv /\ [Next]_vars => [R!RNext]_AbsVars` (`RefinementNext`).

Step 3 rests on one lemma per kind of registry step:
- **`DropRefines`**: `Drop(S)` of held sessions is `Retire(S)`. By `HeldIndexed`, an index entry deleted for the SN of a dropped session pointed to that session. By `IndexedHeld`, an entry that survives points to a session that is not dropped.
- **`CloseOwnRefines`**: a reader's own Close is `Retire({c})`.
- **`StopRefines`**: `Shutdown` is `Retire(sessions)`.
- **`AddRefines`**: Add is `Claim(c, sn[c])` when `c` is open. The other SNs keep their routes, because by `IndexedHeld` the evicted holder carries `sn[c]`. The connection routes nowhere before, because by `HeldAuthenticated` it is not held while it is mid-Auth. When `c` was closed first, Add is `Retire` of the evicted holder.

`~ReAuth` is needed here for the same reason as for `IInv`.

### `ACKWaiterProofs.tla`

The results hold for every set `CmdID` and every `MaxAcks ∈ Nat`.

- **`AckTypeCorrect`**: `Spec => []TypeOK`. TypeOK is not inductive, because `DeviceAck` and `NotifyLookup` count ACKs in flight. The proof uses `AckTypeInv`, which adds `inflight[m] <= acksSent[m]`.
- **`SlotHeldHolds`**: `Spec => []SlotHeldWhileWaiting`, from `AckInv == AckTypeInv /\ SlotHeldWhileWaiting`.
- **`AckRefinement`**: `Spec => ImplementsAckCorrelation`, that is, `ACKWaiter` implements `AckCorrelation` under the mapping above. It follows the usual three steps:
  1. `Spec => []AckRefInv`;
  2. `Init => AC!AInit` (`AbsInit`);
  3. `AckRefInv /\ [Next]_vars => [AC!ANext]_AbsVars` (`AbsNext`), with one step per action of `ACKWaiter`.

  `AckRefInv` adds `ChannelDiscipline` to `AckInv`:
  - a command not yet waited on has no channel and an empty buffer;
  - a registered waiter's channel is open;
  - a lookup that found a channel belongs to a caller past `sent`;
  - a caller in `waiting` or `returning` has a channel.

  Without these facts, a Notify step could seem to fill a slot that the abstract spec has not created yet.

  These results cover the recovered double-close. Its cleanup step is a stutter under the mapping. Afterwards `muLocked` only disables the steps that take `aw.mu`, so nothing the abstract spec forbids becomes possible.

### `AuthenticatorProofs.tla`

- **`NonceBurnOrderHolds`**: `Spec => []NonceBurnOrder`, for all sets of attempts, nonces, appids and stamps.
- `NonceBurnOrder` is not inductive alone, because `Receive` rewrites `req[a]`. The strengthening `BurnInv` adds two facts:
  - `Pending`: a verification that has not returned has no result, so its rewritten frame never witnesses a stored nonce;
  - the per-attempt variables are functions on `Attempt`.
- The step of `AddNonce` is the one that matters. It adds `req[a].nonce` to the store exactly when it gives `a` a burning verdict (`ok` or `invalid signature`).

### `AuthenticatorProofs.tla`, type and replay

- **`AuthTypeCorrect`**: `Spec => []TypeOK`. `TypeOK` is split into `StoreOK`, the clock and the nonce expiries, and `ControlOK`, the verification states. `StoreKeepsRange` shows that `AddNonce`'s expiry `now + 2 * Window` lies in range. The proof needs `Requests` to be nonempty, and `AuthConstAssumption` now states that `AppID`, `Stamp` and `Nonce` are nonempty: every Auth frame carries an appid, a ts and a nonce.
- **`ReplayRejectedHolds`**: `Spec => ReplayRejectedOnceAccepted`, from `[](TypeOK /\ BurnInv)`:
  - `LeaveCheckIsHasNonce`: the only step that moves a verification off `check` is its own `HasNonce`;
  - by `NonceBurnOrder`, the nonce of an accepted verification is in the store, so that `HasNonce` answers "nonce already used".

### Only model-checked

- **The violations.** They are counterexamples, not theorems. `WaitReturns` is one of them, and it is liveness in any case, which TLAPS cannot reach.

**A note on the provers.** Definitions that contain Go's error strings with spaces (`Panics`) are kept opaque in the SMT steps. The facts an action gives are first extracted with Zenon, and the SMT steps then reason from those facts.

## Not modelled, and why

- **The frame codec** (`part_000`). It is pure encoding: length-prefixed JSON. No property of the concurrent core depends on its bytes, so frames are abstracted to their kind.
- **The device client** (`part_001`, `part_003`). Spec section 1 puts it out of scope. Only its answer to a CMD is modelled, as `DeviceAck`. Reading its code raises two hazards that are recorded but not modelled:
  - a failed `authenticate` leaks the connection;
  - `Stop` racing `authenticate` dereferences a nil connection.
- **Gateway `main.go`, `app.go`, websvc and the frontend.** Spec section 1 puts process bootstrap and the UI out of scope. The shutdown order in `main.go` (HTTP `Shutdown` with a 10 s deadline, then `tcpServer.Stop`) is only wiring around the modelled `Stop`.
- **`Session.SendMessage`'s write mutex.** It serialises writes on one connection. The model keeps only its `ErrSessionClosed` outcome, in the heartbeat.
- **`MemoryNonceStore.Cleanup`.** No code calls it, so the store only grows. This is recorded as a hazard with no property.

## Plan for the following sittings

1. **`Gateway.tla`.** Compose `SessionManager` and `ACKWaiter` through `GetBySN` and `SendCommand`: a command goes to the device holding the SN, and its ACK comes back.
2. **Liveness of expiry.** An expired session is eventually dropped under fairness of the cleanup loop.
3. **Device client.** The reconnect loop with backoff, the connection leak on a failed Auth, and the nil connection on Stop.
