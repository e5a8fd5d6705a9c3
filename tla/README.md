# OpenFriend: TLA+ models, model checking and proofs

OpenFriend lets a Minecraft player host a local server for friends. A host and
a joiner meet over a signaling WebSocket, negotiate a WebRTC data channel, and
tunnel the game's TCP stream through it. A mod or plugin drives the process by
JSON-RPC over stdin and stdout. This directory holds TLA+ models of that
program, the TLC runs that check them, and TLAPS proofs. `PROJECT.json` lists
every run, property, mutant, mapped definition, hazard and theorem.

Run a model with `tlc -config X.cfg M`, check proofs with `tlapm M.tla`.

## 1. Inventory

| Component | Source | State | Operations | Hard because |
|---|---|---|---|---|
| Host bridge | `bridge/host.go`, `tcp.go` | `sessions` map under `mu`; per session `closed`, `rtc`, `tcp`; `TCPBridge.closeOnce` | handleOffer/startSession, WaitDataChannelOpen, attachTCP, onPeerData, close, removeSession, Close | five goroutines per session, nested closes under a mutex and a sync.Once, waits with timeouts |
| WebRTC session | `bridge/session.go` | `pc`, `dc`, `queuedICE`, `remoteSet`, `dcOpenCh`, `closeOnce` | HandleOffer, CreateOffer, HandleAnswer, AddRemoteICE, Close | candidates trickle while descriptions are exchanged; Close sets `pc` to nil at any time |
| Join bridge | `bridge/join.go` | `current`; per session `local`, `rtc`, `acceptCh`, `rejectCh`, `once` | accept, handleIncoming, OnFriendJoin, handleAnswer, close, Close | one join at a time; late, repeated or missing answers |
| Tunnel | `session.go`, `host.go`, `join.go`, `tcp.go`, `handshake.go` | send queue, `warmupRemaining`, `handshakeBuf`, `handshakeDone` | read, wait for drain, send, receive, rewrite the handshake | message boundaries, queue limit, data before the dial |
| Signaling client | `signaling/*.go` | `ws`, `connecting`, `backoff`, `closed`, `readyCh`, `pending` | Connect, attemptConnect, readLoop, handleClose, scheduleReconnect, sendRequestAwait, handleMessage, Close | reconnects race with Close and with each other; answers race with timeouts |
| IPC control | `ipc/methods_host.go` | `hostState` | host.start/stop, join.start/stop | every request has its own goroutine; check and set in separate critical sections |
| IPC watch and presence | `ipc/methods_watch.go`, `presence/*.go` | `watchState`, `known*` lists | watch/unwatch, presence.set, ticks | overlapping loops, what was posted last |
| IPC server | `ipc/server.go`, `writer.go` | `quitCh`, the writer's lock | dispatch, Quit | shutdown while requests run |
| Authentication | `auth/session.go`, `store.go` | `tokens`, the credentials file | EnsureFresh, RefreshNow, ResetCache, Save | check, unlock, lock, use; crash while saving |
| API client | `api/*.go` | ETags, caches, cooldowns | GetFriends, PutFriendAction, PostPresence, ResetCache | answers that arrive after a reset, retries |
| The rest | `bypass`, `status`, `update`, `skinimg`, `util`, `cmd` | none shared | files, formatting, wiring | pure I/O or conversions |

What makes each correct, in a sentence:

* host bridge: a session ends released and out of the map, sessions with
  different ids do not affect each other, and nobody waits for ever;
* WebRTC session: every candidate is applied exactly once, after the
  description it belongs to;
* join bridge: one join at a time, every attempt resolves, nothing leaks;
* tunnel: each direction is a reliable byte pipe, but for the one packet
  that is rewritten on purpose;
* signaling client: at most one connection or reconnect at a time, a client
  that is not closed gets its connection back, Close leaves nothing running,
  every call returns;
* IPC control: every host and join that runs can be stopped, a stopped host is
  not advertised, the process ends when its input does, unless a host.stop waits
  for a HostManager whose mutex a repeated session id has left locked;
* watches: a loop that runs can be stopped, what the mod was told about friends
  is what the service says, the service ends up with the status that was set;
* authentication and cache: an approval by the user is not lost, an account
  change leaves no data of the earlier account, every request ends.

## 2. Plan

Done in this order: `HostManager`, `RtcSession` with `RtcSessionProofs`,
`SignalingConn` and `SignalingClient` (which composes the connection with the
RPC calls), `JoinManager`, `Tunnel` over the abstract `BytePipe`,
`SignalingClientProofs`, `IpcControl`, the watches (`WatchLoop`, which
`FriendsWatch` and `PresenceWatch` extend and `Watches` composes), `Account`,
`WatchesProofs`, `AccountProofs`; then the proofs of the other components,
`JoinManagerProofs`, `IpcControlProofs`, `TunnelProofs` (the refinement of `BytePipe`)
and `HostManagerProofs`, and the invariants that were still only checked
(`FriendsConsistent`, `SwitchIsClean`).

With that, every invariant, action property and refinement that a passing run checks
is also a theorem. What is left is to keep models and proofs in step with the code.

## 3. Modules

### HostManager (host.go, tcp.go)

Deadlocks here come from functions calling each other, so goroutines are explicit:
`todo[t]` is what goroutine `t` still has to call, next call first; a call replaces
itself by the calls it makes. Each session has an `offer`, a `wait`, a `read`, a
`data` and an `rtc` goroutine (handleOffer, the wait for the channel, readLoop,
onPeerData and pion's state callback); `Stopper` runs HostManager.Close. `mgr` is
`HostManager.mu` when it is kept across calls, `once` is `TCPBridge.closeOnce`.
Sections under one lock without calls are one step. `HandleOffer` on a Session that
has been closed either panics or fails, which are the outcomes of that data race
(`crashed`). Two other uses of `s.pc` after Close are not in this model: AddRemoteICE
(session.go:234), whose panic the signaling reader recovers, and
logSelectedCandidatePair (session.go:292). So nothing is claimed about panics.
A session whose NewSession fails stays in the map, as in host.go:170-173.

### RtcSession (session.go and the handlers that drive it)

One negotiation between `init` (joiner) and `acc` (host). `sdp` and `ice` are
messages under way, delivered in any order. `TakeQueue`, `FlushOne`, `FlushDone` are the
lock section, the loop and the rest of HandleOffer and HandleAnswer; `HandleICE` and
`AddICECandidate` the two halves of AddRemoteICE around the unlock. `added`,
`dropped` and `refused` record what became of each candidate. The host races its
offer goroutine against the signaling reader; the joiner runs both in the reader
(`ReaderFree`).

### SignalingConn, SignalingClient (client.go, transport.go, jsonrpc.go, dispatch.go)

Each attempt, its timer and its readLoop are goroutines; names are used again when all
three have ended, so that reconnecting is not bounded. `SignalingClient` extends it with
the awaited calls: `hand[k]` is the answer readLoop `k` is about to deliver between
the deletion from `pending` and the send on the channel.

### JoinManager (join.go)

`stage` is where each handleIncoming is. `once`, `local` and `localOpen` split
joinSession.close at the point where another goroutine can see the difference.
Answers stay in `replies`, so that they are delivered any number of times. A repeated
ANSWER is an error of Session.HandleAnswer, which closes the session.

### Tunnel, BytePipe

Bytes are positions in their stream, so that a lost, repeated or misplaced byte shows.
The handshake packet is rewritten into the single byte `Marker`. `BytePipe`
is the promise: what has arrived is a prefix of what was sent. `UpIsPipe` and
`DownIsPipe` are refinements under `got <- out[...]`.

### IpcControl (server.go, methods_host.go, broadcaster.go, cmd/openfriend/ipc.go)

Server.Run reads lines and starts a goroutine for each; `pc[r]` names the critical
section of `hostState.mu` that request `r` comes to next, `arg[r]` the host or join it
has in local variables. A host is what host.start makes (signaling client, HostManager,
Broadcaster), a join what join.start makes; `host` and `join` are the fields of
hostState. Run looks at its context only after a line, as the code does: after a quit
it goes on until the next line or the end of stdin. A host in `stuck` is one whose
HostManager.mu is held for ever (`ManagerSticks`, which is what `host_repeat` shows of
`HostManager`): host.stop does not get past `PmClose` for it. Some overlaps of requests do lose a host or a join
in this code (two host.starts, a host.start and a host.stop, two join.starts); `overlapped` records
them and the properties say nothing afterwards.

### WatchLoop, FriendsWatch, PresenceWatch, Watches (methods_watch.go, presence, api)

`WatchLoop` has what both watches share: start, stop and wait. `at[a]` is where a loop
or a request is. In `FriendsWatch` a list is the set of sections the one other player
is in, which is also its ETag; a GET is sent, answered and stored in three
steps, applyDiff is two. `raced` is set when two GETs or two loops overlap, or
ResetCache meets a GET: the code then can keep an ETag with another list and
report a change twice or not at all, and the behaviour is not followed further.
In `PresenceWatch` a POST applies its status, fails, or is answered from the
cache in a cooldown; the Broadcaster, host.stop and ResolvePeer post beside
the loop. `Watches` is one specification of both, since they share only a mutex.

### Account (session.go, store.go, devicecode.go, mojang.go, methods.go, cache.go)

`lock` is `Session.mu`, which is held across calls to the services. A request goes
through the token functions on behalf of a caller (`mode`): signIn, requireAuth
(EnsureFreshSilent), Current (EnsureFresh) or the retry after a 401 (RefreshNow). Lists
and credentials are the account they belong to. A crash may find Save half
done (`torn`). `approved`, `replaced` and `clean` are history: what the user approved
last, whether another account's tokens were saved over it since, and whether the last
account change was noticed and met no GET. A crash leaves `approved` as it is, whatever
the file then has, except when it cuts the Save itself or comes before the first Save
after the approval has begun; sign-out and an account change, which remove the
credentials, forget it too.

## 4. Runs

| Run | Instance | Result |
|---|---|---|
| `host_safety` | two OFFERs with one id; the first one's server may hang up; the second one's NewSession may fail; Close | holds, 678,539 states |
| `host_liveness` | two OFFERs with different ids, servers that stay; the second one's NewSession may fail | holds, 15,750 states |
| `host_hangup` | one OFFER, the server hangs up | `AbandonedSessionEnds` violated |
| `host_repeat` | two OFFERs with one id | `ManagerNotReentered` violated |
| `rtc` | three candidates, gathered by either end | holds, 17,106 states |
| `signaling` | one call, three attempt names, delay cap 3 | holds, 132,758 states |
| `join` | two Minecraft connections | holds, 131,008 states |
| `tunnel` | 4 bytes each way, reads of up to 2, handshake of 2, 2 warm-up bytes, every kind of first packet | holds, 11,932 states |
| `tunnel_early` | the same with data before the dial | `UpIsPipe` violated |
| `control` | three requests in two goroutines, two host and two join names | holds, 363,164 states |
| `watch` | two loop names, two requests, three calls or changes | holds, 104,000 states |
| `account` | two accounts, three requests in two goroutines, one crash | holds, 438,536 states |

Why the bounds are enough: a session interacts with another only through the map
entry of its id and the manager's mutex, so that two offers give every pair; three
candidates cover one queued, one in hand and one under way at once; three attempt
names are one more than can be alive at once; a handshake of two bytes can be cut,
and four bytes leave two behind it; the queue limit of 2 is reached by one read
after the warm-up bytes. In `control` three requests are a start, a stop and one that
overlaps both, or a start, a replacement and a stop; names are used again. In `watch`
two loops are the one being stopped and its successor. In `account` a third request
makes a sign-in, a change and a use; one crash can hit any of them. Deadlock checking is off: all of these systems come to rest.

What the three violations show:

* `host_hangup`: the server closes first; readLoop's Close runs `onClose` inside
  `closeOnce`; hostSession.close calls TCPBridge.Close again and waits for itself.
  When the friend goes, fireClose takes the session out of the map, but its peer
  connection and the readLoop goroutine stay for ever.
* `host_repeat`: `prev.close()` runs with `HostManager.mu` held and comes back
  to removeSession through TCPBridge.Close, so the mutex is never released. The
  README's sentence is about a friend who joins twice; the case here is the
  narrower one in which the second OFFER has the session id of the first.
* `tunnel_early`: onPeerData drops what arrives before `ps.tcp` is set.

Two more leaks are in the models and named by the properties, which hold
around them: a TCP or peer connection stored after close() has marked the
session (`CloseReleases`, `ClosedIsReleased`, `RtcNotLeaked`). Three properties
name an exception that the code has: `HalfOpenEnds` a session whose
NewSession failed, which stays in the map (`Abandoned`); `ServerDrains` a host.stop that
waits for a stuck manager (`StopHangs`), in which case the process does not end; and
`ApprovalNotLost` an approved account whose exchange failed and over which the account
that is still signed in has saved its refreshed tokens (`replaced`). The models of this
process's own control have the races named above (`overlapped`, `raced`, `clean`), and
one more that only concerns whose tokens are used: EnsureFreshSilent without tokens
does not look again under the mutex, so that useMojangSession can be overwritten by the saved
account (`Load`). No document speaks about these, so they are hazards and not findings.

`TypeOK` is checked in `host_safety`, and proved for `HostManager`, `RtcSession` and
the signaling client; the other runs check it when INVARIANT TypeOK is added.

## 5. Fairness

Weak fairness for every step a goroutine takes by itself, because the Go scheduler
runs what can run and every wait in the code has a timeout or ends with the
connection. Nothing is assumed of friends, servers, Minecraft clients, or the
caller of Close. Two exceptions, both stated where they are used: messages of a
negotiation are delivered (`HostCandidatesArrive`), and a dial succeeds again and
again (`Reconnects`, strong fairness of `DialOK`). In `Tunnel` both ends go on
reading and writing. In `IpcControl`, `Watches` and `Account` HTTP calls end (the client has a
timeout, and a device code expires); a host.stop whose manager is stuck is not assumed
to return. Strong fairness is used where Go gives it:
select does not prefer the ticker over a closed stop channel for ever, a mutex serves those who
wait; and for a service that is asked again and again (`Answer`, `PostOk`,
`AnnounceOk`), without which a status could not settle.

## 6. Proofs

`RtcSessionProofs` proves, for every set of candidates, that `IInv` is an invariant of
`RtcSession`, and from it type correctness and the four safety properties of the
`rtc` run. The properties are not inductive alone. `Phases` adds that candidates are
being flushed only inside the flush, that `remoteSet` is set only after the
description, and that the reader holds a candidate only with `remoteSet`; `OfferFirst`
adds that the host does nothing before the one OFFER leaves, by which time the joiner
has stored its Session. The only assumption is `None \notin Cands`.

`SignalingClientProofs` proves, for every number of attempts, every cap on the delay
and every set of calls, that `ConnInv` is an invariant of `SignalingConn`, that
`SignalingClient` implements `SignalingConn` (the calls do not disturb the
connection), and that `IInv` is an invariant of `SignalingClient`; from it follow type
correctness and the safety properties of the `signaling` run. `SingleOwner` carries
the connection: the step of an owner finds no other owner, so what it stores in c.ws
or clears is its own. It needs `NotStarted` for the first attempt. It is proved in the
form `AtMostOne`, shown equivalent. `AnswersDeliverable` needs `OneDeliverer`: the
right to answer a call is in `pending` or in the hand of one readLoop, and its channel
is untouched until it is used. The assumptions are `MaxAttempts \in Nat`,
`MaxBackoff \in Nat \ {0}` and `None \notin Calls`; that dials, drops, answers and Close
come in any order is part of the model.

`HostManagerProofs` proves, for every set of OFFERs, every assignment of ids to them and
with HostManager.Close at any time, type correctness, `OrphanIsClosing` and
`CloseReleases`. Goroutines are sequences of calls, so the proofs never look at
positions: `Left(t)` is the set of calls `t` still has to make, `After(x)` what may come
behind a call `x` (`Orders` says that nothing else does), and a step is described by
which calls it takes away and which it adds (`Moves`, `Shifts`, `Gains`). The properties
are not inductive. `Places` ties each kind of call to the goroutine that can make
it; `Replaced`, `RemoveLast` and `Orphans` follow a session from the moment it leaves the
map to its close; `StartFirst`, `DialOnce`, `OnceCloses`, `PcKnown` and `ConnKnown` follow
its two connections from their creation to the goroutine that closes them; `StopFirst`
and `FireFirst` say that HostManager.Close and pion's callback do nothing before they
have started.
One more theorem holds when every OFFER has an id of its own and the manager is
not closed (`Apart`, the instance of `host_liveness`): `SessionsIndependent`, an action
property. It uses `Own` and `MapOwn`: a goroutine calls only into its own session, and
the map holds only sessions under their own id. The hypothesis is needed: a
repeated id makes startSession close the session that has it, and HostManager.Close
closes all of them.

`JoinManagerProofs` proves, for every set of Minecraft connections, the three
invariants and the action property `CurrentStays` of the `join` run. `CurrentRuns` says
that `current` is a join whose goroutine has not finished, `PeerAfterTurn` that a peer
connection exists only after the TURN request is over, `CloseOrder` that close() closes
the local connection first and who can have called it by then, and `CloseEnds` that a
close that has ended closed the peer connection too, but for one stored after
JoinManager.Close. It assumes `None \notin Conns`.

`TunnelProofs` proves that both ways implement `BytePipe`, for streams, buffers,
handshakes and queues of any length: `UpIsPipe` and `DownIsPipe` step by step, each step
of `Tunnel` being a step of the pipe or a stutter. `WireOrdered` says that what has
arrived, what is on the way and what is queued are, in this order, the positions of the stream;
`Senders` that the wait before each send leaves room for the chunk, so that the queue
drops nothing; `DownOut` and `UpOut` that what was delivered is a prefix of it, for the
way up with the handshake packet replaced once it is complete. It uses
`TunnelAssumption`: the queue has room for the limit and one chunk more, the limit is no
smaller than the warm-up, and a handshake is at least one byte and not longer than the
stream. The way up is proved for `EarlyData = FALSE`, as
`tunnel_early` shows it must be.

`IpcControlProofs` proves `NoOrphans` and `StoppedIsNotAdvertised` for any number of
requests, hosts and joins. A host that lives is in `hostState`, in the hand of the one
handler that has just made it or taken it out, or is being closed; `HostInv` has the
parts of that (`StartAlone`, `OneHolder`, `HostStages`, `HostsHeld`), `JoinInv` the same
for joins, and `PostInv` where the last presence POST of a stopped host can be. They are
claimed only while no requests overlapped. It assumes that hosts, joins and `None` are
different.

`WatchesProofs` proves, for every set of loops and requests, that unwatch reaches
every loop. `LoopsStoppable` needs `Handed`: the loop that `friendsStop` belongs to has
started and nobody has stopped it, and a free name is neither stopped nor waited for.
Every step of a tick, a call or a request is shown to be `Quiet` (it moves an actor
between two stages in which a loop is alive and touches nothing else of the life
cycle), so only watch, unwatch and the end of a loop have to be looked at. It also
proves `FriendsConsistent`. Until the first race there is one loop and one GET (`OneLoop`,
`OneGet`); the ETag a GET carries still names the cached list when its answer comes
(`Carried`), so that a 304 puts back the right one; and between the two critical
sections of applyDiff the observer has been told what is about to be recorded
(`Told`). It assumes that loops, requests and `None` are different.

`AccountProofs` proves, for every set of accounts and requests and with crashes, that an
approval is not lost and that only an expired token is refreshed. `MutexHeld` says that
a request inside the session has the mutex, hence is alone there; `AboutApproved` and
`FileFollows` say that the approved account is in the file, about to be written, or
has been saved over by another account (`replaced`), in which case the file is whole
(`ReplacedWhole`). Crash is one of the steps and forgets an approval only when it
cuts a Save or comes before the first one, so the proof rests on the order of the
code: the exchange starts only after that Save. It also proves
`SwitchIsClean` from `CInv`: while an account change was noticed and met no GET, every
GET is about the account signed in (`FetchesOwn`); between the removal of the file and
the reset of the memory cache nobody can write the file (`DiskGone`); otherwise both
caches are about the account signed in, and about the account of every request that
is past its own check and about to set it (`CachesOwn`), without which a late
SetMojangSession could not be shown harmless. It assumes that `None` is neither an
account nor a request nor a set of tokens.

Only model-checked: every liveness property, because TLAPS does not reason about
fairness here (`ClosedIsReleased`, `HalfOpenEnds`, `HostCandidatesArrive`,
`CallsReturn`, `CloseEndsAll`, `Reconnects`, `JoinResolves`, `PeerGoneEndsJoin`,
`AllArrives`, `ServerDrains`, `FriendsConverge`, `StatusSettles`, `RequestsEnd`).

## 7. Abstractions and what is left out

Message contents, SDP, credentials, logging and wording are left out. pion is modelled
by how it is used: an ordered, reliable channel whose send queue drops what exceeds
its capacity; callbacks in goroutines of their own; a candidate refused without a
remote description. The signaling service delivers in any order and may repeat answers.
The ping loop only writes, and logs its errors. `Connect` is called once on a client:
every caller makes a fresh one (main.go:194, joinrunner.go:49, methods_host.go:125 and
277). In `Tunnel` the channel opens by OnOpen; that it is found open when
attachDataChannel looks (session.go:145-147), and a warm-up message that cannot be sent
on the channel that has just opened, are left out.

Left out, because nothing else in the process depends on their order: lastPresence,
which filters notifications about other players; the blocklist, a map behind one mutex saved as a
whole; the status file; self-update, which runs before everything else; the skin upload;
the bypass key and the encryption of credentials, which are functions of a file;
flags and the host and join modes of the command line, which start and stop the same
components once, in one goroutine; the migration of auth.json and a Save that fails;
the bytes of VarInts and frames, which `Tunnel` has only by the outcome of decoding.
`PROJECT.json` has a note for each component.

Definitions commented "Mutant" are not part of any specification. Each is a plausible
slip in the operation it precedes; put in its place, it makes the property named in
`PROJECT.json` fail, which shows that the property depends on that code.
