# A TLA+ model of ocpp-client

`ocpp-client` is an OCPP-J client library: it keeps one WebSocket (or other)
connection to a charging-station management system, sends requests and matches
their answers, dispatches incoming requests to handlers, pings the peer, and
redials when the connection is lost. The difficulty is in the interleaving of a
handful of tasks around shared state, in `src/src/client.rs` and
`src/src/sync.rs`, and in what a redial must keep of the connection it replaces.
The repository also has a transport for embassy-net and the firmware of a board
that uses it. That is what these modules model.

Line numbers below are those of `src/src/client.rs` unless another file is named.

## The system

| Part | State | Operations | Talks to |
|---|---|---|---|
| Read loop (226-427) | sink mutex, stream, backoff attempt, `closed`, the `force_reconnect` latch | receive, reply, leave a connection, courtesy close, backoff, dial, swap | everything below |
| Shutdown and forced redial (720-725, 789-800) | `closed`, both latches | `disconnect`, `force_reconnect` | read loop, keepalive |
| Requests (812-868, 1040-1071) | `pending_responses`, one `OneShot` per request | `call`, answers | read loop |
| Pings (341-356, 623-665) | `PongState` | `send_ping`, pongs, clearing on redial | read loop |
| Keepalive (65-88, 690-708, 912-971; `keepalive.rs`) | interval, `changed` latch, `missed` | the task, `set_ping_interval` | pings, forced redial |
| Dispatch (464-611, 977-1039, 1072-1096; `sync.rs` 51-137) | registries, `Chan` queues | `on`, `wait_for`, `on_notification`, incoming CALL and SEND | read loop |
| Event subscriptions (727-767; `sync.rs` 180-204) | `BroadcastRegistry` | `on_ping`, `on_reconnect` | read loop |
| Reconnect policy (`reconnect.rs`) | the loop's `attempt` | `delay_for`, `jittered_delay_for` | read loop |
| Connecting (`connect.rs`) | options, the dial, the reconnector | `connect`, `connect_X`, `prepare`, the reconnectors | transport |
| WebSocket transport (`transport/websocket.rs`) | none | send, ping, close, recv | network |
| Embassy transport and runtime (`crates/ocpp-transport-embassy-net`) | reassembly buffer, task pool | connect, recv, send, spawn | network |
| Board firmware (`crates/ocpp-board-stm32h723-nucleo`) | `RNG_CELL` | start-up, first connect with retries, heartbeat | embassy transport |
| Protocol errors (`error.rs`, `ocpp_*/error.rs`) | none | wire code tables | dispatch |
| Actions, envelopes (`ocpp_*/actions.rs`, `envelope.rs`) | none | generated wrappers | requests, dispatch |

What is hard to get right here, and hard to test:

- *Wake-ups.* An embassy `Signal` is a one-slot latch, shared by shutdown and
  forced redial. Two notifications coalesce; one may be taken for the other.
- *Flags read apart from the latch.* `closed` is an atomic read in a step of its
  own, so another thread may set it between the latch and the read.
- *A mutex held across an await.* The sink's mutex is held while a write waits
  for the network, and the read loop needs the same mutex to redial.
- *Look-up, release, use.* A CALL's channel is cloned under the registry's mutex
  and pushed to after it is released; the handler may be replaced in between.
- *Futures dropped at an await.* Nothing after the await runs.
- *State that outlives a connection.* Pong waiters, the miss counter, the latch,
  the negotiated version.
- *Coalescing.* A subscriber's latch holds one event, however many there were.
- *A byte stream cut anywhere.* TCP delivers frames in pieces, or several at once,
  and `recv` may be dropped between any two of its reads.
- *Widths.* `Duration` saturates, nanoseconds are narrowed to 64 bits, an interval
  is narrowed to milliseconds.

## The modules

| Module | Models | Checked by |
|---|---|---|
| `Lifecycle` | the abstract client: connected, redialling or stopped | refinement from `ReadLoop` |
| `ReadLoop` | read loop, `disconnect`, `force_reconnect`, writers, network | `readloop`, `readloop_latedial`; `ReadLoopProofs` |
| `Requests` | `do_send_request`, answer arms of `handle_frame` | `requests`; `RequestsProofs` |
| `Pings` | `send_ping_with_timeout`, the pong arm, clearing | `pings`; `KeepaliveProofs` |
| `Keepalive` | `keepalive_loop` and its users; extends `Pings` | `keepalive`; `KeepaliveProofs` |
| `Dispatch` | CALL and SEND arms, `on`, `wait_for`, `on_notification`, `Chan` | `dispatch`, `dispatch_replaced`; `DispatchProofs` |
| `Events` | `BroadcastRegistry`, `on_ping`, `on_reconnect`, the announcements | `events`; `EventsProofs` |
| `Backoff` | `delay_for`, `jittered_delay_for`, the attempt counter | `connect` (through `Connect`); `ConnectProofs` |
| `ErrorCodes` | the wire codes of the three versions, both directions | `connect` (through `Connect`) |
| `Connect` | options, `prepare`, dials, negotiation, reconnectors; composes the two above | `connect`; `ConnectProofs` |
| `MCConnect` | the calls that `connect` examines | |
| `EmbassyTransport` | the embassy dial, `recv` with its buffers, the sink | `board*` (through `Board`); `BoardProofs` |
| `Board` | the firmware, its RNG cell and the task pool, over the module above | `board`, `board_partial`, `board_leak`; `BoardProofs` |
| `MCBoard` | the servers that the `board` runs examine | |
| `DataLemmas` | nothing of the code: induction and recursion over the naturals, sequences | used by `ConnectProofs`, `BoardProofs` |

A step of a module is what one task does between two points at which another can
run: an await, or two accesses to atomics that another thread can come between.
`with_cancel` and `with_timeout` (`src/src/runtime.rs`) poll the future before
the cancel signal or the timer, so the losing branch of every such race is
guarded by the winning one not being ready (`PollPending`, `Expire`,
`PongTimeout`, `IntervalOver`, `GiveUp`).

**ReadLoop.** `pc` is the control point of the loop; the names follow the code's
order: `recv`, `parked` (recv polled, not ready), `woken`, `exit`, `closeLock`,
`closing`, `clear`, `delay`, `backoff`, `backoffWoken`, `gate`, `dial`, `swap`,
`announce`. A connection is a number; `link` says whether it is open, stuck (the
peer is gone and the socket does not know) or ended. `owner` is the holder of the
sink's mutex and `held` the connection it found there. `silent` and `waited` are
history variables of the backoff, `asked` of `force_reconnect`. A frame is
abstracted to whether the loop replies to it. Whether the client has a
reconnector is chosen in `Init` and never changes.

**Requests.** A caller is in `do_send_request` at `register`, `send`, `sending`,
`wait`, `failed` or `expired`. The peer may answer any request it got, and the
network deliver any answer any number of times, in any order, or never; an answer
is a result, a result of the wrong shape, or an error. `Drop` is the caller's
future being dropped.

**Pings** has the same shape, `DropPing` included, with the token counter, the
table cleared between connections, and the connection a ping was written to;
`registered` is history, the connection its waiter was made for: once the table has
been emptied, the next one (`TableOf`).
**Keepalive** extends it with the task, `set_ping_interval` (store, then notify)
and the second half of `disconnect`. An interval is a duration in microseconds
that `Millis` narrows to whole milliseconds and caps, as lines 83 and 251 do with
`u32::MAX`: one below a millisecond turns keepalive off. Its history variables count
unanswered pings on one connection; `settled` says whether the task's count started
on it.

**Dispatch** is one action's messages and its registrations, numbered in order.
Each registration owns a channel (queue, latch, closed flag) and a task. A message
is its number and whether its payload parses. CALLs and SENDs have a registry
each, of the same shape; `oneWay`, chosen in `Init`, says which one is modelled. A
reply counts once it is handed to `do_send_response`: a response that does not
encode, or a write that fails, is logged there and not retried. `DropWait` drops
the future of `wait_for` at any of its awaits.

**Events.** `notify_all` takes the registry's mutex, sets each subscriber's latch
and releases it; each is a step. A subscriber's task waits for its latch, runs the
callback, and waits again; a callback may hang. `announced`, `since`, `seen` and
`runs` are history.

**Backoff** runs `delay_for` one iteration per step, so the loop's early end at the
cap, its saturation and the narrowing of the jitter are steps or parts of one. The
widths of the integers are constants, so that small numbers overflow. **Connect**
takes a client from the call that made it (entry point, versions, address,
options, which may be absent) through DNS, TCP and the handshake, each of which may fail, to a
connection, its loss, the wait and the redial. `Prepare` is `prepare`, `Redialler`
the choice of a reconnector in it; the server picks any version it was offered, or none.
While connected, either side refuses a call with an error code, spelled by one
version's table and read by the other's.

**EmbassyTransport** counts bytes in units: a frame is a header and a payload, the
server a handshake response and a sequence of frames, and TCP hands over any
prefix that fits. The opening request is written once too: one longer than the
transmit buffer is cut, and the dial waits for a response that does not come
(`unheard`) until it fails. The server keeps to the WebSocket protocol (`WellFormed`): the
fragments of a text come in order, with only control frames between them. `pending`, `accumulated` and the decoder's position are those of
`EmbassyWsStream`; `recv` may be dropped at each of its reads. The sink encodes,
writes once, flushes. **Board** is `main` from boot to heartbeat over it, with
`EmbassyNetReconnector` and the pool of eight tasks.

## The runs

| Run | Distinct states | Shows |
|---|---|---|
| `readloop` | 119 611 | the loop implements `Lifecycle`; the sink is never swapped under a write; the backoff counts silent dials; a forced redial costs at most one connection, and does not end a loop without a reconnector; `disconnect` ends it and `force_reconnect` makes it leave its connection |
| `requests` | 242 178 | answers reach their own request, the first wins, none is lost; the table keeps only requests in flight or dropped; every call returns |
| `pings` | 226 543 | a ping succeeds only on its own echo; waiters have owners, or a dropped future left them; an echo resolves its ping unless the table was emptied between registration and write |
| `keepalive` | 1 332 335 | no stale sleep; a peer that misses enough pings is noticed, and once the count has started on its connection not before; shutdown ends the task |
| `dispatch` | 155 128 | at most once, no lost wake-up; only a dropped `wait_for` leaves the action bound to a channel nobody reads, and no stranger unbinds it; replaced tasks end; CALLs are answered unless stranded |
| `events` | 220 312 | coalesced events never hide the last one; no callback is invented; a reconnect callback finds the new sink; a hung callback does not hold up the read loop |
| `connect` | 317 935 | client and peer keep one version through redials; a redial uses the first dial's address, credentials and TLS configuration; error codes survive the wire; the delays are the capped powers of the policy, never shrink in an outage, and end |
| `board` | 620 600 | texts come out exact and complete however TCP cuts them and whenever `recv` is dropped; frames that fit the transmit buffer go out whole; the RNG is filled before it is used; the pool serves six handlers |

Four more runs state what a comment of the source says and find a behaviour of the
code that does not do it:

| Run | The comment | What happens |
|---|---|---|
| `readloop_latedial` | 769-770, `disconnect` closes the transport and does not redial | a `disconnect` during a dial closes the old transport, and the loop installs and leaves open the new one |
| `dispatch_replaced` | `sync.rs` 103-104, a retired handler answers what was dispatched to it | a CALL pushed after the old task has ended stays in its channel |
| `board_partial` | `transport.rs` 30, a sink sends one complete frame at a time | the embassy sink writes once and ignores how much was taken: of a frame longer than the free transmit buffer only the first part goes out |
| `board_leak` | embassy `transport.rs` 97-98, one leak per successful connect | a dial that fails has leaked its socket and buffers too |

Other places where the models show the code doing something else than a comment
suggests, or something its reader may not expect. They have no run of their own; the
property named, if any, states the part that does hold.

- 396-398: a wake during the backoff only shortens the wait. One that comes as the
  delay elapses, or during the dial, stays latched and ends the fresh connection
  (`OneForceOneConnection`: no more than one per call).
- 376-379: the courtesy close is bounded. The mutex before it is awaited without a
  bound, and its holder may be stuck on the dead link until the operating system
  gives it up (`ForceTakesEffect` rests on that). A keepalive ping waits for the
  same mutex before its timeout starts.
- 669-670: the table of requests returns to zero. A dropped future leaves its entry
  (`OnlyDroppedLinger`).
- `keepalive.rs` 31-33: consecutive misses. Misses of the connection that was lost
  are counted against its successor until a ping is answered on it, the interval is
  set, or a redial is requested (`SettledIsSpared`).
- `reconnect.rs` 33-35: the delay is capped at `max_delay`. The first delay of an
  outage is `initial_delay` as it stands (73-81); a policy that starts above its cap
  waits longer before its first redial than before any other (`DelayIsCappedPower`
  and `NeverShrinks` leave that case out).
- 744: a reconnect callback fires every time. Redials that come while it runs are
  one callback (`NoMissedEvent`, `NoSpuriousCallback`).
- 384-385: no pong can arrive for a ping that is open when the table is cleared. One
  registered before and written after the swap is echoed by the new peer, and times
  out all the same (`EchoResolvesPing` says that no other echo is lost).
- 504: the registration of `wait_for` is removed whichever way it ends. A dropped
  future leaves it (`BoundToReader` names the exception).
- A CALL looked up while a `wait_for` is leaving is stranded like one to a replaced
  handler (`EveryCallAnswered` names the exception).
- Embassy `runtime.rs` 12: size the pool to 1 + the number of handlers. The client
  spawns two tasks of its own, the read loop and keepalive (`PoolServesHandlers`).
- Embassy `transport.rs` 421-422: control frames always arrive whole. A control
  frame cut by a read inside its payload comes out of the decoder in two parts,
  and `recv` returns an event for each.
- Embassy `transport.rs` 396-401: any TCP read that ends inside a frame header ends
  the connection (`CutHeader`), if the decoder reports such a header as an error. `recv`
  returns that error where it could read on, and the client redials.
- Embassy `transport.rs` 129-133: the opening request is written once, like the frames
  of `board_partial`. If the transmit buffer does not take all of it, the server waits
  for the rest and the dial for the server.
- Embassy `transport.rs` 278-283: a send dropped before its flush leaves its frame in
  the transmit buffer, and the next frame may be cut although it would fit an empty
  one (`WholeIfItFits` leaves out such connections).
- A keepalive interval below one millisecond turns keepalive off.

### Bounds

- `readloop`: two connections, so that one is replaced; a backoff that saturates
  at 2, so that it both grows and saturates; one event, one forced redial and one
  writer, since each of them races the loop and `disconnect` on its own.
- `requests`: two callers and two ids: one caller can be answered, time out or be
  dropped while the other's request is open.
- `pings`: two pings by two pingers over two connections: two pings can be open at
  once, or one pinger ping again while the pong of its first is still under way.
- `keepalive`: three pings, so that one can be missed, answered and missed again, or
  missed on either side of a redial; `max_missed` 2 (the default); one
  reconfiguration among off, too short and capped, two connections.
- `dispatch`: three messages and two registrations of either kind: a replacement
  with a message queued, one held and one being dispatched.
- `events`: three redials, so that one is latched behind a running callback and one
  more comes; one ping, two subscribers to redials and one to pings.
- `connect`: every credential, TLS and reconnector option through `connect`, every
  version through `connect_X`, every policy over four durations and four
  multipliers, zero included. `MaxDuration` 100 and `NanosWrap` 16 make both
  overflows happen; attempts saturate at 7, past the cap of every growing policy.
- `board`: three servers (a fragmented text with a ping inside it, binary data and a
  text larger than the frame buffer before a close, a response too large for the
  handshake buffer); an opening request that fits the transmit buffer and one that
  does not; buffers of a few units, so that every cut of a frame happens;
  two sockets, so that a redial happens and the table fills; seven handlers, one
  more than the pool takes.

The theorems remove these bounds for all the safety properties of the passing runs. A behaviour
ends when its bounds are used up, the client was shut down or the firmware
panicked, so deadlock is not checked.

### Fairness

Weak fairness of each task: the executor polls a task that can run, timers
elapse, and transport calls return unless the link is stuck. `connect()` is
assumed to return (the library puts no timeout on it), and callbacks to return,
except in `Events`, where one may hang. Nothing makes the peer send or answer, the
application call in, or a link change, with one exception: in `ReadLoop`,
`OsTimeout` ends a stuck link, as TCP does eventually. `Pings` and `Board` are
checked for safety only and have no fairness.

## The proofs

Eight modules hold theorems. Each proves its properties for every value of the
constants, from the assumption named beside the constants and nothing else.

**`ReadLoopProofs`**, for any writers, connections, events and forced redials:

- `TypeCorrect`. The types are not inductive alone: the swap needs the fact that
  the dial before it found a free number (`TypeInv`).
- `ShutdownNotLost`. `ShutdownInv`: `closed` is set before the wake-up is sent, a
  shutdown exit is only taken once `closed` is set, and a wake-up that is no
  longer latched was taken where the loop reads `closed` next.
- `SinkNeverMoves`: holding the mutex and having found the current sink is
  inductive with the loop's own control points.
- `BackoffIsMonotone`, from an invariant relating `attempt`, `waited` and
  `silent` at every control point.
- `OneConnectionPerForce`. `ForceInv` counts where a call can be: about to notify,
  latched, taken by the loop, or spent; the latch holds at most one.
- `LoopEndsForAReason`. `DeafInv` adds to `NeverDeaf` why the loop left a
  connection: it ended, `closed` was set, or there is a reconnector.
- `ImplementsLifecycle`: every step is a step of `Lifecycle` or leaves the phase
  and the flag alone, given `ShutdownInv`.

**`RequestsProofs`**, for any callers and ids: `RequestTypes`, `AnswersAreMatched`,
`AnswersAreKept`, `DuplicatesAreIgnored` and `TableDrains` from one inductive
invariant, `RequestInv`: ids are drawn once, by one caller; an id is in the table
only between its registration and its answer; a filled slot holds an answer the
peer gave to that id; a caller that has not given up has its entry or its answer.

**`KeepaliveProofs`** is about `Pings` and `Keepalive`.

- For any finite set of pingers: `PingTypes`, `OnlyMyPong`, `WaitersAreOwned`,
  `EchoesResolve`. `TokenInv`: a token is drawn once. `SlotInv`: a waiter's slot is
  empty and a filled one was echoed. `KeepInv`: while the connection is up, a ping
  registered on it has its waiter or its answer. `BudgetInv` only says that the
  bound leaves a token for each ping that started; it is a fact about
  cardinalities.
- For any intervals, `max_missed`, reconfigurations and connections: `SleepIsFresh`
  and `TaskIsWoken` from `WakeInv` (a change that is not seen yet is latched or
  about to be); `PeerIsNoticed` and `SettledConnectionIsSpared` from `CountInv` and
  `SettledInv`, which bound the task's `missed` by the unanswered pings of the
  connection from below, and on a settled one from above.
- `KeepaliveImplementsPings`: each step of the client with its task is a step of
  `Pings` or leaves the ping table alone. So the results on pings hold of the
  task's (`TaskPingsAreSound`).

**`DispatchProofs`**, for any messages and registrations: `WakeupsAreKept` and
`BindingsAreRead` from `WakeInv` (the registry holds the newest registration or
none; a channel is closed only by its successor, which holds the registry until it
has signalled); `HandledAtMostOnce` from `PlaceInv` (a message that was not handled
is in one place: on its way, in one position of one queue, or held by one task);
`OthersStayBound` and `SendsStayUnanswered`.

**`EventsProofs`**, for any subscribers and events: `NothingIsMissed`,
`NothingIsInvented`, `CallbackFindsNewSink`. `DebtInv` is the accounting: callbacks
begun, plus a latch, plus a place in `notify_all`'s list, are paid for by
announcements made since the subscription.

**`DataLemmas`** makes induction over data possible. The library states induction
with an operator as parameter, which the provers cannot instantiate; here the
property is a set and the step of a recursion a function. `LeastNumber` comes from
the well-foundedness of the naturals, `Induction` from it, and `Recursion` says that
the function a recursion defines exists. With it a recursive definition's equations
are proved (`PowerEquation`, `CompletedStep`, `Streaming`, `TextReads`), and what it
computes by induction. The module also has the facts on sequences by position that
`BoardProofs` uses.

**`ConnectProofs`** is about `Backoff` and `Connect`.

- For every policy and width: `WaitsAreBounded` (the delay is at most `max_delay`
  for every attempt but the first, which waits `initial_delay`, and the jitter stays
  within half of it, although its random part is narrowed to 64 bits,
  `JitterBounds`); `DelayIsThePower` and `DelaysNeverShrink`. `PowerInv`: while
  the loop runs, the delay after n iterations is exactly the first delay times the
  n-th power. It ends early only at a cap that the remaining iterations, saturated
  or not, cannot leave (`CapStays`). The last delay is at
  most the one of the next attempt, because the powers grow (`CappedGrows`).
- For any calls, addresses and policies: `VersionSurvivesRedials`,
  `CredentialsSurviveRedials`, `DisabledWins` and `AbsentIsDefault` from `ConnectInv`
  (what a client's reconnector will dial is what its call dialled, with the version
  negotiated); `AbsentIsDefault` is about the separate fall-backs of `prepare` and
  `setup_socket` for absent options, which agree with `ConnectOptions::default`.
  `ErrorsAreUnderstood`. The lemma `ConnectImplementsBackoff` takes the results on
  delays over to clients: `ClientWaitsAreBounded`, `ClientDelaysFollowThePower`.

**`BoardProofs`** is about `EmbassyTransport` and `Board`, for every server that
follows the protocol, every buffer, pool and header size.

- `TextsComeThrough` and `NothingLeftBehind`, from `StreamInv`: there are a position
  in the server's bytes and a number k of frames such that `pending` and then the wire
  hold the bytes after the position; the decoder stands at the end of the k-th frame
  or within the next (`Midway`); the texts that k frames complete are those
  returned; and `accumulated` is what has come of the next one. It is needed because
  `TextsExact` speaks only of whole texts: nothing in it says what a half-assembled
  one must be. `Layout` gives each frame its place in the bytes, `FrameTexts` and
  `FrameEnds` say what part of a frame adds to which text, and `Returns` and
  `Continues` take the decoder over it. The restrictions on fragments in `WellFormed`
  are used there: without them two texts would be assembled in one buffer.
- `SendsWhole`, from `SinkInv`: unless a send was dropped, the transmit buffer is
  empty when one starts.
- `RngIsReady`, from `RngInv`: nothing is dialled before the cell is filled.
- `PoolIsEnough`, from `PoolInv`: every future has a slot or was dropped, and only
  from a full pool.

Some proved properties are in no run, the proof making one superfluous:
`NoLostShutdown`, `ShutdownWakesTask`, `SendsGetNoReply`, `DisabledStaysDown`,
`AbsentMeansDefault`, `DelayCapped`, `JitterInRange` and the type invariants.

Only model-checked: the liveness properties `ShutdownStops`, `ForceTakesEffect`,
`EveryCallReturns`, `ShutdownStopsTask`, `RetiredTasksEnd`, `EveryCallAnswered`,
`LoopNotHeldUp` and `RedialComes`. They rest on fairness, which is outside the reach
of the prover. Every other property of a passing run has a theorem.

## Not modelled

- Payloads, JSON, envelopes and the wrappers generated per action: no state of
  their own; a payload is "parses" or "does not". These declarations are most of
  the repository's lines outside the map.
- The wording of error descriptions and details. Only the codes are modelled.
- TLS, DNS, TCP, the two WebSocket libraries, the network stack and the
  peripherals: external; modelled as far as the code depends on what they return.
  That the embassy decoder reports a header cut by a read as an error is an
  assumption about that library.
- The tokio runtime and the embassy timer: each call forwards to the runtime's.
- Logging, the example and the benchmark.

## Plan

`Client`: the read loop, requests, keepalive and events composed over one
`closed` flag, one sink and one forced-redial latch. Each module has its own
copy of the neighbours it needs (`Pings` of the loop's, `Events` of the
redial's); the composition would show that the copies agree.
