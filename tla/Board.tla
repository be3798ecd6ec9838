------------------------------- MODULE Board -------------------------------
(***************************************************************************)
(* The STM32H723 firmware and the embassy runtime: main's start-up, the    *)
(* hardware RNG behind RNG_CELL, the retry loop of the first connect, the  *)
(* client with its EmbassyNetReconnector, and the fixed pool that runs the *)
(* client's tasks.  The connection is module EmbassyTransport's.  The      *)
(* network stack, its table of sockets included, is external.              *)
(***************************************************************************)
EXTENDS EmbassyTransport

CONSTANTS PoolSize,      \* runtime::POOL_SIZE
          MaxHandlers    \* bound: handlers the application registers

ASSUME BoardAssumption == PoolSize \in Nat /\ MaxHandlers \in Nat

VARIABLES mpc,       \* main
          rng,       \* is RNG_CELL filled?
          panic,     \* why the firmware panicked, if it did
          tasks,     \* tasks in the pool
          handlers,  \* handlers registered
          dropped    \* history: futures the pool had no slot for

boardVars == <<mpc, rng, panic, tasks, handlers, dropped>>
vars == <<boardVars, embassyVars>>

Init ==
    /\ EmbassyInit
    /\ mpc = "boot" /\ rng = FALSE /\ panic = "no"
    /\ tasks = 0 /\ handlers = 0 /\ dropped = 0

Running == panic = "no"

\* SharedHwRng expects RNG_CELL to be filled and panics if it is not; so does
\* Uuid::new_v4 on the error of __getrandom_v03_custom.
UseRng(filled) == panic' = IF filled THEN panic ELSE "rng"

\* Mutant: the seed is drawn before the peripheral is there.
BootSeedFirst ==
    /\ mpc = "boot" /\ Running /\ mpc' = "network"
    /\ UseRng(rng) /\ rng' = TRUE
    /\ UNCHANGED <<tasks, handlers, dropped, embassyVars>>

\* Heap and clocks; the RNG into its cell; the seed of the network stack.
Boot ==
    /\ mpc = "boot" /\ Running /\ mpc' = "network"
    /\ rng' = TRUE /\ UseRng(rng')
    /\ UNCHANGED <<tasks, handlers, dropped, embassyVars>>

\* The network task is spawned, on a slot of its own, and DHCP ends.
NetworkUp ==
    /\ mpc = "network" /\ Running /\ mpc' = "connect"
    /\ UNCHANGED <<rng, panic, tasks, handlers, dropped, embassyVars>>

\* connect: the stack may have no room for another socket, and panics.
TryDial ==
    /\ Running /\ tpc \in {"none", "ended"}
    /\ IF leaked < Sockets
         THEN (\E s \in Servers : Dial(s)) /\ UNCHANGED panic
         ELSE panic' = "sockets" /\ UNCHANGED embassyVars
    /\ UNCHANGED <<rng, tasks, handlers, dropped>>

\* main's own dials, until the first connection stands.
BoardDial == mpc = "connect" /\ mpc' = "dialling" /\ TryDial

\* EmbassyNetReconnector: the client lost its connection, or a redial failed.
BoardRedial == mpc = "beat" /\ UNCHANGED mpc /\ TryDial

\* The WebSocket client of the new connection takes its RNG.
BoardRequested ==
    /\ Running /\ Requested /\ UseRng(rng)
    /\ UNCHANGED <<mpc, rng, tasks, handlers, dropped>>

\* The rest of the dial, the reads of the stream and the writes of the sink.
DialStep == (\E n \in 1 .. HandshakeSize : ReadResponse(n)) \/ DialFails

StreamStep ==
    /\ Running
    /\ \/ DialStep
       \/ mpc = "beat" /\ (Recv \/ RecvStep \/ CancelRecv \/ SocketEnds)
    /\ UNCHANGED boardVars

\* The first connect failed: after five seconds main tries again.
Retry ==
    /\ mpc = "dialling" /\ Running /\ tpc = "none" /\ mpc' = "connect"
    /\ UNCHANGED <<rng, panic, tasks, handlers, dropped, embassyVars>>

\* Mutant: a pool one smaller than POOL_SIZE says.
SpawnShort(n) ==
    LET free == PoolSize - 1 - tasks
    IN /\ tasks' = tasks + Smaller(n, free)
       /\ dropped' = dropped + (n - Smaller(n, free))

\* EmbassyExecutor::spawn, n times: a future without a slot is dropped.
Spawn(n) ==
    LET free == PoolSize - tasks
    IN /\ tasks' = tasks + Smaller(n, free)
       /\ dropped' = dropped + (n - Smaller(n, free))

\* The client over the first connection: its read loop and its keepalive task.
BuildClient ==
    /\ mpc = "dialling" /\ Running /\ tpc = "up" /\ mpc' = "beat"
    /\ Spawn(2)
    /\ UNCHANGED <<rng, panic, handlers, embassyVars>>

\* on, on_ping, on_reconnect: one task each.
Register ==
    /\ mpc = "beat" /\ Running /\ handlers < MaxHandlers
    /\ handlers' = handlers + 1 /\ Spawn(1)
    /\ UNCHANGED <<mpc, rng, panic, embassyVars>>

\* A heartbeat every thirty seconds, its id drawn through getrandom, and the
\* other frames of the client.
BoardSend ==
    /\ mpc = "beat" /\ Running /\ SinkStep /\ UseRng(rng)
    /\ UNCHANGED <<mpc, rng, tasks, handlers, dropped>>

Next ==
    \/ Boot \/ NetworkUp \/ BoardDial \/ BoardRedial \/ BoardRequested
    \/ StreamStep
    \/ Retry \/ BuildClient \/ Register \/ BoardSend

Spec == Init /\ [][Next]_vars

------------------------------------------------------------------------------
(* Properties. *)

\* "RNG_CELL initialized before any RngFactory closure can run" (main.rs:85): no
\* use finds it empty, neither main's seed, nor a dial, nor a message id.
RngBeforeUse == panic # "rng"

\* The pool of 8 serves a client with up to 6 handlers, two slots being the
\* client's own: no future is dropped before that (runtime.rs:10-27).
PoolServesHandlers == dropped > 0 => handlers > PoolSize - 2

==============================================================================
