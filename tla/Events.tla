------------------------------- MODULE Events --------------------------------
(***************************************************************************)
(* Client::on_ping and on_reconnect: the read loop announces an event to   *)
(* every subscriber of a BroadcastRegistry, and each subscriber's task     *)
(* runs its callback.  A subscription is a one-slot latch, so events that  *)
(* come faster than the callback returns coalesce.                         *)
(***************************************************************************)
EXTENDS Naturals

CONSTANTS PingSubs,       \* subscriptions made with on_ping
          ReconnectSubs,  \* subscriptions made with on_reconnect
          MaxPings,       \* bound: pings received
          MaxRedials      \* bound: connections lost and redialled

ASSUME EventsAssumption ==
    /\ PingSubs \cap ReconnectSubs = {}
    /\ MaxPings \in Nat /\ MaxRedials \in Nat

Subs     == PingSubs \cup ReconnectSubs
Topics   == {"ping", "reconnect"}
Topic(s) == IF s \in PingSubs THEN "ping" ELSE "reconnect"

MaxEvents(k) == IF k = "ping" THEN MaxPings ELSE MaxRedials

VARIABLES
    lpc,          \* where the read loop is
    topic,        \* the event it is announcing
    telling,      \* subscribers notify_all has yet to signal
    sink,         \* the connection behind the sink; the first is 1
    happened,     \* events of each topic so far (bound)
    subscribers,  \* BroadcastRegistry::subscribers
    signal,       \* each subscription's Signal, a one-slot latch
    spc,          \* where each subscriber is
    announced,    \* history: announcements of each topic
    since,        \* history: announcements made before the subscription
    seen,         \* history: announcements made before its last callback began
    runs          \* history: callbacks begun

loopVars == <<lpc, topic, telling, sink, happened, announced>>
subVars  == <<subscribers, signal, spc, since, seen, runs>>
vars     == <<loopVars, subVars>>

\* notify_all holds the registry's mutex while it signals.
Locked(k) == lpc = "telling" /\ topic = k

Init ==
    /\ lpc = "serve" /\ topic = "ping" /\ telling = {} /\ sink = 1
    /\ happened = [k \in Topics |-> 0] /\ announced = [k \in Topics |-> 0]
    /\ subscribers = [k \in Topics |-> {}]
    /\ signal = [s \in Subs |-> FALSE]
    /\ spc = [s \in Subs |-> "unborn"]
    /\ since = [s \in Subs |-> 0] /\ seen = [s \in Subs |-> 0]
    /\ runs = [s \in Subs |-> 0]

------------------------------------------------------------------------------
(* The read loop. *)

Happens(k, newSink) ==
    /\ lpc = "serve" /\ happened[k] < MaxEvents(k)
    /\ happened' = [happened EXCEPT ![k] = @ + 1]
    /\ sink' = newSink
    /\ topic' = k /\ lpc' = "announce"
    /\ UNCHANGED <<telling, announced, subVars>>

\* A ping arrives; its subscribers are told before the pong is written.
PingArrives == Happens("ping", sink)

\* Mutant: the subscribers are told before the sink is replaced.
RedialAnnouncedFirst == Happens("reconnect", happened["reconnect"] + 1)

\* A connection was lost and redialled: the new sink is installed, then the
\* subscribers are told.
Redial == Happens("reconnect", sink + 1)

\* disconnect(), or a loss with nothing to redial with.  Subscribers' tasks
\* are not told: they wait for good.
LoopEnds ==
    /\ lpc = "serve" /\ lpc' = "stopped"
    /\ UNCHANGED <<topic, telling, sink, happened, announced, subVars>>

\* notify_all: lock the registry ...
Announce ==
    /\ lpc = "announce" /\ lpc' = "telling"
    /\ telling' = subscribers[topic]
    /\ announced' = [announced EXCEPT ![topic] = @ + 1]
    /\ UNCHANGED <<topic, sink, happened, subVars>>

\* Mutant: the latch must have been taken before it is set again.
TellBlocking(s) ==
    /\ lpc = "telling" /\ s \in telling /\ ~signal[s]
    /\ telling' = telling \ {s}
    /\ signal' = [signal EXCEPT ![s] = TRUE]
    /\ UNCHANGED <<lpc, topic, sink, happened, announced, subscribers, spc, since,
                   seen, runs>>

\* ... set each subscriber's latch (in any order; none of them waits) ...
Tell(s) ==
    /\ lpc = "telling" /\ s \in telling
    /\ telling' = telling \ {s}
    /\ signal' = [signal EXCEPT ![s] = TRUE]
    /\ UNCHANGED <<lpc, topic, sink, happened, announced, subscribers, spc, since,
                   seen, runs>>

\* ... and unlock it.
Told ==
    /\ lpc = "telling" /\ telling = {} /\ lpc' = "serve"
    /\ UNCHANGED <<topic, telling, sink, happened, announced, subVars>>

------------------------------------------------------------------------------
(* A subscriber. *)

Subscribed(s, latch) ==
    /\ spc[s] = "unborn" /\ ~Locked(Topic(s))
    /\ subscribers' = [subscribers EXCEPT ![Topic(s)] = @ \cup {s}]
    /\ signal' = [signal EXCEPT ![s] = latch]
    /\ spc' = [spc EXCEPT ![s] = "spawn"]
    /\ since' = [since EXCEPT ![s] = announced[Topic(s)]]
    /\ seen' = [seen EXCEPT ![s] = announced[Topic(s)]]
    /\ UNCHANGED <<loopVars, runs>>

\* Mutant: a subscription starts out signalled.
SubscribeSignalled(s) == Subscribed(s, TRUE)

\* BroadcastRegistry::subscribe: a fresh latch, pushed under the mutex.
Subscribe(s) == Subscribed(s, FALSE)

\* on_ping and on_reconnect hand the task to the executor.
SpawnTask(s) ==
    /\ spc[s] = "spawn" /\ spc' = [spc EXCEPT ![s] = "wait"]
    /\ UNCHANGED <<loopVars, subscribers, signal, since, seen, runs>>

\* signal.wait() takes the latch, and the callback begins.
BeginCallback(s) ==
    /\ spc[s] = "wait" /\ signal[s]
    /\ signal' = [signal EXCEPT ![s] = FALSE]
    /\ spc' = [spc EXCEPT ![s] = "callback"]
    /\ seen' = [seen EXCEPT ![s] = announced[Topic(s)]]
    /\ runs' = [runs EXCEPT ![s] = @ + 1]
    /\ UNCHANGED <<loopVars, subscribers, since>>

\* Mutant: the latch is cleared before it is waited for again.
ReturnReset(s) ==
    /\ spc[s] = "callback" /\ spc' = [spc EXCEPT ![s] = "wait"]
    /\ signal' = [signal EXCEPT ![s] = FALSE]
    /\ UNCHANGED <<loopVars, subscribers, since, seen, runs>>

Return(s) ==
    /\ spc[s] = "callback" /\ spc' = [spc EXCEPT ![s] = "wait"]
    /\ UNCHANGED <<loopVars, subscribers, signal, since, seen, runs>>

\* A callback may also wait for something that never comes.
Hang(s) ==
    /\ spc[s] = "callback" /\ spc' = [spc EXCEPT ![s] = "hung"]
    /\ UNCHANGED <<loopVars, subscribers, signal, since, seen, runs>>

Next ==
    \/ PingArrives \/ Redial \/ LoopEnds \/ Announce \/ Told
    \/ \E s \in Subs : \/ Tell(s) \/ Subscribe(s) \/ SpawnTask(s)
                       \/ BeginCallback(s) \/ Return(s) \/ Hang(s)

Spec == Init /\ [][Next]_vars

\* The executor polls the loop and the tasks; nothing makes an event happen.
Fairness ==
    /\ WF_vars(Announce \/ Told \/ \E s \in Subs : Tell(s))
    /\ \A s \in Subs : WF_vars(SpawnTask(s) \/ BeginCallback(s) \/ Return(s))

FairSpec == Spec /\ Fairness

------------------------------------------------------------------------------
(* Properties. *)

TypeOK ==
    /\ lpc \in {"serve", "announce", "telling", "stopped"}
    /\ topic \in Topics /\ telling \subseteq Subs /\ sink \in Nat
    /\ \A k \in Topics : happened[k] \in 0 .. MaxEvents(k)
    /\ happened \in [Topics -> Nat] /\ announced \in [Topics -> Nat]
    /\ subscribers \in [Topics -> SUBSET Subs]
    /\ signal \in [Subs -> BOOLEAN]
    /\ spc \in [Subs -> {"unborn", "spawn", "wait", "callback", "hung"}]
    /\ since \in [Subs -> Nat] /\ seen \in [Subs -> Nat] /\ runs \in [Subs -> Nat]

\* Coalescing never loses the last event: if something was announced after a
\* subscriber's last callback began, its latch is set or notify_all is about
\* to set it, whatever the task was doing when it came (sync.rs:198-203
\* against client.rs:736-741 and 761-766).
NoMissedEvent ==
    \A s \in Subs : spc[s] # "unborn" /\ seen[s] < announced[Topic(s)]
                        => signal[s] \/ s \in telling

\* A callback runs at most once per event announced since it subscribed: it
\* "never fires for the initial connection" (client.rs:745-746), nor for an
\* event whose announcement was under way when it subscribed.
NoSpuriousCallback ==
    \A s \in Subs : runs[s] + since[s] <= announced[Topic(s)]

\* When an on_reconnect callback begins, the connection it is told of is
\* already behind the sink: what it sends ("redoing that setup", client.rs:
\* 749) cannot go to the connection that was lost.
ToldAfterSwap == \A s \in ReconnectSubs : spc[s] = "callback" => seen[s] < sink

\* A callback that is slow, or never returns, does not hold up the read loop.
LoopNotHeldUp == lpc \in {"announce", "telling"} ~> lpc = "serve"

==============================================================================
