------------------------------ MODULE Dispatch -------------------------------
(***************************************************************************)
(* Incoming messages of one action and the handlers registered for it:     *)
(* the CALL and SEND arms of handle_frame, Client::on, wait_for and        *)
(* on_notification, and the Chan between the read loop and a handler.      *)
(*                                                                         *)
(* Registration g = 1, 2, ... owns the channel and the handler task g.     *)
(* If oneWay the messages are SENDs (on_notification), otherwise CALLs     *)
(* (on, wait_for); the two have a registry each, of the same shape.        *)
(***************************************************************************)
EXTENDS Naturals, Sequences, Functions

CONSTANTS Kinds,     \* the registrations made: "on" and/or "wait_for"
          MaxCalls,  \* bound: messages received
          MaxRegs    \* bound: registrations made

ASSUME DispatchAssumption ==
    /\ Kinds \subseteq {"on", "wait_for"}
    /\ MaxCalls \in Nat /\ MaxRegs \in Nat

VARIABLES
    registry,  \* the registration under the action's name, 0 for none
    regs,      \* registrations made so far
    kind,      \* the kind of each registration
    queue,     \* ChanInner::queue of each channel
    signal,    \* ChanInner::signal, a one-slot latch
    shut,      \* ChanInner::closed
    tpc,       \* where each registration's task is
    held,      \* the message it is working on, 0 for none
    lpc,       \* where the read loop is in handle_frame
    call,      \* the message it is dispatching, and how many came so far
    target,    \* the channel handle it cloned from the registry
    decodes,   \* does the payload of each message parse?
    oneWay,    \* are the messages SENDs rather than CALLs?
    replies,   \* replies sent to each message
    runs       \* times a callback was given each message

chanVars == <<queue, signal, shut>>
taskVars == <<kind, tpc, held>>
loopVars == <<lpc, call, target, decodes>>
peerVars == <<oneWay, replies, runs>>
vars     == <<registry, regs, chanVars, taskVars, loopVars, peerVars>>

Calls == 1 .. MaxCalls
Regs  == 1 .. MaxRegs

Init ==
    /\ registry = 0 /\ regs = 0
    /\ kind = [g \in Regs |-> "on"]
    /\ queue = [g \in Regs |-> <<>>]
    /\ signal = [g \in Regs |-> FALSE]
    /\ shut = [g \in Regs |-> FALSE]
    /\ tpc = [g \in Regs |-> "unborn"]
    /\ held = [g \in Regs |-> 0]
    /\ lpc = "idle" /\ call = 0 /\ target = 0
    /\ decodes = [c \in Calls |-> TRUE]
    /\ oneWay \in BOOLEAN
    /\ replies = [c \in Calls |-> 0]
    /\ runs = [c \in Calls |-> 0]

\* A registration holds the registry's mutex until it has closed the channel
\* it replaces.
RegistryFree == \A g \in Regs : tpc[g] # "closing"

\* A reply is handed to the transport; whether it arrives is not tracked.
Respond(c) == [replies EXCEPT ![c] = @ + 1]

------------------------------------------------------------------------------
(* The read loop. *)

\* The channel handle is cloned under the mutex and used after it is released.
LookUp ==
    /\ lpc = "idle" /\ call < MaxCalls /\ RegistryFree
    /\ call' = call + 1
    /\ target' = registry
    /\ \E ok \in BOOLEAN : decodes' = [decodes EXCEPT ![call + 1] = ok]
    /\ lpc' = IF registry = 0 THEN "refuse" ELSE "push"
    /\ UNCHANGED <<registry, regs, chanVars, taskVars, peerVars>>

\* NotImplemented for a CALL nobody handles; an unhandled SEND is only logged.
Refuse ==
    /\ lpc = "refuse" /\ lpc' = "idle"
    /\ replies' = IF oneWay THEN replies ELSE Respond(call)
    /\ UNCHANGED <<registry, regs, chanVars, taskVars, call, target, decodes, oneWay,
                   runs>>

\* Chan::send: push under the queue's mutex, then signal.
Push ==
    /\ lpc = "push" /\ lpc' = "signal"
    /\ queue' = [queue EXCEPT ![target] = Append(@, call)]
    /\ UNCHANGED <<registry, regs, signal, shut, taskVars, call, target, decodes, peerVars>>

\* Mutant: the push is not signalled.
SignalNothing ==
    /\ lpc = "signal" /\ lpc' = "idle"
    /\ UNCHANGED <<registry, regs, chanVars, taskVars, call, target, decodes, peerVars>>

Signal ==
    /\ lpc = "signal" /\ lpc' = "idle"
    /\ signal' = [signal EXCEPT ![target] = TRUE]
    /\ UNCHANGED <<registry, regs, queue, shut, taskVars, call, target, decodes, peerVars>>

------------------------------------------------------------------------------
(* Registering, and the handler's task. *)

\* The channel goes into the registry and the one it replaces is closed:
\* Chan::close stores the flag, then signals.
Register(k) ==
    /\ regs < MaxRegs /\ RegistryFree
    /\ oneWay => k = "on"
    /\ regs' = regs + 1 /\ registry' = regs + 1
    /\ kind' = [kind EXCEPT ![regs + 1] = k]
    /\ shut' = [g \in Regs |-> shut[g] \/ g = registry]
    /\ tpc' = [tpc EXCEPT ![regs + 1] = IF registry = 0 THEN "spawn" ELSE "closing"]
    /\ UNCHANGED <<queue, signal, held, loopVars, peerVars>>

\* Mutant: the flag is set but nobody is woken.
CloseQuietly(g) ==
    /\ tpc[g] = "closing" /\ tpc' = [tpc EXCEPT ![g] = "spawn"]
    /\ UNCHANGED <<registry, regs, chanVars, kind, held, loopVars, peerVars>>

\* The registry only ever holds the newest registration, so g replaced g - 1.
CloseSignal(g) ==
    /\ tpc[g] = "closing" /\ tpc' = [tpc EXCEPT ![g] = "spawn"]
    /\ signal' = [signal EXCEPT ![g - 1] = TRUE]
    /\ UNCHANGED <<registry, regs, queue, shut, kind, held, loopVars, peerVars>>

\* `on` spawns the task; wait_for goes on to recv itself.
Spawn(g) ==
    /\ tpc[g] = "spawn" /\ tpc' = [tpc EXCEPT ![g] = "recv"]
    /\ UNCHANGED <<registry, regs, chanVars, kind, held, loopVars, peerVars>>

\* Where a task goes when recv has nothing more for it.
Leave(g) == IF kind[g] = "on" THEN "done" ELSE "remove"

\* Mutant: the message stays in the queue.
RecvPeek(g) ==
    /\ tpc[g] = "recv"
    /\ \/ /\ queue[g] # <<>>
          /\ held' = [held EXCEPT ![g] = Head(queue[g])]
          /\ tpc' = [tpc EXCEPT ![g] = "handle"]
       \/ /\ queue[g] = <<>>
          /\ tpc' = [tpc EXCEPT ![g] = IF shut[g] THEN Leave(g) ELSE "parked"]
          /\ UNCHANGED held
    /\ UNCHANGED <<registry, regs, chanVars, kind, loopVars, peerVars>>

\* Chan::recv under the queue's mutex: drain first, then report closed.
Recv(g) ==
    /\ tpc[g] = "recv"
    /\ \/ /\ queue[g] # <<>>
          /\ held' = [held EXCEPT ![g] = Head(queue[g])]
          /\ queue' = [queue EXCEPT ![g] = Tail(@)]
          /\ tpc' = [tpc EXCEPT ![g] = "handle"]
       \/ /\ queue[g] = <<>>
          /\ tpc' = [tpc EXCEPT ![g] = IF shut[g] THEN Leave(g) ELSE "parked"]
          /\ UNCHANGED <<queue, held>>
    /\ UNCHANGED <<registry, regs, signal, shut, kind, loopVars, peerVars>>

Wake(g) ==
    /\ tpc[g] = "parked" /\ signal[g]
    /\ signal' = [signal EXCEPT ![g] = FALSE]
    /\ tpc' = [tpc EXCEPT ![g] = "recv"]
    /\ UNCHANGED <<registry, regs, queue, shut, kind, held, loopVars, peerVars>>

\* wait_for's deadline; with_timeout polls recv before the timer.
GiveUp(g) ==
    /\ kind[g] = "wait_for" /\ tpc[g] = "parked" /\ ~signal[g]
    /\ tpc' = [tpc EXCEPT ![g] = "remove"]
    /\ UNCHANGED <<registry, regs, chanVars, kind, held, loopVars, peerVars>>

\* A payload that parses goes to the callback, and what it returns to the peer.
\* One that does not is refused by `on`, logged by on_notification, and only
\* reported to its caller by wait_for.
Handle(g) ==
    /\ tpc[g] = "handle"
    /\ LET c == held[g] IN
       /\ runs' = IF decodes[c] THEN [runs EXCEPT ![c] = @ + 1] ELSE runs
       /\ replies' = IF ~oneWay /\ (decodes[c] \/ kind[g] = "on")
                       THEN Respond(c) ELSE replies
    /\ held' = [held EXCEPT ![g] = 0]
    /\ tpc' = [tpc EXCEPT ![g] = IF kind[g] = "on" THEN "recv" ELSE "remove"]
    /\ UNCHANGED <<registry, regs, chanVars, kind, loopVars, oneWay>>

\* Mutant: the action is unbound whoever is registered for it now.
RemoveAny(g) ==
    /\ tpc[g] = "remove" /\ RegistryFree
    /\ registry' = 0
    /\ tpc' = [tpc EXCEPT ![g] = "done"]
    /\ UNCHANGED <<regs, chanVars, kind, held, loopVars, peerVars>>

\* Mutant: wait_for leaves its registration in place.
RemoveNothing(g) ==
    /\ tpc[g] = "remove" /\ RegistryFree
    /\ tpc' = [tpc EXCEPT ![g] = "done"]
    /\ UNCHANGED <<registry, regs, chanVars, kind, held, loopVars, peerVars>>

\* wait_for unbinds the action if it is still bound to its own channel.
Remove(g) ==
    /\ tpc[g] = "remove" /\ RegistryFree
    /\ registry' = IF registry = g THEN 0 ELSE registry
    /\ tpc' = [tpc EXCEPT ![g] = "done"]
    /\ UNCHANGED <<regs, chanVars, kind, held, loopVars, peerVars>>

\* The future of wait_for is dropped at an await: in recv, in the callback or at
\* the registry's mutex.  Nothing after it runs, and the registration stays.
DropWait(g) ==
    /\ kind[g] = "wait_for" /\ tpc[g] \in {"recv", "parked", "handle", "remove"}
    /\ tpc[g] = "handle" => decodes[held[g]]
    /\ runs' = IF tpc[g] = "handle" THEN [runs EXCEPT ![held[g]] = @ + 1] ELSE runs
    /\ tpc' = [tpc EXCEPT ![g] = "dropped"]
    /\ UNCHANGED <<registry, regs, chanVars, kind, held, loopVars, oneWay, replies>>

\* What follows the look-up.  The SEND arm takes the same steps as the CALL arm.
Dispatching == Refuse \/ Push \/ Signal

\* The tasks of `on` and of on_notification, and wait_for, take the same steps.
TaskStep(g) ==
    \/ CloseSignal(g) \/ Spawn(g) \/ Recv(g) \/ Wake(g)
    \/ GiveUp(g) \/ Handle(g) \/ Remove(g)

Next ==
    \/ LookUp \/ Dispatching
    \/ \E k \in Kinds : Register(k)
    \/ \E g \in Regs : TaskStep(g) \/ DropWait(g)

Spec == Init /\ [][Next]_vars

\* The read loop and the tasks are polled, and callbacks return.
FairSpec ==
    /\ Spec
    /\ WF_vars(Dispatching)
    /\ \A g \in Regs : WF_vars(TaskStep(g))

------------------------------------------------------------------------------
(* Properties. *)

TypeOK ==
    /\ registry \in 0 .. MaxRegs /\ regs \in 0 .. MaxRegs
    /\ kind \in [Regs -> {"on", "wait_for"}]
    /\ queue \in [Regs -> Seq(Calls)]
    /\ signal \in [Regs -> BOOLEAN] /\ shut \in [Regs -> BOOLEAN]
    /\ tpc \in [Regs -> {"unborn", "closing", "spawn", "recv", "parked", "handle",
                         "remove", "done", "dropped"}]
    /\ held \in [Regs -> 0 .. MaxCalls]
    /\ lpc \in {"idle", "refuse", "push", "signal"}
    /\ call \in 0 .. MaxCalls /\ target \in 0 .. MaxRegs
    /\ lpc \in {"push", "signal"} => target # 0
    /\ decodes \in [Calls -> BOOLEAN]
    /\ oneWay \in BOOLEAN /\ replies \in [Calls -> Nat] /\ runs \in [Calls -> Nat]

Over(g) == tpc[g] \in {"done", "dropped"}

\* No message is answered, or handed to a callback, twice, however handlers are
\* replaced while it is dispatched.
AtMostOnce == \A c \in Calls : replies[c] <= 1 /\ runs[c] <= 1

\* "The spec forbids the receiver from ever replying to a SEND" (client.rs:559).
SendsGetNoReply == oneWay => \A c \in Calls : replies[c] = 0

\* The check-queue-then-wait loop is race-free (sync.rs:98-101): a parked task
\* whose channel holds a message, or is closed, has been or is being signalled.
NoLostWakeup ==
    \A g \in Regs : tpc[g] = "parked" /\ (queue[g] # <<>> \/ shut[g])
        => \/ signal[g]
           \/ lpc = "signal" /\ target = g
           \/ g < MaxRegs /\ tpc[g + 1] = "closing"

\* The action is never left bound to a channel whose reader has ended or which has
\* been closed (client.rs:473-475, 504-507); only a wait_for whose future was
\* dropped leaves its registration behind.
BoundToReader == registry # 0 => tpc[registry] # "done" /\ ~shut[registry]

\* Only the wait_for that made a registration removes it, on its way out; everyone
\* else's stays (client.rs:545-546).
OnlyOwnerUnbinds ==
    [][registry # 0 /\ registry' = 0
         => tpc[registry] = "remove" /\ tpc'[registry] = "done"]_vars

\* A handler that was replaced ends: no task is leaked per re-registration
\* (client.rs:473-475).
RetiredTasksEnd == \A g \in Regs : shut[g] ~> Over(g)

\* Every CALL gets a reply, unless it was left behind by a task that has ended, in
\* its channel or in its hands, or a wait_for could not parse it and reported that
\* to its caller instead.
EveryCallAnswered ==
    \A c \in Calls : call = c /\ ~oneWay
        ~> \/ replies[c] = 1
           \/ \E g \in Regs : Over(g) /\ (c \in Range(queue[g]) \/ c = held[g])
           \/ ~decodes[c] /\ \E g \in Regs : kind[g] = "wait_for" /\ Over(g)

------------------------------------------------------------------------------
(* What a comment in the source says and the code does not do. *)

\* "A retired handler still answers the calls that were already dispatched to it,
\* rather than leaving the peer without a reply" (sync.rs:103-104): no CALL is left
\* in the channel of a task that has ended.
NothingStranded == ~oneWay => \A g \in Regs : tpc[g] = "done" => queue[g] = <<>>

==============================================================================
