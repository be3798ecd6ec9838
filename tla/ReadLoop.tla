------------------------------ MODULE ReadLoop -------------------------------
(***************************************************************************)
(* The background read loop of Client::from_transport_with_config, with    *)
(* the tasks it races: disconnect(), force_reconnect() (called by the      *)
(* application or by keepalive), the writers that share the sink mutex     *)
(* with it, and the network.                                               *)
(*                                                                         *)
(* A step is what a task does between two points where another task can    *)
(* run: an await, or an atomic access another thread can come between.     *)
(* An embassy Signal is one latch: notify sets it, wait takes it.          *)
(***************************************************************************)
EXTENDS Naturals

CONSTANTS Writers,       \* tasks that each write one frame through the sink
          MaxConn,       \* bound: connections, numbered 1..MaxConn
          MaxAttempt,    \* where the attempt counter saturates (u32::MAX)
          MaxEvents,     \* bound: inbound events in one behaviour
          MaxForce       \* bound: force_reconnect() calls in one behaviour

ASSUME ReadLoopAssumption ==
    /\ MaxConn \in Nat \ {0}
    /\ MaxAttempt \in Nat \ {0}
    /\ MaxEvents \in Nat
    /\ MaxForce \in Nat
    /\ Writers \cap {"nobody", "loop", "disconnect"} = {}

VARIABLES
    reconnector, \* is a reconnector configured?  Fixed when the client is built
    closed,      \* Client::closed, the sticky shutdown flag
    force,       \* the latch behind Client::force_reconnect
    pc,          \* where the read loop is
    reason,      \* LoopExit of the connection being left
    attempt,     \* backoff step of the next dial
    stream,      \* connection the loop reads
    sink,        \* connection behind the shared sink
    owner,       \* holder of the sink mutex
    held,        \* connection the holder found behind the sink
    link,        \* state of each connection
    shut,        \* connections whose sink was closed by this client
    inbox,       \* event ready on the stream: "none", "quiet" or "reply"
    writer,      \* where each writer is
    dpc,         \* where disconnect() is
    fpc,         \* where force_reconnect() is
    events,      \* inbound events so far (bound)
    forces,      \* force_reconnect() calls so far (bound)
    silent,      \* history: dials begun since anything was last received
    waited,      \* history: backoff step of the wait before this dial
    asked,       \* history: connections force_reconnect() was called on
    forced       \* history: connections given up by force

loopVars == <<pc, reason, attempt, stream>>
sinkVars == <<sink, owner, held>>
netVars  == <<link, shut, inbox, events>>
userVars == <<closed, writer, dpc, fpc, forces, asked>>
dialVars == <<reconnector, silent, waited, forced>>
vars     == <<loopVars, sinkVars, netVars, userVars, dialVars, force>>

Conns == 1..MaxConn

\* Control points of the loop while it serves a connection, and while it
\* replaces one.
Serving   == {"recv", "parked", "woken", "replyLock", "reply", "exit",
              "announce"}
Redialling == {"delay", "backoff", "backoffWoken", "gate", "dial", "swap"}

Replacing == {"closeLock", "closing", "clear"} \cup Redialling

Goto(from, to) == pc = from /\ pc' = to

\* Taking and releasing the sink mutex.
Lock(t)   == owner = "nobody" /\ owner' = t /\ held' = sink /\ UNCHANGED sink
Unlock(t) == owner = t /\ owner' = "nobody" /\ UNCHANGED <<sink, held>>

\* A write or close on the connection behind the sink returns, with a result
\* or an error, unless the link is stuck: the peer is gone, the socket does
\* not know it, and the send buffer is full.
WriteReturns == link[sink] # "stuck"

Init ==
    /\ reconnector \in BOOLEAN
    /\ closed = FALSE /\ force = FALSE
    /\ pc = "recv" /\ reason = "Eof" /\ attempt = 0
    /\ stream = 1 /\ sink = 1 /\ owner = "nobody" /\ held = 1
    /\ link = [c \in Conns |-> IF c = 1 THEN "open" ELSE "unborn"]
    /\ shut = {} /\ inbox = "none" /\ events = 0
    /\ writer = [w \in Writers |-> "idle"]
    /\ dpc = "idle" /\ fpc = "idle" /\ forces = 0
    /\ silent = 0 /\ waited = 0 /\ asked = {} /\ forced = 0

------------------------------------------------------------------------------
(* Reading the current connection. *)

\* with_cancel polls recv first: only a recv that is not ready lets the wake
\* signal be looked at.
PollPending ==
    /\ Goto("recv", "parked")
    /\ inbox = "none" /\ link[stream] # "ended"
    /\ UNCHANGED <<reason, attempt, stream, sinkVars, netVars, userVars,
                   dialVars, force>>

\* Any inbound event resets the backoff.  A ping, and a CALL nobody handles,
\* are answered through the sink before the loop reads on.
RecvEvent ==
    /\ pc \in {"recv", "parked"}
    /\ inbox # "none"
    /\ inbox' = "none"
    /\ attempt' = 0
    /\ silent' = 0
    /\ pc' = IF inbox = "reply" THEN "replyLock" ELSE "recv"
    /\ UNCHANGED <<reason, stream, sinkVars, link, shut, events, userVars,
                   reconnector, waited, forced, force>>

ReplyLock ==
    /\ Goto("replyLock", "reply")
    /\ Lock("loop")
    /\ UNCHANGED <<reason, attempt, stream, netVars, userVars, dialVars, force>>

Reply ==
    /\ Goto("reply", "recv")
    /\ WriteReturns
    /\ Unlock("loop")
    /\ UNCHANGED <<reason, attempt, stream, netVars, userVars, dialVars, force>>

\* recv returned Ok(None) or Err.
RecvEnd ==
    /\ pc \in {"recv", "parked"}
    /\ inbox = "none" /\ link[stream] = "ended"
    /\ pc' = "exit" /\ reason' = "Eof"
    /\ UNCHANGED <<attempt, stream, sinkVars, netVars, userVars, dialVars, force>>

\* Mutant: the wake signal is looked at and stays set.
TakeWakeKept ==
    /\ Goto("parked", "woken")
    /\ force /\ force' = force
    /\ UNCHANGED <<reason, attempt, stream, sinkVars, netVars, userVars, dialVars>>

\* The wake signal is taken; closed is read in a later step.
TakeWake ==
    /\ Goto("parked", "woken")
    /\ force /\ force' = FALSE
    /\ UNCHANGED <<reason, attempt, stream, sinkVars, netVars, userVars, dialVars>>

CountForced == forced' = IF pc' = "exit" /\ reason' = "Forced" THEN forced + 1 ELSE forced

\* Mutant: a forced wake ends the loop even with nothing to redial with.
WokenAlwaysHonoured ==
    /\ pc = "woken"
    /\ pc' = "exit"
    /\ reason' = IF closed THEN "Shutdown" ELSE "Forced"
    /\ CountForced
    /\ UNCHANGED <<attempt, stream, sinkVars, netVars, userVars, reconnector, silent,
                   waited, force>>

\* Mutant: only a shutdown is acted on.
WokenForShutdownOnly ==
    /\ pc = "woken"
    /\ \/ closed /\ pc' = "exit" /\ reason' = "Shutdown"
       \/ ~closed /\ pc' = "recv" /\ UNCHANGED reason
    /\ CountForced
    /\ UNCHANGED <<attempt, stream, sinkVars, netVars, userVars, reconnector, silent,
                   waited, force>>

Woken ==
    /\ pc = "woken"
    /\ \/ closed /\ pc' = "exit" /\ reason' = "Shutdown"
       \/ ~closed /\ reconnector /\ pc' = "exit" /\ reason' = "Forced"
       \/ ~closed /\ ~reconnector /\ pc' = "recv" /\ UNCHANGED reason
    /\ CountForced
    /\ UNCHANGED <<attempt, stream, sinkVars, netVars, userVars, reconnector, silent,
                   waited, force>>

------------------------------------------------------------------------------
(* Leaving it. *)

\* Mutant: the flag is not consulted when the stream just ended.
ExitOnReasonOnly ==
    /\ pc = "exit"
    /\ pc' = CASE reason = "Shutdown" -> "stopped"
               [] reason # "Shutdown" /\ ~reconnector -> "stopped"
               [] reason = "Forced" /\ reconnector -> "closeLock"
               [] OTHER -> "clear"
    /\ UNCHANGED <<reason, attempt, stream, sinkVars, netVars, userVars,
                   dialVars, force>>

Exit ==
    /\ pc = "exit"
    /\ pc' = CASE reason = "Shutdown" \/ closed -> "stopped"
               [] ~(reason = "Shutdown" \/ closed) /\ ~reconnector -> "stopped"
               [] ~closed /\ reconnector /\ reason = "Forced" -> "closeLock"
               [] OTHER -> "clear"
    /\ UNCHANGED <<reason, attempt, stream, sinkVars, netVars, userVars,
                   dialVars, force>>

\* The courtesy close: the mutex is awaited without a bound ...
CloseLock ==
    /\ Goto("closeLock", "closing")
    /\ Lock("loop")
    /\ UNCHANGED <<reason, attempt, stream, netVars, userVars, dialVars, force>>

\* ... the close itself is bounded by the client's timeout.
CloseDone ==
    /\ Goto("closing", "clear")
    /\ \/ WriteReturns /\ shut' = shut \cup {sink}
       \/ UNCHANGED shut
    /\ Unlock("loop")
    /\ UNCHANGED <<reason, attempt, stream, link, inbox, events, userVars,
                   dialVars, force>>

\* pong_waiters.clear().
ClearWaiters ==
    /\ Goto("clear", "delay")
    /\ UNCHANGED <<reason, attempt, stream, sinkVars, netVars, userVars,
                   dialVars, force>>

------------------------------------------------------------------------------
(* Redialling. *)

\* Mutant: every connection starts its backoff from scratch.
StartDelayReset ==
    /\ Goto("delay", "backoff")
    /\ waited' = 0
    /\ attempt' = 1
    /\ UNCHANGED <<reason, stream, sinkVars, netVars, userVars, reconnector,
                   silent, forced, force>>

StartDelay ==
    /\ Goto("delay", "backoff")
    /\ waited' = attempt
    /\ attempt' = IF attempt < MaxAttempt THEN attempt + 1 ELSE attempt
    /\ UNCHANGED <<reason, stream, sinkVars, netVars, userVars, reconnector,
                   silent, forced, force>>

\* with_cancel polls the delay first, so an elapsed delay leaves the latch.
Elapse ==
    /\ Goto("backoff", "gate")
    /\ UNCHANGED <<reason, attempt, stream, sinkVars, netVars, userVars,
                   dialVars, force>>

BackoffWake ==
    /\ Goto("backoff", "backoffWoken")
    /\ force /\ force' = FALSE
    /\ UNCHANGED <<reason, attempt, stream, sinkVars, netVars, userVars, dialVars>>

BackoffWoken ==
    /\ pc = "backoffWoken"
    /\ pc' = IF closed THEN "stopped" ELSE "gate"
    /\ UNCHANGED <<reason, attempt, stream, sinkVars, netVars, userVars,
                   dialVars, force>>

\* The last look at closed before reconnector.connect().
Gate ==
    /\ pc = "gate"
    /\ pc' = IF closed THEN "stopped" ELSE "dial"
    /\ silent' = IF closed \/ silent = MaxAttempt THEN silent ELSE silent + 1
    /\ UNCHANGED <<reason, attempt, stream, sinkVars, netVars, userVars,
                   reconnector, waited, forced, force>>

DialOk ==
    /\ Goto("dial", "swap")
    /\ stream < MaxConn
    /\ link' = [link EXCEPT ![stream + 1] = "open"]
    /\ UNCHANGED <<reason, attempt, stream, sinkVars, shut, inbox, events,
                   userVars, dialVars, force>>

DialErr ==
    /\ Goto("dial", "delay")
    /\ UNCHANGED <<reason, attempt, stream, sinkVars, netVars, userVars,
                   dialVars, force>>

\* Mutant: the new sink is installed under a writer's feet.
SwapUnlocked ==
    /\ Goto("swap", "announce")
    /\ sink' = stream + 1 /\ stream' = stream + 1
    /\ inbox' = "none"
    /\ UNCHANGED <<reason, attempt, owner, held, link, shut, events, userVars,
                   dialVars, force>>

\* Both halves are replaced under the sink mutex; closed is not read again.
Swap ==
    /\ Goto("swap", "announce")
    /\ owner = "nobody"
    /\ sink' = stream + 1 /\ stream' = stream + 1
    /\ inbox' = "none"
    /\ UNCHANGED <<reason, attempt, owner, held, link, shut, events, userVars,
                   dialVars, force>>

\* reconnect_registry.notify_all(), then the next round of 'connection.
Announce ==
    /\ Goto("announce", "recv")
    /\ reason' = "Eof"
    /\ UNCHANGED <<attempt, stream, sinkVars, netVars, userVars, dialVars, force>>

Loop ==
    \/ PollPending \/ RecvEvent \/ ReplyLock \/ Reply \/ RecvEnd
    \/ TakeWake \/ Woken \/ Exit \/ CloseLock \/ CloseDone \/ ClearWaiters
    \/ StartDelay \/ Elapse \/ BackoffWake \/ BackoffWoken \/ Gate
    \/ DialOk \/ DialErr \/ Swap \/ Announce

------------------------------------------------------------------------------
(* Everybody else. *)

\* A task that sends a frame or a ping: do_send_request, do_send_response,
\* send_notification, send_ping_with_timeout.
WriterLock(w) ==
    /\ writer[w] = "idle"
    /\ Lock(w)
    /\ writer' = [writer EXCEPT ![w] = "writing"]
    /\ UNCHANGED <<loopVars, netVars, closed, dpc, fpc, forces, asked, dialVars,
                   force>>

WriterDone(w) ==
    /\ writer[w] = "writing"
    /\ WriteReturns
    /\ Unlock(w)
    /\ writer' = [writer EXCEPT ![w] = "done"]
    /\ UNCHANGED <<loopVars, netVars, closed, dpc, fpc, forces, asked, dialVars,
                   force>>

\* force_reconnect(): closed is checked, then the latch is set.
ForceCheck ==
    /\ fpc = "idle" /\ ~closed /\ forces < MaxForce
    /\ fpc' = "checked" /\ forces' = forces + 1
    /\ UNCHANGED <<loopVars, sinkVars, netVars, closed, writer, dpc, asked,
                   dialVars, force>>

ForceNotify ==
    /\ fpc = "checked"
    /\ fpc' = "idle" /\ force' = TRUE
    /\ asked' = asked \cup {sink}
    /\ UNCHANGED <<loopVars, sinkVars, netVars, closed, writer, dpc, forces,
                   dialVars>>

\* disconnect(): the flag first, then both wake signals, then the close.
DisconnectFlag ==
    /\ dpc = "idle"
    /\ closed' = TRUE /\ dpc' = "flagged"
    /\ UNCHANGED <<loopVars, sinkVars, netVars, writer, fpc, forces, asked,
                   dialVars, force>>

\* Mutant: the loops are told through keepalive.changed only.
DisconnectSilent ==
    /\ dpc = "flagged"
    /\ dpc' = "wokeLoop"
    /\ UNCHANGED <<loopVars, sinkVars, netVars, closed, writer, fpc, forces,
                   asked, dialVars, force>>

DisconnectWakeLoop ==
    /\ dpc = "flagged"
    /\ force' = TRUE /\ dpc' = "wokeLoop"
    /\ UNCHANGED <<loopVars, sinkVars, netVars, closed, writer, fpc, forces,
                   asked, dialVars>>

DisconnectWakeKeepalive ==
    /\ dpc = "wokeLoop"
    /\ dpc' = "wokeBoth"
    /\ UNCHANGED <<loopVars, sinkVars, netVars, closed, writer, fpc, forces,
                   asked, dialVars, force>>

DisconnectLock ==
    /\ dpc = "wokeBoth"
    /\ Lock("disconnect")
    /\ dpc' = "closing"
    /\ UNCHANGED <<loopVars, netVars, closed, writer, fpc, forces, asked,
                   dialVars, force>>

DisconnectClose ==
    /\ dpc = "closing"
    /\ WriteReturns
    /\ shut' = shut \cup {sink}
    /\ Unlock("disconnect")
    /\ dpc' = "returned"
    /\ UNCHANGED <<loopVars, link, inbox, events, closed, writer, fpc, forces,
                   asked, dialVars, force>>

Disconnecting == \/ DisconnectFlag \/ DisconnectWakeLoop
                 \/ DisconnectWakeKeepalive \/ DisconnectLock \/ DisconnectClose

\* The network: an event reaches the stream, a link goes silent, a link ends
\* (the peer closes it, or the operating system gives up on it).
Arrive(e) ==
    /\ inbox = "none" /\ link[stream] = "open" /\ events < MaxEvents
    /\ pc # "stopped"
    /\ inbox' = e /\ events' = events + 1
    /\ UNCHANGED <<loopVars, sinkVars, link, shut, userVars, dialVars, force>>

LinkSticks(c) ==
    /\ link[c] = "open"
    /\ link' = [link EXCEPT ![c] = "stuck"]
    /\ UNCHANGED <<loopVars, sinkVars, shut, inbox, events, userVars, dialVars,
                   force>>

LinkEnds(c) ==
    /\ link[c] \in {"open", "stuck"}
    /\ link' = [link EXCEPT ![c] = "ended"]
    /\ UNCHANGED <<loopVars, sinkVars, shut, inbox, events, userVars, dialVars,
                   force>>

Network ==
    \/ \E e \in {"quiet", "reply"} : Arrive(e)
    \/ \E c \in Conns : LinkSticks(c) \/ LinkEnds(c)

Next ==
    \/ Loop
    \/ \E w \in Writers : WriterLock(w) \/ WriterDone(w)
    \/ ForceCheck \/ ForceNotify
    \/ Disconnecting
    \/ Network

Spec == Init /\ [][Next]_vars

\* The executor polls every task that can run; timers elapse; connect()
\* returns; a writer that was started writes.  Nothing makes the peer send,
\* the application call in, or a link change.
TaskFairness ==
    /\ WF_vars(Loop)
    /\ \A w \in Writers : WF_vars(WriterDone(w))
    /\ WF_vars(ForceNotify)
    /\ WF_vars(DisconnectWakeLoop \/ DisconnectWakeKeepalive
                 \/ DisconnectLock \/ DisconnectClose)

\* The operating system eventually errors a connection that is stuck.
OsTimeout == \A c \in Conns : WF_vars(link[c] = "stuck" /\ LinkEnds(c))

FairSpec == Spec /\ TaskFairness /\ OsTimeout

------------------------------------------------------------------------------
(* Properties. *)

TypeOK ==
    /\ reconnector \in BOOLEAN /\ closed \in BOOLEAN /\ force \in BOOLEAN
    /\ pc \in Serving \cup Replacing \cup {"stopped"}
    /\ reason \in {"Eof", "Forced", "Shutdown"}
    /\ attempt \in 0..MaxAttempt
    /\ stream \in Conns /\ sink \in Conns /\ held \in Conns
    /\ owner \in Writers \cup {"nobody", "loop", "disconnect"}
    /\ link \in [Conns -> {"unborn", "open", "stuck", "ended"}]
    /\ shut \subseteq Conns /\ asked \subseteq Conns
    /\ inbox \in {"none", "quiet", "reply"}
    /\ writer \in [Writers -> {"idle", "writing", "done"}]
    /\ dpc \in {"idle", "flagged", "wokeLoop", "wokeBoth", "closing", "returned"}
    /\ fpc \in {"idle", "checked"}
    /\ events \in 0..MaxEvents /\ forces \in 0..MaxForce
    /\ silent \in 0..MaxAttempt /\ waited \in 0..MaxAttempt /\ forced \in Nat

\* Once disconnect() has sent its wake-up, the loop is never left waiting on
\* something only the peer or a timer could end without that wake-up still
\* pending: no interleaving of a force_reconnect(), a redial and the shutdown
\* loses it (client.rs:789-800 against 295-311 and 400-411).
NoLostShutdown ==
    dpc \notin {"idle", "flagged"} /\ ~force
        => pc \in {"woken", "backoffWoken", "exit", "stopped"}

\* Whoever holds the sink mutex writes to the connection it found there: the
\* loop never swaps the sink under a write in progress (client.rs:415).
SinkStaysPut == owner # "nobody" => held = sink

\* The wait before a dial is the one for the number of dials made since the
\* peer was last heard from, however many of them succeeded: a peer that
\* accepts and hangs up at once does not get a hot loop (client.rs:281-286,
\* 318-322, 390-393).
BackoffCountsSilentDials ==
    pc \in {"backoff", "backoffWoken", "gate"} => waited = silent

\* The loop implements the connection lifecycle the client promises: it ends
\* only on a shutdown, or at the end of a transport it cannot replace, and a
\* shutdown is never answered with a redial of a connection lost after it.
Phase == CASE pc \in Serving   -> "connected"
           [] pc \in Replacing -> "redialling"
           [] OTHER            -> "stopped"

LC == INSTANCE Lifecycle WITH phase <- Phase

RefinesLifecycle == LC!Spec

\* Without a reconnector a forced reconnect never makes the client deaf: the
\* loop goes on reading until the transport ends or disconnect() is called
\* (client.rs:273-278, 304-309).
NeverDeaf == pc = "stopped" => closed \/ (~reconnector /\ link[stream] = "ended")

\* Every call of force_reconnect() costs at most one connection, although a wake
\* that comes while the loop is already replacing one stays latched and ends the
\* next (client.rs:295-311, 400-411).
OneForceOneConnection == forced <= forces

\* disconnect() ends the read loop, wherever it was when it was called.
ShutdownStops == closed ~> pc = "stopped"

\* A force_reconnect() on the connection being read makes the loop give it up and
\* go on to its redial: neither a silent peer nor a writer stuck with the sink's
\* mutex holds it for good (client.rs:295-311, 379-388).
ForceTakesEffect ==
    \A c \in Conns :
        (reconnector /\ force /\ stream = c /\ c \in asked)
            ~> (stream # c \/ pc \in Redialling \cup {"stopped"})

------------------------------------------------------------------------------
(* What a comment in the source says and the code does not do. *)

\* "Shut this client down for good: close the transport ... and do not
\* redial" (client.rs:769-770): when disconnect() has returned and the loop
\* has ended, no connection is left open behind the sink.
DisconnectClosesTransport ==
    dpc = "returned" /\ pc = "stopped" => sink \in shut \/ link[sink] = "ended"

==============================================================================
