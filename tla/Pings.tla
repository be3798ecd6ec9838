-------------------------------- MODULE Pings --------------------------------
(***************************************************************************)
(* Pings and pongs: Client::send_ping_with_timeout on the pinger's side,   *)
(* the Pong arm of the read loop, and the table of pong waiters, which the *)
(* read loop empties between losing one connection and installing the      *)
(* next (client.rs:341-416, 623-665).                                      *)
(***************************************************************************)
EXTENDS Naturals, FiniteSets

CONSTANTS Pingers,      \* tasks that call send_ping
          MaxPings,     \* bound: pings in a behaviour; the code's tokens are u64
          MaxConn       \* bound: connections in a behaviour

ASSUME PingsAssumption ==
    /\ IsFiniteSet(Pingers)
    /\ MaxPings \in Nat
    /\ MaxConn \in Nat \ {0}

VARIABLES
    closed,     \* Client::closed
    ppc,        \* where each pinger is in send_ping_with_timeout
    token,      \* the token of its latest ping
    result,     \* what its latest ping returned
    next_token, \* PongState::next_token
    waiters,    \* keys of PongState::waiters
    slot,       \* which tokens' OneShot has been sent to
    reconnector, \* was the client built with a reconnector?
    lpc,        \* the read loop: up, lost, cleared or stopped
    conn,       \* the connection behind the shared sink
    pinged,     \* the connection each ping was written to, 0 before
    registered, \* history: the connection whose table its waiter was registered in
    echoed,     \* history: pings whose pong the read loop has handled
    dropped     \* history: pings whose future was dropped

pingerVars == <<ppc, token, result>>
tableVars  == <<next_token, waiters, slot>>
linkVars   == <<reconnector, lpc, conn>>
peerVars   == <<pinged, registered, echoed, dropped>>
pingVars   == <<closed, pingerVars, tableVars, linkVars, peerVars>>

Tokens == 0 .. MaxPings - 1

PingInit ==
    /\ closed = FALSE
    /\ ppc = [p \in Pingers |-> "idle"]
    /\ token = [p \in Pingers |-> MaxPings]
    /\ result = [p \in Pingers |-> "none"]
    /\ next_token = 0 /\ waiters = {}
    /\ slot = [t \in Tokens |-> FALSE]
    /\ reconnector \in BOOLEAN /\ lpc = "up" /\ conn = 1
    /\ pinged = [t \in Tokens |-> 0] /\ registered = [t \in Tokens |-> 0]
    /\ echoed = {} /\ dropped = {}

------------------------------------------------------------------------------
(* A pinger. *)

PingGoto(p, at) == ppc' = [ppc EXCEPT ![p] = at]

\* The sink's mutex is held from handing over a frame until the write returns.
SinkFree == \A p \in Pingers : ppc[p] # "writing"

PingReturns(p, r) ==
    /\ PingGoto(p, "idle")
    /\ result' = [result EXCEPT ![p] = r]
    /\ UNCHANGED token

\* The bound on pings: one that starts will find a token.
PingsLeft ==
    next_token + Cardinality({p \in Pingers : ppc[p] = "register"}) < MaxPings

Ping(p) ==
    /\ ppc[p] = "idle"
    /\ \/ closed /\ PingReturns(p, "closed")
       \/ ~closed /\ PingsLeft /\ PingGoto(p, "register") /\ UNCHANGED <<token, result>>
    /\ UNCHANGED <<closed, tableVars, linkVars, peerVars>>

\* The table is emptied between two connections; from then on what is entered is
\* for the next.
TableOf == IF lpc = "cleared" THEN conn + 1 ELSE conn

\* Token and waiter are taken under one hold of the table's mutex.
RegisterPing(p) ==
    /\ ppc[p] = "register"
    /\ token' = [token EXCEPT ![p] = next_token]
    /\ next_token' = next_token + 1
    /\ waiters' = waiters \cup {next_token}
    /\ registered' = [registered EXCEPT ![next_token] = TableOf]
    /\ PingGoto(p, "write")
    /\ UNCHANGED <<closed, result, slot, linkVars, pinged, echoed, dropped>>

\* The ping goes to whatever connection is behind the shared sink now.
WritePing(p) ==
    /\ ppc[p] = "write" /\ SinkFree
    /\ pinged' = [pinged EXCEPT ![token[p]] = conn]
    /\ PingGoto(p, "writing")
    /\ UNCHANGED <<closed, token, result, tableVars, linkVars, registered, echoed, dropped>>

WriteReturns(p) ==
    /\ ppc[p] = "writing"
    /\ PingGoto(p, "await") \/ PingGoto(p, "failed")
    /\ UNCHANGED <<closed, token, result, tableVars, linkVars, peerVars>>

TakePong(p) ==
    /\ ppc[p] = "await"
    /\ slot[token[p]]
    /\ PingReturns(p, "ok")
    /\ UNCHANGED <<closed, tableVars, linkVars, peerVars>>

\* with_timeout polls the waiter before the timer.
PongTimeout(p) ==
    /\ ppc[p] = "await"
    /\ ~slot[token[p]]
    /\ PingGoto(p, "expired")
    /\ UNCHANGED <<closed, token, result, tableVars, linkVars, peerVars>>

\* Mutant: a ping that failed leaves its waiter behind.
AbandonPing(p) ==
    /\ ppc[p] \in {"failed", "expired"}
    /\ PingReturns(p, IF ppc[p] = "failed" THEN "transport" ELSE "timeout")
    /\ UNCHANGED <<closed, tableVars, linkVars, peerVars>>

ForgetPing(p) ==
    /\ ppc[p] \in {"failed", "expired"}
    /\ waiters' = waiters \ {token[p]}
    /\ PingReturns(p, IF ppc[p] = "failed" THEN "transport" ELSE "timeout")
    /\ UNCHANGED <<closed, next_token, slot, linkVars, peerVars>>

\* The future of send_ping is dropped at an await; none of the code after it runs.
DropPing(p) ==
    /\ ppc[p] # "idle"
    /\ dropped' = IF ppc[p] = "register" THEN dropped ELSE dropped \cup {token[p]}
    /\ PingReturns(p, "dropped")
    /\ UNCHANGED <<closed, tableVars, linkVars, pinged, registered, echoed>>

InPing(p) ==
    \/ RegisterPing(p) \/ WritePing(p) \/ WriteReturns(p)
    \/ TakePong(p) \/ PongTimeout(p) \/ ForgetPing(p)

------------------------------------------------------------------------------
(* The read loop and the peer. *)

\* Mutant: the pong resolves the oldest outstanding ping, not its own.
HandlePongInOrder(t) ==
    /\ lpc = "up" /\ pinged[t] = conn
    /\ echoed' = echoed \cup {t}
    /\ IF waiters # {}
         THEN LET oldest == CHOOSE w \in waiters : \A v \in waiters : w <= v IN
              waiters' = waiters \ {oldest} /\ slot' = [slot EXCEPT ![oldest] = TRUE]
         ELSE UNCHANGED <<waiters, slot>>
    /\ UNCHANGED <<closed, next_token, pingerVars, linkVars, pinged, registered, dropped>>

\* The peer echoes a ping it got on this connection, however late and however
\* often, and the read loop looks the token up.
HandlePong(t) ==
    /\ lpc = "up" /\ pinged[t] = conn
    /\ echoed' = echoed \cup {t}
    /\ IF t \in waiters
         THEN waiters' = waiters \ {t} /\ slot' = [slot EXCEPT ![t] = TRUE]
         ELSE UNCHANGED <<waiters, slot>>
    /\ UNCHANGED <<closed, next_token, pingerVars, linkVars, pinged, registered, dropped>>

\* The inner loop breaks: end of stream, a forced redial or a shutdown.
LoseLink ==
    /\ lpc = "up" /\ lpc' = "lost"
    /\ UNCHANGED <<closed, pingerVars, tableVars, reconnector, conn, peerVars>>

StopLoop ==
    /\ lpc = "lost" /\ closed
    /\ lpc' = "stopped" /\ waiters' = {}
    /\ UNCHANGED <<closed, pingerVars, next_token, slot, reconnector, conn, peerVars>>

EndLoop ==
    /\ lpc = "lost" /\ ~closed /\ ~reconnector
    /\ lpc' = "stopped"
    /\ UNCHANGED <<closed, pingerVars, tableVars, reconnector, conn, peerVars>>

ClearWaiters ==
    /\ lpc = "lost" /\ ~closed /\ reconnector
    /\ lpc' = "cleared" /\ waiters' = {}
    /\ UNCHANGED <<closed, pingerVars, next_token, slot, reconnector, conn, peerVars>>

SwapSink ==
    /\ lpc = "cleared" /\ conn < MaxConn /\ SinkFree
    /\ conn' = conn + 1 /\ lpc' = "up"
    /\ UNCHANGED <<closed, pingerVars, tableVars, reconnector, peerVars>>

AbandonRedial ==
    /\ lpc = "cleared" /\ closed /\ lpc' = "stopped"
    /\ UNCHANGED <<closed, pingerVars, tableVars, reconnector, conn, peerVars>>

SetClosed ==
    /\ ~closed /\ closed' = TRUE
    /\ UNCHANGED <<pingerVars, tableVars, linkVars, peerVars>>

\* Every step of the loop but SwapSink, which Keepalive extends.
LoopStep == LoseLink \/ StopLoop \/ EndLoop \/ ClearWaiters \/ AbandonRedial

PingNext ==
    \/ \E p \in Pingers : Ping(p) \/ InPing(p) \/ DropPing(p)
    \/ \E t \in Tokens : HandlePong(t)
    \/ LoopStep \/ SwapSink \/ SetClosed

PingSpec == PingInit /\ [][PingNext]_pingVars

------------------------------------------------------------------------------
(* Properties. *)

PingTypeOK ==
    /\ closed \in BOOLEAN /\ reconnector \in BOOLEAN
    /\ ppc \in [Pingers -> {"idle", "register", "write", "writing", "await",
                            "failed", "expired"}]
    /\ token \in [Pingers -> 0 .. MaxPings]
    /\ result \in [Pingers -> {"none", "ok", "closed", "transport", "timeout",
                               "dropped"}]
    /\ next_token \in 0 .. MaxPings
    /\ waiters \subseteq Tokens /\ slot \in [Tokens -> BOOLEAN]
    /\ lpc \in {"up", "lost", "cleared", "stopped"}
    /\ conn \in 1 .. MaxConn
    /\ pinged \in [Tokens -> 0 .. MaxConn] /\ registered \in [Tokens -> 0 .. MaxConn + 1]
    /\ echoed \subseteq Tokens /\ dropped \subseteq Tokens

InFlight(p) == ppc[p] # "idle"

\* A ping succeeds only if the peer echoed that very ping: late pongs and other
\* pingers' pongs never pass for it (client.rs:346-351).
PongIsMine ==
    \A p \in Pingers : ppc[p] = "idle" /\ result[p] = "ok" => token[p] \in echoed

\* Every waiter in the table belongs to a ping still in flight, or to one whose
\* future was dropped: neither timeouts, nor failed writes, nor reconnects leave
\* one behind (client.rs:646-658).
WaitersHaveOwners ==
    \A t \in waiters :
        t \in dropped \/ \E p \in Pingers : InFlight(p) /\ token[p] = t

\* A ping whose echo the read loop has handled is resolved, unless its waiter was
\* registered before a redial emptied the table and the ping itself was written
\* after it, to the new connection (client.rs:341-356, 384-387).
EchoResolvesPing ==
    \A p \in Pingers :
        /\ ppc[p] = "await" /\ token[p] \in echoed
        /\ pinged[token[p]] = registered[token[p]]
        => slot[token[p]]

==============================================================================
