--------------------------- MODULE KeepaliveProofs ---------------------------
(***************************************************************************)
(* The safety properties of Pings, for any set of pingers, and of the      *)
(* keepalive task on top of it, for any intervals, miss limit and numbers  *)
(* of pings, connections and reconfigurations.                             *)
(***************************************************************************)
EXTENDS Keepalive, FiniteSetTheorems, TLAPS

\* A pinger in one of these has drawn the token it holds.
Active == {"write", "writing", "await", "failed", "expired"}

Registering == {p \in Pingers : ppc[p] = "register"}

\* The bound on pings leaves a token for everyone about to draw one.
BudgetInv == next_token + Cardinality(Registering) <= MaxPings

\* Tokens are drawn once.
TokenInv ==
    /\ \A p \in Pingers : ppc[p] \in Active => token[p] < next_token
    /\ \A p, q \in Pingers :
          ppc[p] \in Active /\ ppc[q] \in Active /\ token[p] = token[q] => p = q

\* A waiter's slot is empty, and a slot is filled by the echo of its own ping.
SlotInv ==
    /\ \A t \in waiters : t < next_token /\ ~slot[t]
    /\ \A t \in Tokens : slot[t] => t \in echoed /\ t < next_token
    /\ \A t \in Tokens : t >= next_token => pinged[t] = 0
    /\ \A t \in echoed : pinged[t] # 0
    /\ \A p \in Pingers : ppc[p] = "write" => pinged[token[p]] = 0

\* The owner of a waiter holds its token.
OwnerInv ==
    \A t \in waiters :
        t \in dropped \/ \E p \in Pingers : ppc[p] \in Active /\ token[p] = t

\* A ping keeps its waiter until it is resolved or its connection is lost.
KeepInv ==
    /\ lpc \in {"up", "cleared"} =>
          \A p \in Pingers :
              /\ ppc[p] \in {"write", "writing", "await"}
              /\ registered[token[p]] = TableOf
              => token[p] \in waiters \/ slot[token[p]]
    /\ \A p \in Pingers :
          /\ ppc[p] \in {"writing", "await"} /\ token[p] \in echoed
          /\ pinged[token[p]] = registered[token[p]]
          => slot[token[p]]
    /\ lpc # "stopped" => \A t \in Tokens : registered[t] <= TableOf

PingInv ==
    /\ PingTypeOK /\ BudgetInv /\ TokenInv /\ SlotInv /\ OwnerInv /\ KeepInv
    /\ PongIsMine

------------------------------------------------------------------------------
\* The pingers about to register are finitely many.
LEMMA RegisteringFinite ==
    /\ IsFiniteSet(Registering) /\ Cardinality(Registering) \in Nat
    /\ \A p \in Registering : Cardinality(Registering) >= 1
  <1>1. IsFiniteSet(Registering)
    BY PingsAssumption, FS_Subset DEF Registering
  <1>2. Cardinality(Registering) \in Nat
    BY <1>1, FS_CardinalityType
  <1>3. ASSUME NEW p \in Registering PROVE Cardinality(Registering) >= 1
    BY <1>1, <1>2, <1>3, FS_EmptySet
  <1> QED BY <1>1, <1>2, <1>3

\* A new client has no ping under way.
LEMMA PingInitInv == PingInit => PingInv
  <1> SUFFICES ASSUME PingInit PROVE PingInv
    OBVIOUS
  <1> USE PingsAssumption
  <1>1. PingTypeOK
    <2>1. closed \in BOOLEAN /\ reconnector \in BOOLEAN
      BY Zenon DEF PingInit
    <2>2. slot \in [Tokens -> BOOLEAN] /\ waiters \subseteq Tokens
      BY DEF PingInit
    <2> QED BY <2>1, <2>2 DEF PingInit, PingTypeOK
  <1>2. BudgetInv
    <2>1. Registering = {}
      BY DEF PingInit, Registering
    <2> QED BY <2>1, FS_EmptySet DEF BudgetInv, PingInit
  <1>3. TokenInv /\ SlotInv /\ OwnerInv /\ KeepInv /\ PongIsMine
    BY DEF PingInit, TokenInv, SlotInv, OwnerInv, KeepInv, TableOf, PongIsMine, Active, Tokens
  <1> QED BY <1>1, <1>2, <1>3 DEF PingInv

\* A pinger's step changes who is about to draw a token by at most itself.
LEMMA BudgetStep ==
    ASSUME PingTypeOK, BudgetInv, NEW p \in Pingers, NEW at,
           ppc' = [ppc EXCEPT ![p] = at],
           \/ at # "register" /\ next_token' = next_token
           \/ at = "register" /\ ppc[p] # "register" /\ PingsLeft
                 /\ next_token' = next_token
           \/ ppc[p] = "register" /\ at # "register" /\ next_token' = next_token + 1
    PROVE  BudgetInv'
  <1> USE RegisteringFinite DEF PingTypeOK
  <1>1. CASE at # "register"
    <2>1. Registering' = Registering \ {p}
      BY <1>1 DEF Registering
    <2>2. Cardinality(Registering') =
              IF p \in Registering THEN Cardinality(Registering) - 1
                                   ELSE Cardinality(Registering)
      BY <2>1, FS_RemoveElement, Zenon
    <2>3. ppc[p] = "register" <=> p \in Registering
      BY DEF Registering
    <2> QED BY <1>1, <2>2, <2>3, PingsAssumption DEF BudgetInv
  <1>2. CASE at = "register"
    <2>1. Registering' = Registering \cup {p} /\ p \notin Registering
      BY <1>2 DEF Registering
    <2>2. Cardinality(Registering') = Cardinality(Registering) + 1
      BY <2>1, FS_AddElement, Zenon
    <2> QED BY <1>2, <2>2, PingsAssumption DEF BudgetInv, PingsLeft, Registering
  <1> QED BY <1>1, <1>2

\* Every step of a pinger, the read loop, the link and the peer keeps the invariant.
LEMMA PingNextInv == PingInv /\ [PingNext]_pingVars => PingInv'
  <1> SUFFICES ASSUME PingInv, [PingNext]_pingVars PROVE PingInv'
    OBVIOUS
  <1> USE PingsAssumption DEF PingInv
  <1> DEFINE Rest == TokenInv /\ SlotInv /\ OwnerInv /\ KeepInv /\ PongIsMine
  <1>1. ASSUME NEW p \in Pingers, Ping(p) PROVE PingInv'
    <2>1. CASE closed /\ PingReturns(p, "closed")
      <3>1. PingTypeOK'
        BY <1>1, <2>1 DEF Ping, PingReturns, PingGoto, PingTypeOK, tableVars, linkVars, peerVars
      <3>2. BudgetInv'
        BY <1>1, <2>1, BudgetStep, Zenon DEF Ping, PingReturns, PingGoto, tableVars
      <3>3. Rest'
        BY <1>1, <2>1 DEF Ping, PingReturns, PingGoto, PingTypeOK, TokenInv, SlotInv, OwnerInv,
           KeepInv, TableOf, PongIsMine, Active, tableVars, linkVars, peerVars
      <3> QED BY <3>1, <3>2, <3>3
    <2>2. CASE ~closed /\ PingsLeft /\ PingGoto(p, "register") /\ UNCHANGED <<token, result>>
      <3>1. PingTypeOK'
        BY <1>1, <2>2 DEF Ping, PingGoto, PingTypeOK, tableVars, linkVars, peerVars
      <3>2. BudgetInv'
        BY <1>1, <2>2, BudgetStep, Zenon DEF Ping, PingGoto, tableVars
      <3>3. Rest'
        BY <1>1, <2>2 DEF Ping, PingGoto, PingTypeOK, TokenInv, SlotInv, OwnerInv,
           KeepInv, TableOf, PongIsMine, Active, tableVars, linkVars, peerVars
      <3> QED BY <3>1, <3>2, <3>3
    <2> QED BY <1>1, <2>1, <2>2 DEF Ping
  <1>2. ASSUME NEW p \in Pingers, RegisterPing(p) PROVE PingInv'
    <2>1. next_token \in Tokens
      <3>1. Cardinality(Registering) >= 1 /\ Cardinality(Registering) \in Nat
        BY <1>2, RegisteringFinite DEF RegisterPing, Registering
      <3> QED BY <3>1 DEF BudgetInv, PingTypeOK, Tokens
    <2>2. PingTypeOK'
      <3>1. next_token' \in 0 .. MaxPings /\ next_token \in 0 .. MaxPings
        BY <1>2, <2>1 DEF RegisterPing, PingTypeOK, Tokens
      <3>2. registered' \in [Tokens -> 0 .. MaxConn + 1]
        BY <1>2, <2>1 DEF RegisterPing, PingTypeOK, TableOf
      <3> QED BY <1>2, <2>1, <3>1, <3>2 DEF RegisterPing, PingGoto, PingTypeOK, linkVars
    <2>3. BudgetInv'
      BY <1>2, BudgetStep, Zenon DEF RegisterPing, PingGoto
    <2>4. TokenInv'
      BY <1>2 DEF RegisterPing, PingGoto, PingTypeOK, TokenInv, Active
    <2>5. SlotInv'
      BY <1>2, <2>1 DEF RegisterPing, PingGoto, PingTypeOK, SlotInv, Tokens, peerVars
    <2>6. OwnerInv'
      BY <1>2 DEF RegisterPing, PingGoto, PingTypeOK, OwnerInv, Active, peerVars
    <2>7. PongIsMine'
      BY <1>2 DEF RegisterPing, PingGoto, PingTypeOK, PongIsMine
    <2>8. KeepInv'
      <3> USE DEF RegisterPing, PingGoto, PingTypeOK, linkVars
      <3>1. /\ TableOf' = TableOf /\ TableOf \in Nat
            /\ lpc # "stopped" => \A t \in Tokens : registered'[t] <= TableOf
        BY <1>2, <2>1 DEF KeepInv, TableOf
      <3>2. ASSUME NEW q \in Pingers, q # p, ppc'[q] \in {"write", "writing", "await"}
            PROVE  /\ token'[q] = token[q] /\ ppc'[q] = ppc[q]
                   /\ registered'[token[q]] = registered[token[q]]
        BY <1>2, <2>1, <3>2 DEF TokenInv, Active
      <3>3. ppc'[p] = "write" /\ token'[p] \in waiters'
        BY <1>2
      <3> QED BY <1>2, <3>1, <3>2, <3>3 DEF KeepInv
    <2> QED BY <2>2, <2>3, <2>4, <2>5, <2>6, <2>7, <2>8
  <1>3. ASSUME NEW p \in Pingers, WritePing(p) PROVE PingInv'
    <2>1. token[p] \in Tokens
      BY <1>3 DEF WritePing, TokenInv, Active, PingTypeOK, Tokens
    <2>2. PingTypeOK'
      BY <1>3, <2>1 DEF WritePing, PingGoto, PingTypeOK, tableVars, linkVars
    <2>3. BudgetInv'
      BY <1>3, BudgetStep, Zenon DEF WritePing, PingGoto, tableVars
    <2>4. TokenInv' /\ OwnerInv' /\ PongIsMine'
      BY <1>3 DEF WritePing, PingGoto, PingTypeOK, TokenInv, OwnerInv, PongIsMine, Active,
         tableVars
    <2>5. SlotInv'
      BY <1>3, <2>1 DEF WritePing, PingGoto, PingTypeOK, SlotInv, TokenInv, Active, Tokens,
         tableVars
    <2>6. KeepInv'
      BY <1>3, <2>1 DEF WritePing, PingGoto, PingTypeOK, KeepInv, SlotInv, TokenInv, Active,
         tableVars, linkVars, TableOf
    <2> QED BY <2>2, <2>3, <2>4, <2>5, <2>6
  <1>4. ASSUME NEW p \in Pingers, WriteReturns(p) \/ PongTimeout(p) PROVE PingInv'
    <2>1. PICK at \in {"await", "failed", "expired"} :
              /\ ppc' = [ppc EXCEPT ![p] = at] /\ ppc[p] \in {"writing", "await"}
              /\ UNCHANGED <<closed, token, result, tableVars, linkVars, peerVars>>
      BY <1>4 DEF WriteReturns, PongTimeout, PingGoto
    <2>2. PingTypeOK'
      BY <2>1 DEF PingTypeOK, tableVars, linkVars, peerVars
    <2>3. BudgetInv'
      BY <2>1, BudgetStep, Zenon DEF tableVars
    <2>4. Rest'
      BY <2>1 DEF PingTypeOK, TokenInv, SlotInv, OwnerInv, KeepInv, TableOf, PongIsMine, Active,
         tableVars, linkVars, peerVars
    <2> QED BY <2>2, <2>3, <2>4
  <1>5. ASSUME NEW p \in Pingers, TakePong(p) PROVE PingInv'
    <2>1. /\ ppc[p] = "await" /\ slot[token[p]] /\ token[p] \in Tokens
          /\ ppc' = [ppc EXCEPT ![p] = "idle"] /\ result' = [result EXCEPT ![p] = "ok"]
          /\ UNCHANGED <<closed, token, tableVars, linkVars, peerVars>>
      BY <1>5 DEF TakePong, PingReturns, PingGoto, TokenInv, Active, PingTypeOK, Tokens
    <2>2. PingTypeOK'
      BY <2>1 DEF PingTypeOK, tableVars, linkVars, peerVars
    <2>3. BudgetInv'
      BY <2>1, BudgetStep, Zenon DEF tableVars
    <2>4. OwnerInv'
      BY <2>1 DEF OwnerInv, SlotInv, PingTypeOK, Active, tableVars, peerVars
    <2>5. TokenInv' /\ SlotInv' /\ KeepInv' /\ PongIsMine'
      BY <2>1 DEF PingTypeOK, TokenInv, SlotInv, KeepInv, TableOf, PongIsMine, Active,
         tableVars, linkVars, peerVars
    <2> QED BY <2>2, <2>3, <2>4, <2>5
  <1>6. ASSUME NEW p \in Pingers, ForgetPing(p) PROVE PingInv'
    <2>1. PICK r \in {"transport", "timeout"} :
              /\ ppc[p] \in {"failed", "expired"}
              /\ ppc' = [ppc EXCEPT ![p] = "idle"] /\ result' = [result EXCEPT ![p] = r]
              /\ waiters' = waiters \ {token[p]}
              /\ UNCHANGED <<closed, token, next_token, slot, linkVars, peerVars>>
      BY <1>6, Zenon DEF ForgetPing, PingReturns, PingGoto
    <2>2. PingTypeOK'
      BY <2>1 DEF PingTypeOK, linkVars, peerVars
    <2>3. BudgetInv'
      BY <2>1, BudgetStep, Zenon
    <2>4. OwnerInv'
      BY <2>1 DEF OwnerInv, PingTypeOK, Active, peerVars
    <2>5. TokenInv' /\ SlotInv' /\ PongIsMine'
      BY <2>1 DEF PingTypeOK, TokenInv, SlotInv, PongIsMine, Active, peerVars
    <2>6. KeepInv'
      BY <2>1 DEF PingTypeOK, KeepInv, TableOf, TokenInv, Active, linkVars, peerVars
    <2> QED BY <2>2, <2>3, <2>4, <2>5, <2>6
  <1>7. ASSUME NEW p \in Pingers, DropPing(p) PROVE PingInv'
    <2>1. /\ ppc[p] # "idle"
          /\ dropped' = IF ppc[p] = "register" THEN dropped ELSE dropped \cup {token[p]}
          /\ ppc' = [ppc EXCEPT ![p] = "idle"]
          /\ result' = [result EXCEPT ![p] = "dropped"]
          /\ UNCHANGED <<closed, token, tableVars, linkVars, pinged, registered, echoed>>
      BY <1>7 DEF DropPing, PingReturns, PingGoto
    <2>2. PingTypeOK'
      <3>1. ppc[p] # "register" => token[p] \in Tokens
        BY <2>1, SMTT(30) DEF PingTypeOK, TokenInv, Active, Tokens
      <3>2. dropped' \subseteq Tokens
        BY <2>1, <3>1 DEF PingTypeOK
      <3> QED BY <2>1, <3>2 DEF PingTypeOK, tableVars, linkVars
    <2>3. BudgetInv'
      BY <2>1, BudgetStep, Zenon DEF tableVars
    <2>4. OwnerInv'
      BY <2>1 DEF OwnerInv, PingTypeOK, Active, tableVars
    <2>5. TokenInv' /\ SlotInv' /\ KeepInv' /\ PongIsMine'
      BY <2>1 DEF PingTypeOK, TokenInv, SlotInv, KeepInv, TableOf, PongIsMine, Active,
         tableVars, linkVars
    <2> QED BY <2>2, <2>3, <2>4, <2>5
  <1>8. ASSUME NEW t \in Tokens, HandlePong(t) PROVE PingInv'
    <2> USE DEF HandlePong, pingerVars, linkVars
    <2>1. PingTypeOK'
      BY <1>8, Zenon DEF PingTypeOK
    <2>2. BudgetInv' /\ TokenInv'
      BY <1>8 DEF BudgetInv, Registering, TokenInv
    <2>3. SlotInv'
      BY <1>8 DEF SlotInv, PingTypeOK
    <2>4. OwnerInv' /\ PongIsMine'
      BY <1>8 DEF OwnerInv, PongIsMine
    <2>5. KeepInv'
      <3> USE DEF PingTypeOK
      <3>1. \A u \in Tokens : slot[u] => slot'[u]
        BY <1>8
      <3>2. \A q \in Pingers : ppc[q] \in Active => token[q] \in Tokens
        BY DEF TokenInv, Tokens, Active
      <3>3. \A u \in waiters : u \in waiters' \/ slot'[u]
        BY <1>8
      <3>4. ASSUME NEW q \in Pingers, ppc[q] \in {"writing", "await"}, token[q] \in echoed',
                   pinged[token[q]] = registered[token[q]]
            PROVE  slot'[token[q]]
        <4>1. CASE token[q] = t
          <5>1. t \in waiters \/ slot[t]
            BY <1>8, <3>4, <4>1 DEF KeepInv, TableOf
          <5> QED BY <1>8, <4>1, <5>1
        <4>2. CASE token[q] # t
          <5>1. slot[token[q]] /\ token[q] \in Tokens
            BY <1>8, <3>2, <3>4, <4>2 DEF KeepInv, Active
          <5> QED BY <3>1, <5>1
        <4> QED BY <4>1, <4>2
      <3>5. ASSUME NEW q \in Pingers, ppc[q] \in {"write", "writing", "await"},
                   registered[token[q]] = TableOf
            PROVE  token[q] \in waiters' \/ slot'[token[q]]
        <4>1. token[q] \in waiters \/ slot[token[q]]
          BY <1>8, <3>5, Zenon DEF KeepInv
        <4>2. token[q] \in Tokens
          BY <3>2, <3>5 DEF Active
        <4> QED BY <3>1, <3>3, <4>1, <4>2
      <3> QED BY <1>8, <3>4, <3>5 DEF KeepInv, TableOf
    <2> QED BY <2>1, <2>2, <2>3, <2>4, <2>5
  <1>9. CASE LoopStep
    <2>1. /\ \/ lpc = "up" /\ lpc' = "lost"
             \/ lpc = "lost" /\ lpc' = "cleared"
             \/ lpc' = "stopped"
          /\ waiters' \in {waiters, {}}
          /\ UNCHANGED <<closed, pingerVars, next_token, slot, reconnector, conn, peerVars>>
      BY <1>9 DEF LoopStep, LoseLink, StopLoop, EndLoop, ClearWaiters, AbandonRedial,
         tableVars
    <2>2. PingTypeOK' /\ BudgetInv'
      BY <2>1 DEF PingTypeOK, BudgetInv, Registering, pingerVars, peerVars
    <2>3. TokenInv' /\ SlotInv' /\ OwnerInv' /\ PongIsMine'
      BY <2>1 DEF TokenInv, SlotInv, OwnerInv, PongIsMine, pingerVars, peerVars
    <2>4. KeepInv'
      <3>1. UNCHANGED <<ppc, token, slot, conn, pinged, registered, echoed>>
        BY <2>1 DEF pingerVars, peerVars
      <3>2. \A p \in Pingers : ppc[p] \in Active => token[p] \in Tokens
        BY DEF PingTypeOK, TokenInv, Tokens, Active
      <3>3. CASE lpc = "lost" /\ lpc' = "cleared"
        <4>1. /\ TableOf' = conn + 1
              /\ \A t \in Tokens : registered[t] <= conn /\ registered[t] \in Nat
          BY <3>1, <3>3 DEF KeepInv, TableOf, PingTypeOK
        <4>2. conn \in Nat
          BY DEF PingTypeOK
        <4>3. \A t \in Tokens : registered[t] <= TableOf' /\ registered[t] # TableOf'
          BY <4>1, <4>2
        <4> QED BY <3>1, <3>2, <4>3 DEF KeepInv, Active
      <3>4. CASE lpc = "up" /\ lpc' = "lost"
        BY <3>1, <3>4 DEF KeepInv, TableOf
      <3>5. CASE lpc' = "stopped"
        BY <3>1, <3>5 DEF KeepInv
      <3> QED BY <2>1, <3>3, <3>4, <3>5
    <2> QED BY <2>2, <2>3, <2>4
  <1>10. CASE SwapSink
    <2> USE DEF SwapSink, pingerVars, tableVars, peerVars
    <2>1. PingTypeOK' /\ BudgetInv'
      BY <1>10 DEF PingTypeOK, BudgetInv, Registering
    <2>2. TokenInv' /\ SlotInv' /\ OwnerInv' /\ PongIsMine'
      BY <1>10 DEF PingTypeOK, TokenInv, SlotInv, OwnerInv, PongIsMine
    <2>3. KeepInv'
      <3>1. TableOf' = TableOf /\ lpc = "cleared" /\ lpc' = "up"
        BY <1>10 DEF TableOf
      <3> QED BY <1>10, <3>1 DEF KeepInv
    <2> QED BY <2>1, <2>2, <2>3
  <1>11. CASE SetClosed \/ UNCHANGED pingVars
    <2> USE DEF SetClosed, pingVars, pingerVars, tableVars, linkVars, peerVars
    <2>1. closed' \in BOOLEAN
      BY <1>11, Zenon DEF PingTypeOK
    <2>2. UNCHANGED <<pingerVars, tableVars, linkVars, peerVars>>
      BY <1>11
    <2>3. PingTypeOK' /\ BudgetInv' /\ Rest'
      BY <2>1, <2>2 DEF PingTypeOK, BudgetInv, Registering, TokenInv, SlotInv, OwnerInv,
         KeepInv, TableOf, PongIsMine
    <2> QED BY <2>3
  <1> QED
    BY <1>1, <1>2, <1>3, <1>4, <1>5, <1>6, <1>7, <1>8, <1>9, <1>10, <1>11
    DEF PingNext, InPing

\* Type correctness: a ping that starts finds a token.
THEOREM PingTypes == PingSpec => []PingTypeOK
<1>1. PingInv => PingTypeOK
  BY DEF PingInv
<1> QED BY <1>1, PingInitInv, PingNextInv, PTL DEF PingSpec

\* A ping succeeds only on its own echo (client.rs:346-351).
THEOREM OnlyMyPong == PingSpec => []PongIsMine
<1>1. PingInv => PongIsMine
  BY DEF PingInv
<1> QED BY <1>1, PingInitInv, PingNextInv, PTL DEF PingSpec

\* Only a dropped future leaves its waiter behind (client.rs:646-658).
THEOREM WaitersAreOwned == PingSpec => []WaitersHaveOwners
<1>1. PingInv => WaitersHaveOwners
  BY Zenon DEF PingInv, OwnerInv, WaitersHaveOwners, InFlight, Active
<1> QED BY <1>1, PingInitInv, PingNextInv, PTL DEF PingSpec

\* Every echo resolves its ping, unless the connection was replaced between the
\* registration and the write (client.rs:341-356, 384-387).
THEOREM EchoesResolve == PingSpec => []EchoResolvesPing
<1>1. PingInv => EchoResolvesPing
  BY DEF PingInv, KeepInv, EchoResolvesPing
<1> QED BY <1>1, PingInitInv, PingNextInv, PTL DEF PingSpec

------------------------------------------------------------------------------

\* A notification is owed to the task wherever it has read the interval or
\* the flag and not yet looked at the latch.
WakeInv ==
    /\ NoStaleSleep
    /\ closed /\ kpc \in {"read", "park", "sleep"} => changed \/ dpc = "notify"

\* A task that has not started sleeps on nothing.
LEMMA WakeInit == Init => WakeInv
  BY DEF Init, PingInit, WakeInv, NoStaleSleep

\* Every step of the keepalive task and of those that wake it keeps the invariant.
LEMMA WakeNext == WakeInv /\ [Next]_vars => WakeInv'
  <1> SUFFICES ASSUME WakeInv, [Next]_vars PROVE WakeInv'
    OBVIOUS
  <1> USE DEF WakeInv, NoStaleSleep, KeepGoto
  <1>1. CASE CheckClosed
    BY <1>1 DEF CheckClosed, pingVars, settingVars
  <1>2. CASE ReadInterval
    BY <1>2 DEF ReadInterval, pingVars, settingVars
  <1>3. CASE Reconfigured \/ IntervalOver \/ TurnedOff
    BY <1>3 DEF Reconfigured, IntervalOver, TurnedOff, pingVars, settingVars
  <1>4. CASE StartPing \/ Answered \/ Missed
    BY <1>4 DEF StartPing, Answered, Missed
  <1>5. CASE Environment /\ UNCHANGED keepVars
    <2>1. UNCHANGED closed
      BY <1>5 DEF Environment, InPing, RegisterPing, WritePing, WriteReturns, TakePong,
         PongTimeout, ForgetPing, HandlePong, LoopStep, LoseLink, StopLoop, EndLoop,
         ClearWaiters, AbandonRedial
    <2> QED BY <1>5, <2>1 DEF keepVars, taskVars, settingVars
  <1>6. CASE Redialled
    BY <1>6 DEF Redialled, SwapSink, taskVars, settingVars
  <1>7. ASSUME NEW i \in Durations, StoreInterval(i) PROVE WakeInv'
    BY <1>7 DEF StoreInterval, taskVars, pingVars
  <1>8. CASE NotifyInterval \/ Disconnect \/ DisconnectNotify
    BY <1>8 DEF NotifyInterval, Disconnect, SetClosed, DisconnectNotify, taskVars,
       settingVars, pingVars
  <1>9. CASE UNCHANGED vars
    BY <1>9 DEF vars, pingVars, keepVars, taskVars, settingVars
  <1> QED BY <1>1, <1>2, <1>3, <1>4, <1>5, <1>6, <1>7, <1>8, <1>9 DEF Next, TaskStep

\* The task never sleeps out, or parks on, an interval that was replaced unless
\* it has been or is being told (set_ping_interval, client.rs:697-699).
THEOREM SleepIsFresh == Spec => []NoStaleSleep
<1>1. WakeInv => NoStaleSleep
  BY DEF WakeInv
<1> QED BY <1>1, WakeInit, WakeNext, PTL DEF Spec

\* A disconnect reaches the task in either of its waits (client.rs:796, 920).
THEOREM TaskIsWoken == Spec => []ShutdownWakesTask
<1>1. WakeInv => ShutdownWakesTask
  BY DEF WakeInv, ShutdownWakesTask
<1> QED BY <1>1, WakeInit, WakeNext, PTL DEF Spec

------------------------------------------------------------------------------
(* The task as a pinger. *)

\* Every step of the client with a keepalive task is, for the ping table, a step of
\* a pinger, of the read loop or of disconnect, or none (client.rs:912-971).
LEMMA PingStep == [Next]_vars => [PingNext]_pingVars
<1> SUFFICES ASSUME [Next]_vars PROVE [PingNext]_pingVars
  OBVIOUS
<1>0. Task \in Pingers
  BY KeepaliveAssumption
<1>1. CASE \/ CheckClosed \/ ReadInterval \/ Reconfigured \/ IntervalOver
           \/ TurnedOff \/ Answered \/ Missed
  BY <1>1, Zenon DEF CheckClosed, ReadInterval, Reconfigured, IntervalOver, TurnedOff,
     Answered, Missed
<1>2. CASE StartPing
  BY <1>0, <1>2, Zenon DEF StartPing, PingNext
<1>3. CASE Environment
  BY <1>0, <1>3, Zenon DEF Environment, PingNext
<1>4. CASE Redialled \/ Disconnect
  BY <1>4, Zenon DEF Redialled, Disconnect, PingNext
<1>5. CASE (\E d \in Durations : StoreInterval(d)) \/ NotifyInterval \/ DisconnectNotify
  BY <1>5, Zenon DEF StoreInterval, NotifyInterval, DisconnectNotify
<1>6. CASE UNCHANGED vars
  BY <1>6, Zenon DEF vars
<1> QED BY <1>1, <1>2, <1>3, <1>4, <1>5, <1>6, Zenon DEF Next, TaskStep

\* The client with a keepalive task implements the ping table of Pings: the task is
\* one more caller of send_ping and nothing else (client.rs:949).
THEOREM KeepaliveImplementsPings == Spec => PingSpec
<1>1. Init => PingInit
  BY DEF Init
<1> QED BY <1>1, PingStep, PTL DEF Spec, PingSpec

\* So the task takes no other pong for its own, leaves no waiter behind, and is
\* resolved by its echo, through any reconfiguration, redial and disconnect.
THEOREM TaskPingsAreSound == Spec => [](PongIsMine /\ WaitersHaveOwners /\ EchoResolvesPing)
<1> QED BY KeepaliveImplementsPings, OnlyMyPong, WaitersAreOwned, EchoesResolve, PTL

------------------------------------------------------------------------------
(* The count of misses. *)

\* The task's count is at least the number of unanswered pings on the connection,
\* until it has asked for a redial.
MissInv ==
    /\ missed \in 0 .. misses_allowed - 1 /\ streak \in Nat
    /\ closed \in BOOLEAN /\ asked \in BOOLEAN
    /\ settled \in BOOLEAN /\ hasty \in BOOLEAN
    /\ ~asked /\ ~closed => streak <= missed

\* On a settled connection it is at most that number: a ping that failed on a live
\* client was written to that connection.
Written == {"writing", "await", "failed", "expired"}

SettledInv ==
    /\ conn \in Nat /\ next_token \in Nat
    /\ ppc \in [Pingers -> {"idle", "register", "write"} \cup Written]
    /\ token \in [Pingers -> Nat] /\ pinged \in [Tokens -> Nat]
    /\ result \in [Pingers -> {"none", "ok", "closed", "transport", "timeout", "dropped"}]
    /\ kpc # "pinging" => ppc[Task] = "idle"
    /\ ppc[Task] = "register" => next_token < MaxPings
    /\ ppc[Task] = "write" => token[Task] \in Tokens
    /\ ppc[Task] \in Written =>
          token[Task] \in Tokens /\ (settled => pinged[token[Task]] = conn)
    /\ kpc = "pinging" /\ ppc[Task] = "idle" /\ result[Task] # "ok" /\ ~closed
          => result[Task] # "closed" /\ (settled => pinged[token[Task]] = conn)
    /\ settled /\ ~closed => missed <= streak
    /\ SettledIsSpared

CountInv == MissInv /\ SettledInv

\* At least one miss is allowed before the peer is given up.
LEMMA AllowedType == misses_allowed \in Nat /\ 0 \in 0 .. misses_allowed - 1
  BY KeepaliveAssumption DEF misses_allowed

\* In Keepalive the only pinger is the task.
LEMMA TaskPings == Task \in Pingers /\ \A p \in Pingers : p = Task
  BY KeepaliveAssumption

\* At the start nothing has been missed.
LEMMA CountInit == Init => CountInv
  <1> SUFFICES ASSUME Init PROVE CountInv
    OBVIOUS
  <1>1. MissInv
    <2>1. /\ missed = 0 /\ streak = 0
          /\ closed = FALSE /\ asked = FALSE /\ settled = TRUE /\ hasty = FALSE
      BY DEF Init, PingInit
    <2>2. missed \in 0 .. misses_allowed - 1 /\ streak \in Nat /\ streak <= missed
      BY <2>1, AllowedType
    <2> QED BY <2>1, <2>2, Zenon DEF MissInv
  <1>2. SettledInv
    <2>1. /\ conn = 1 /\ next_token = 0 /\ ppc = [p \in Pingers |-> "idle"]
          /\ token = [p \in Pingers |-> MaxPings] /\ pinged = [t \in Tokens |-> 0]
          /\ result = [p \in Pingers |-> "none"]
          /\ kpc = "top" /\ missed = 0 /\ streak = 0 /\ hasty = FALSE
      BY DEF Init, PingInit
    <2>2. ppc[Task] = "idle" /\ "idle" \notin Written
      BY <2>1, TaskPings DEF Written
    <2> QED BY <2>1, <2>2, PingsAssumption DEF SettledInv, SettledIsSpared
  <1> QED BY <1>1, <1>2 DEF CountInv

\* Every step keeps the count of misses and what is known of a settled connection.
LEMMA CountNext == CountInv /\ [Next]_vars => CountInv'
  <1> SUFFICES ASSUME CountInv, [Next]_vars PROVE CountInv'
    OBVIOUS
  <1> USE AllowedType, TaskPings, PingsAssumption DEF CountInv, KeepGoto
  <1>1. CASE CheckClosed \/ ReadInterval \/ IntervalOver \/ TurnedOff
    BY <1>1 DEF CheckClosed, ReadInterval, IntervalOver, TurnedOff, MissInv, SettledInv,
       SettledIsSpared, pingVars, pingerVars, tableVars, linkVars, peerVars,
       historyVars
  <1>2. CASE Reconfigured \/ Answered
    <2>1. /\ missed' = 0 /\ streak' = 0 /\ settled' = TRUE /\ kpc' = "top"
          /\ ppc[Task] = "idle" /\ UNCHANGED <<pingVars, asked, hasty>>
      BY <1>2 DEF Reconfigured, Answered, SettledInv
    <2>2. UNCHANGED <<closed, ppc, token, result, next_token, conn, pinged>>
      BY <2>1 DEF pingVars, pingerVars, tableVars, linkVars, peerVars
    <2>3. MissInv'
      BY <2>1, <2>2 DEF MissInv
    <2> QED BY <2>1, <2>2, <2>3 DEF SettledInv, SettledIsSpared, Written
  <1>3. CASE StartPing
    <2>1. MissInv'
      BY <1>3 DEF StartPing, Ping, MissInv, historyVars
    <2>2. CASE closed
      BY <1>3, <2>1, <2>2 DEF StartPing, Ping, PingReturns, PingGoto, MissInv, SettledInv,
         SettledIsSpared, tableVars, linkVars, peerVars, historyVars
    <2>3. CASE ~closed
      <3>1. {p \in Pingers : ppc[p] = "register"} = {}
        BY <1>3 DEF StartPing, Ping
      <3>2. next_token < MaxPings
        BY <1>3, <2>3, <3>1, FS_EmptySet DEF StartPing, Ping, PingsLeft, SettledInv
      <3>3. /\ ppc' = [ppc EXCEPT ![Task] = "register"]
            /\ UNCHANGED <<token, result>>
        BY <1>3, <2>3 DEF StartPing, Ping, PingGoto
      <3> QED
        BY <1>3, <2>1, <2>3, <3>2, <3>3 DEF StartPing, Ping, SettledInv, Written,
           SettledIsSpared, tableVars, linkVars, peerVars, historyVars
    <2> QED BY <2>2, <2>3
  <1>4. CASE Missed
    <2>1. /\ kpc' = "top" /\ UNCHANGED pingVars
          /\ kpc = "pinging" /\ ppc[Task] = "idle" /\ result[Task] # "ok"
          /\ streak' \in {streak, streak + 1}
      BY <1>4, Zenon DEF Missed
    <2>2. MissInv'
      <3>1. UNCHANGED closed
        BY <2>1, Zenon DEF pingVars
      <3>2. CASE missed + 1 >= misses_allowed
        <4>1. /\ missed' = 0 /\ asked' = (asked \/ ~closed) /\ settled' = TRUE
              /\ hasty' \in BOOLEAN
          BY <1>4, <3>2, Zenon DEF Missed
        <4>2. missed' \in 0 .. misses_allowed - 1 /\ streak' \in Nat
          BY <2>1, <4>1 DEF MissInv
        <4>3. asked' \in BOOLEAN /\ closed' \in BOOLEAN /\ (asked' \/ closed')
          BY <3>1, <4>1, Zenon DEF MissInv
        <4> QED BY <4>1, <4>2, <4>3, Zenon DEF MissInv
      <3>3. CASE ~(missed + 1 >= misses_allowed)
        <4>1. missed' = missed + 1 /\ UNCHANGED <<asked, settled, hasty>>
          BY <1>4, <3>3, Zenon DEF Missed
        <4>2. missed' \in 0 .. misses_allowed - 1 /\ streak' \in Nat
          BY <2>1, <3>3, <4>1 DEF MissInv
        <4>3. ~asked' /\ ~closed' => streak' <= missed'
          <5>1. missed \in Nat /\ streak \in Nat /\ (~asked /\ ~closed => streak <= missed)
            BY DEF MissInv
          <5> QED BY <2>1, <3>1, <4>1, <5>1
        <4> QED BY <3>1, <4>1, <4>2, <4>3, Zenon DEF MissInv
      <3> QED BY <3>2, <3>3
    <2>3. ASSUME settled, ~closed PROVE streak' = streak + 1 /\ missed + 1 <= streak'
      <3>1. result[Task] # "closed" /\ pinged[token[Task]] = conn
        BY <2>1, <2>3, Zenon DEF SettledInv
      <3>2. streak' = streak + 1
        BY <1>4, <3>1 DEF Missed
      <3> QED BY <2>3, <3>2 DEF SettledInv, MissInv
    <2>4. settled' /\ ~closed' => missed' <= streak'
      <3>1. UNCHANGED closed /\ streak \in Nat /\ streak' \in Nat
        BY <2>1 DEF MissInv, pingVars
      <3>2. \/ missed' = 0
            \/ missed' = missed + 1 /\ settled' = settled
        BY <1>4, Zenon DEF Missed
      <3>3. CASE missed' = 0
        BY <3>1, <3>3
      <3>4. CASE missed' = missed + 1 /\ settled' = settled
        BY <2>3, <3>1, <3>4, Zenon
      <3> QED BY <3>2, <3>3, <3>4, Zenon
    <2>5. SettledIsSpared'
      <3>1. \/ hasty' = (hasty \/ (~closed /\ settled /\ streak' < misses_allowed))
               /\ missed + 1 >= misses_allowed
            \/ hasty' = hasty
        BY <1>4 DEF Missed
      <3>2. CASE settled /\ ~closed
        <4>1. missed + 1 >= misses_allowed => ~(streak' < misses_allowed)
          BY <2>3, <3>2 DEF MissInv
        <4> QED BY <3>1, <4>1, Zenon DEF SettledInv, SettledIsSpared
      <3>3. CASE ~(settled /\ ~closed)
        BY <3>1, <3>3, Zenon DEF SettledInv, SettledIsSpared
      <3> QED BY <3>2, <3>3
    <2> QED
      BY <2>1, <2>2, <2>4, <2>5 DEF SettledInv, Written, pingVars, pingerVars, tableVars,
         linkVars, peerVars
  <1>5. CASE InPing(Task) /\ UNCHANGED keepVars
    <2>1. MissInv'
      BY <1>5, Zenon DEF InPing, RegisterPing, WritePing, WriteReturns, TakePong, PongTimeout,
         ForgetPing, MissInv, keepVars, taskVars, historyVars
    <2>2. CASE RegisterPing(Task)
      BY <1>5, <2>1, <2>2 DEF RegisterPing, PingGoto, SettledInv, Written, Tokens,
         SettledIsSpared, keepVars, taskVars, historyVars, linkVars, peerVars
    <2>3. CASE WritePing(Task)
      BY <1>5, <2>1, <2>3 DEF WritePing, PingGoto, SettledInv, Written,
         SettledIsSpared, keepVars, taskVars, historyVars, tableVars, linkVars
    <2>4. CASE WriteReturns(Task) \/ PongTimeout(Task)
      BY <1>5, <2>1, <2>4 DEF WriteReturns, PongTimeout, PingGoto, SettledInv, Written,
         SettledIsSpared, keepVars, taskVars, historyVars, tableVars, linkVars,
         peerVars
    <2>5. CASE TakePong(Task) \/ ForgetPing(Task)
      BY <1>5, <2>1, <2>5 DEF TakePong, ForgetPing, PingReturns, PingGoto, SettledInv, Written,
         SettledIsSpared, keepVars, taskVars, historyVars, tableVars, linkVars,
         peerVars
    <2> QED BY <1>5, <2>2, <2>3, <2>4, <2>5, Zenon DEF InPing
  <1>6. CASE (LoopStep \/ \E t \in Tokens : HandlePong(t)) /\ UNCHANGED keepVars
    <2>1. UNCHANGED <<closed, pingerVars, next_token, conn, pinged>>
      BY <1>6 DEF LoopStep, LoseLink, StopLoop, EndLoop, ClearWaiters, AbandonRedial,
         HandlePong, tableVars, peerVars, linkVars
    <2> QED
      BY <1>6, <2>1 DEF MissInv, SettledInv, SettledIsSpared, keepVars, taskVars,
         historyVars, pingerVars
  <1>7. CASE Redialled
    <2>1. /\ conn' = conn + 1 /\ streak' = 0 /\ asked' = FALSE /\ settled' = FALSE
          /\ UNCHANGED <<closed, missed, hasty, kpc, ppc, token, result, next_token, pinged>>
      BY <1>7 DEF Redialled, SwapSink, taskVars, pingerVars, tableVars, peerVars
    <2>2. MissInv'
      <3>1. /\ missed' \in 0 .. misses_allowed - 1 /\ streak' \in Nat
            /\ streak' <= missed'
        BY <2>1 DEF MissInv
      <3> QED BY <2>1, <3>1, Zenon DEF MissInv
    <2>3. conn' \in Nat
      BY <2>1 DEF SettledInv
    <2> QED BY <2>1, <2>2, <2>3 DEF SettledInv, SettledIsSpared
  <1>8. CASE \/ \E i \in Durations : StoreInterval(i)
             \/ NotifyInterval \/ DisconnectNotify \/ UNCHANGED vars
    <2>1. UNCHANGED <<pingVars, taskVars, historyVars>>
      BY <1>8 DEF StoreInterval, NotifyInterval, DisconnectNotify, vars, keepVars
    <2>2. /\ UNCHANGED <<closed, ppc, token, result, next_token, conn, pinged>>
          /\ UNCHANGED <<kpc, missed, streak, asked, settled, hasty>>
      BY <2>1 DEF pingVars, pingerVars, tableVars, linkVars, peerVars, taskVars, historyVars
    <2> QED BY <2>2 DEF MissInv, SettledInv, SettledIsSpared
  <1>9. CASE Disconnect
    BY <1>9 DEF Disconnect, SetClosed, MissInv, SettledInv, SettledIsSpared, pingerVars,
       tableVars, linkVars, peerVars, taskVars, historyVars
  <1> QED
    BY <1>1, <1>2, <1>3, <1>4, <1>5, <1>6, <1>7, <1>8, <1>9, Zenon
    DEF Next, TaskStep, Environment

\* A peer that leaves misses_allowed pings in a row unanswered is noticed
\* (client.rs:952-966).
THEOREM PeerIsNoticed == Spec => []DeadPeerIsNoticed
<1>1. CountInv => DeadPeerIsNoticed
  BY AllowedType DEF CountInv, MissInv, DeadPeerIsNoticed
<1> QED BY <1>1, CountInit, CountNext, PTL DEF Spec

\* No connection on which the count has started anew, the first one included, is
\* given up for fewer misses in a row than the policy allows (keepalive.rs:31-33).
THEOREM SettledConnectionIsSpared == Spec => []SettledIsSpared
<1>1. CountInv => SettledIsSpared
  BY DEF CountInv, SettledInv
<1> QED BY <1>1, CountInit, CountNext, PTL DEF Spec

==============================================================================
