--------------------------- MODULE DispatchProofs ----------------------------
(***************************************************************************)
(* The safety properties of Dispatch, for any number of messages and       *)
(* registrations.                                                          *)
(***************************************************************************)
EXTENDS Dispatch, SequenceTheorems, TLAPS

\* A registration is numbered when it is made; its channel is closed only by its
\* successor, which holds the registry until it has signalled it.
TaskInv(g) ==
    /\ tpc[g] # "unborn" <=> g <= regs
    /\ shut[g] => g < regs
    /\ tpc[g] = "closing" => g = regs /\ registry = g /\ g > 1
    /\ tpc[g] = "handle" => held[g] # 0
    /\ held[g] # 0 => tpc[g] \in {"handle", "dropped"}

\* The registry holds the newest registration or none.
RegInv ==
    /\ registry \in {0, regs} /\ target <= regs
    /\ registry # 0 => tpc[registry] # "done"
    /\ lpc # "idle" => call # 0
    /\ \A g \in Regs : TaskInv(g)

WakeInv == TypeOK /\ RegInv /\ NoLostWakeup

\* A message that has not been handled is in one place at most: on its way to the
\* registry, in a queue, or held by a task.
Untouched(c) == replies[c] = 0 /\ runs[c] = 0

Arriving(c) == c > call \/ (c = call /\ lpc \in {"refuse", "push"})

ArriveInv == \A c \in Calls : Arriving(c) => Untouched(c)

OnceQueued ==
    \A g, h \in Regs : \A i \in 1 .. Len(queue[g]), j \in 1 .. Len(queue[h]) :
        queue[g][i] = queue[h][j] => g = h /\ i = j

QueueInv ==
    /\ \A g \in Regs : \A i \in 1 .. Len(queue[g]) :
          Untouched(queue[g][i]) /\ ~Arriving(queue[g][i])
    /\ OnceQueued

HeldInv ==
    /\ \A g \in Regs : tpc[g] = "handle" => Untouched(held[g])
    /\ \A g \in Regs : held[g] # 0 => ~Arriving(held[g])
    /\ \A g, h \in Regs : \A i \in 1 .. Len(queue[g]) : queue[g][i] # held[h]
    /\ \A g, h \in Regs : held[g] # 0 /\ held[g] = held[h] => g = h

PlaceInv == ArriveInv /\ QueueInv /\ HeldInv /\ AtMostOnce

------------------------------------------------------------------------------
LEMMA WakeInit == Init => WakeInv
  <1> SUFFICES ASSUME Init PROVE WakeInv
    OBVIOUS
  <1>1. TypeOK
    BY DispatchAssumption DEF Init, TypeOK, Regs, Calls
  <1>2. RegInv /\ NoLostWakeup
    BY DEF Init, RegInv, TaskInv, NoLostWakeup, Regs
  <1> QED BY <1>1, <1>2 DEF WakeInv

LEMMA WakeNext == WakeInv /\ [Next]_vars => WakeInv'
  <1> SUFFICES ASSUME WakeInv, [Next]_vars PROVE WakeInv'
    OBVIOUS
  <1> USE DispatchAssumption DEF WakeInv, Regs, Calls
  <1>1. CASE LookUp
    <2> USE DEF LookUp, chanVars, taskVars, peerVars
    <2>1. TypeOK'
      <3>1. call + 1 \in Calls
        BY <1>1 DEF TypeOK
      <3>2. decodes' \in [Calls -> BOOLEAN]
        BY <1>1, <3>1 DEF TypeOK
      <3>3. /\ call' \in 0 .. MaxCalls /\ target' \in 0 .. MaxRegs
            /\ lpc' \in {"idle", "refuse", "push", "signal"}
            /\ lpc' \in {"push", "signal"} => target' # 0
        BY <1>1, <3>1 DEF TypeOK
      <3> QED BY <1>1, <3>2, <3>3 DEF TypeOK
    <2>2. RegInv' /\ NoLostWakeup'
      BY <1>1 DEF TypeOK, RegInv, TaskInv, NoLostWakeup
    <2> QED BY <2>1, <2>2
  <1>2. CASE Refuse
    <2> USE DEF Refuse, chanVars, taskVars
    <2>1. TypeOK'
      <3>1. call \in Calls
        BY <1>2 DEF TypeOK, RegInv, TaskInv
      <3>2. replies' \in [Calls -> Nat]
        BY <1>2, <3>1 DEF TypeOK, Respond
      <3> QED BY <1>2, <3>2 DEF TypeOK
    <2>2. RegInv' /\ NoLostWakeup'
      BY <1>2 DEF RegInv, TaskInv, NoLostWakeup
    <2> QED BY <2>1, <2>2
  <1>3. CASE Push
    <2> USE DEF Push, taskVars, peerVars
    <2>1. call \in Calls /\ target \in Regs
      BY <1>3 DEF TypeOK, RegInv, TaskInv
    <2>2. TypeOK'
      <3>1. Append(queue[target], call) \in Seq(Calls)
        BY <2>1 DEF TypeOK
      <3>2. queue' \in [Regs -> Seq(Calls)]
        BY <1>3, <2>1, <3>1 DEF TypeOK
      <3> QED BY <1>3, <3>2, Zenon DEF TypeOK
    <2>3. RegInv' /\ NoLostWakeup'
      BY <1>3 DEF TypeOK, RegInv, TaskInv, NoLostWakeup
    <2> QED BY <2>2, <2>3
  <1>4. CASE Signal
    <2> USE DEF Signal, taskVars, peerVars
    <2>1. TypeOK'
      BY <1>4, Zenon DEF TypeOK
    <2>2. RegInv' /\ NoLostWakeup'
      BY <1>4 DEF TypeOK, RegInv, TaskInv, NoLostWakeup
    <2> QED BY <2>1, <2>2
  <1>5. ASSUME NEW k \in Kinds, Register(k) PROVE WakeInv'
    <2> USE DEF Register, loopVars, peerVars
    <2>1. regs + 1 \in Regs
      BY <1>5 DEF TypeOK
    <2>2. TypeOK'
      <3>1. shut' \in [Regs -> BOOLEAN]
        BY <1>5
      <3>2. kind' \in [Regs -> {"on", "wait_for"}]
        BY <1>5, <2>1 DEF TypeOK
      <3>3. tpc' \in [Regs -> {"unborn", "closing", "spawn", "recv", "parked", "handle",
                               "remove", "done", "dropped"}]
        BY <1>5, <2>1 DEF TypeOK
      <3>4. registry' \in 0 .. MaxRegs /\ regs' \in 0 .. MaxRegs
        BY <1>5, <2>1 DEF TypeOK
      <3>5. UNCHANGED <<queue, signal, held, loopVars, peerVars>>
        BY <1>5
      <3> QED BY <3>1, <3>2, <3>3, <3>4, <3>5, Zenon DEF TypeOK
    <2>3. RegInv'
      <3> SUFFICES ASSUME NEW g \in Regs
                   PROVE  /\ tpc'[g] # "unborn" <=> g <= regs'
                          /\ shut'[g] => g < regs'
                          /\ tpc'[g] = "closing" => g = regs' /\ registry' = g /\ g > 1
        BY <1>5, <2>1 DEF TypeOK, RegInv, TaskInv
      <3>1. CASE g = regs + 1
        BY <1>5, <2>1, <3>1 DEF TypeOK, RegInv, TaskInv
      <3>2. CASE g # regs + 1
        BY <1>5, <2>1, <3>2 DEF TypeOK, RegInv, TaskInv, RegistryFree
      <3> QED BY <3>1, <3>2
    <2>4. NoLostWakeup'
      <3> SUFFICES ASSUME NEW g \in Regs, tpc'[g] = "parked", queue'[g] # <<>> \/ shut'[g]
                   PROVE  \/ signal'[g] \/ (lpc' = "signal" /\ target' = g)
                          \/ (g < MaxRegs /\ tpc'[g + 1] = "closing")
        BY DEF NoLostWakeup
      <3>1. tpc[g] = "parked" /\ g # regs + 1
        BY <1>5, <2>1 DEF TypeOK
      <3>2. CASE g = registry
        BY <1>5, <2>1, <3>1, <3>2 DEF TypeOK, RegInv, TaskInv
      <3>3. CASE g # registry
        <4>1. queue[g] # <<>> \/ shut[g]
          BY <1>5, <3>3, Zenon
        <4>2. ~(g < MaxRegs /\ tpc[g + 1] = "closing")
          BY <1>5 DEF RegistryFree
        <4> QED BY <1>5, <3>1, <4>1, <4>2 DEF NoLostWakeup
      <3> QED BY <3>2, <3>3
    <2> QED BY <2>2, <2>3, <2>4
  <1>6. ASSUME NEW g \in Regs, CloseSignal(g) PROVE WakeInv'
    <2> USE DEF CloseSignal, loopVars, peerVars
    <2>1. g - 1 \in Regs
      BY <1>6 DEF TypeOK, RegInv, TaskInv
    <2>2. TypeOK'
      BY <1>6, <2>1, Zenon DEF TypeOK
    <2>3. RegInv'
      BY <1>6, Zenon DEF TypeOK, RegInv, TaskInv
    <2>4. NoLostWakeup'
      <3> SUFFICES ASSUME NEW h \in Regs, tpc'[h] = "parked", queue'[h] # <<>> \/ shut'[h]
                   PROVE  \/ signal'[h] \/ (lpc' = "signal" /\ target' = h)
                          \/ (h < MaxRegs /\ tpc'[h + 1] = "closing")
        BY DEF NoLostWakeup
      <3>1. h # g /\ tpc[h] = "parked"
        BY <1>6 DEF TypeOK
      <3>2. \/ signal[h] \/ (lpc = "signal" /\ target = h)
            \/ (h < MaxRegs /\ tpc[h + 1] = "closing")
        BY <1>6, <3>1 DEF NoLostWakeup
      <3> QED BY <1>6, <2>1, <3>1, <3>2 DEF TypeOK
    <2> QED BY <2>2, <2>3, <2>4
  <1>7. ASSUME NEW g \in Regs, Spawn(g) PROVE WakeInv'
    <2> USE DEF Spawn, chanVars, loopVars, peerVars
    <2>1. TypeOK'
      BY <1>7 DEF TypeOK
    <2>2. RegInv'
      <3>1. ASSUME NEW h \in Regs PROVE TaskInv(h)'
        BY <1>7, Zenon DEF TypeOK, RegInv, TaskInv
      <3>2. registry' # 0 => tpc'[registry'] # "done"
        BY <1>7 DEF TypeOK, RegInv, TaskInv
      <3> QED BY <1>7, <3>1, <3>2 DEF RegInv, TaskInv
    <2>3. NoLostWakeup'
      <3> SUFFICES ASSUME NEW h \in Regs, tpc'[h] = "parked", queue'[h] # <<>> \/ shut'[h]
                   PROVE  \/ signal'[h] \/ (lpc' = "signal" /\ target' = h)
                          \/ (h < MaxRegs /\ tpc'[h + 1] = "closing")
        BY DEF NoLostWakeup
      <3>1. h # g /\ tpc[h] = "parked"
        BY <1>7 DEF TypeOK
      <3>2. \/ signal[h] \/ (lpc = "signal" /\ target = h)
            \/ (h < MaxRegs /\ tpc[h + 1] = "closing")
        BY <1>7, <3>1 DEF NoLostWakeup
      <3> QED BY <1>7, <3>1, <3>2 DEF TypeOK
    <2> QED BY <2>1, <2>2, <2>3
  <1>8. ASSUME NEW g \in Regs, Recv(g) PROVE WakeInv'
    <2> USE DEF Recv, loopVars, peerVars
    <2>1. CASE queue[g] # <<>>
      <3>1. queue[g] \in Seq(Calls)
        BY DEF TypeOK
      <3>2. Head(queue[g]) \in Calls /\ Tail(queue[g]) \in Seq(Calls)
        BY <2>1, <3>1, HeadTailProperties, Zenon
      <3>3. /\ held' = [held EXCEPT ![g] = Head(queue[g])]
            /\ queue' = [queue EXCEPT ![g] = Tail(queue[g])]
            /\ tpc' = [tpc EXCEPT ![g] = "handle"]
        BY <1>8, <2>1
      <3>4. TypeOK'
        <4>1. held' \in [Regs -> 0 .. MaxCalls]
          <5>1. Head(queue[g]) \in 0 .. MaxCalls
            BY <3>2
          <5> QED BY <3>3, <5>1 DEF TypeOK
        <4>2. queue' \in [Regs -> Seq(Calls)]
          BY <3>2, <3>3 DEF TypeOK
        <4> QED BY <1>8, <3>3, <4>1, <4>2, Zenon DEF TypeOK
      <3>5. RegInv'
        <4>1. ASSUME NEW h \in Regs PROVE TaskInv(h)'
          <5>1. Head(queue[g]) # 0
            BY <3>2
          <5>2. TaskInv(h) /\ TaskInv(g)
            BY DEF RegInv
          <5>3. CASE h = g
            BY <1>8, <3>3, <5>1, <5>2, <5>3 DEF TypeOK, TaskInv
          <5>4. CASE h # g
            BY <1>8, <3>3, <5>2, <5>4 DEF TypeOK, TaskInv
          <5> QED BY <5>3, <5>4
        <4>2. registry' # 0 => tpc'[registry'] # "done"
          BY <1>8, <3>3 DEF TypeOK, RegInv, TaskInv
        <4> QED BY <1>8, <4>1, <4>2 DEF RegInv, TaskInv
      <3>6. NoLostWakeup'
        <4> SUFFICES ASSUME NEW h \in Regs, tpc'[h] = "parked", queue'[h] # <<>> \/ shut'[h]
                     PROVE  \/ signal'[h] \/ (lpc' = "signal" /\ target' = h)
                            \/ (h < MaxRegs /\ tpc'[h + 1] = "closing")
          BY DEF NoLostWakeup
        <4>1. h # g /\ tpc[h] = "parked"
          BY <3>3 DEF TypeOK
        <4>2. \/ signal[h] \/ (lpc = "signal" /\ target = h)
              \/ (h < MaxRegs /\ tpc[h + 1] = "closing")
          BY <1>8, <3>3, <4>1, Zenon DEF NoLostWakeup, TypeOK
        <4> QED BY <1>8, <3>3, <4>1, <4>2 DEF TypeOK
      <3> QED BY <3>4, <3>5, <3>6
    <2>2. CASE queue[g] = <<>>
      <3>1. /\ tpc' = [tpc EXCEPT ![g] = IF shut[g] THEN Leave(g) ELSE "parked"]
            /\ UNCHANGED <<registry, regs, chanVars, kind, held, loopVars, peerVars>>
        BY <1>8, <2>2 DEF chanVars
      <3> USE DEF chanVars
      <3>2. TypeOK'
        BY <3>1 DEF TypeOK, Leave
      <3>3. RegInv'
        <4>1. ASSUME NEW h \in Regs PROVE TaskInv(h)'
          BY <1>8, <3>1, Zenon DEF TypeOK, RegInv, TaskInv, Leave
        <4>2. registry' # 0 => tpc'[registry'] # "done"
          BY <1>8, <3>1 DEF TypeOK, RegInv, TaskInv, Leave
        <4> QED BY <3>1, <4>1, <4>2 DEF RegInv, TaskInv
      <3>4. NoLostWakeup'
        <4> SUFFICES ASSUME NEW h \in Regs, tpc'[h] = "parked", queue'[h] # <<>> \/ shut'[h]
                     PROVE  \/ signal'[h] \/ (lpc' = "signal" /\ target' = h)
                            \/ (h < MaxRegs /\ tpc'[h + 1] = "closing")
          BY DEF NoLostWakeup
        <4>1. h # g /\ tpc[h] = "parked"
          BY <2>2, <3>1, Zenon DEF TypeOK, Leave
        <4>2. \/ signal[h] \/ (lpc = "signal" /\ target = h)
              \/ (h < MaxRegs /\ tpc[h + 1] = "closing")
          BY <3>1, <4>1 DEF NoLostWakeup
        <4> QED BY <1>8, <3>1, <4>1, <4>2 DEF TypeOK
      <3> QED BY <3>2, <3>3, <3>4
    <2> QED BY <2>1, <2>2
  <1>9. ASSUME NEW g \in Regs, Wake(g) PROVE WakeInv'
    <2> USE DEF Wake, loopVars, peerVars
    <2>1. TypeOK'
      BY <1>9 DEF TypeOK
    <2>2. RegInv'
      <3>1. ASSUME NEW h \in Regs PROVE TaskInv(h)'
        BY <1>9, Zenon DEF TypeOK, RegInv, TaskInv
      <3>2. registry' # 0 => tpc'[registry'] # "done"
        BY <1>9 DEF TypeOK, RegInv, TaskInv
      <3> QED BY <1>9, <3>1, <3>2 DEF RegInv, TaskInv
    <2>3. NoLostWakeup'
      <3> SUFFICES ASSUME NEW h \in Regs, tpc'[h] = "parked", queue'[h] # <<>> \/ shut'[h]
                   PROVE  \/ signal'[h] \/ (lpc' = "signal" /\ target' = h)
                          \/ (h < MaxRegs /\ tpc'[h + 1] = "closing")
        BY DEF NoLostWakeup
      <3>1. h # g /\ tpc[h] = "parked"
        BY <1>9 DEF TypeOK
      <3>2. \/ signal[h] \/ (lpc = "signal" /\ target = h)
            \/ (h < MaxRegs /\ tpc[h + 1] = "closing")
        BY <1>9, <3>1 DEF NoLostWakeup
      <3> QED BY <1>9, <3>1, <3>2 DEF TypeOK
    <2> QED BY <2>1, <2>2, <2>3
  <1>10. ASSUME NEW g \in Regs, GiveUp(g) PROVE WakeInv'
    <2> USE DEF GiveUp, chanVars, loopVars, peerVars
    <2>1. TypeOK'
      BY <1>10 DEF TypeOK
    <2>2. RegInv'
      <3>1. ASSUME NEW h \in Regs PROVE TaskInv(h)'
        BY <1>10, Zenon DEF TypeOK, RegInv, TaskInv
      <3>2. registry' # 0 => tpc'[registry'] # "done"
        BY <1>10 DEF TypeOK, RegInv, TaskInv
      <3> QED BY <1>10, <3>1, <3>2 DEF RegInv, TaskInv
    <2>3. NoLostWakeup'
      <3> SUFFICES ASSUME NEW h \in Regs, tpc'[h] = "parked", queue'[h] # <<>> \/ shut'[h]
                   PROVE  \/ signal'[h] \/ (lpc' = "signal" /\ target' = h)
                          \/ (h < MaxRegs /\ tpc'[h + 1] = "closing")
        BY DEF NoLostWakeup
      <3>1. h # g /\ tpc[h] = "parked"
        BY <1>10 DEF TypeOK
      <3>2. \/ signal[h] \/ (lpc = "signal" /\ target = h)
            \/ (h < MaxRegs /\ tpc[h + 1] = "closing")
        BY <1>10, <3>1 DEF NoLostWakeup
      <3> QED BY <1>10, <3>1, <3>2 DEF TypeOK
    <2> QED BY <2>1, <2>2, <2>3
  <1>11. ASSUME NEW g \in Regs, Handle(g) PROVE WakeInv'
    <2> USE DEF Handle, Respond, chanVars, loopVars
    <2>1. TypeOK'
      <3>1. held[g] \in Calls
        BY <1>11 DEF TypeOK, RegInv, TaskInv
      <3>2. runs' \in [Calls -> Nat]
        <4>1. [runs EXCEPT ![held[g]] = @ + 1] \in [Calls -> Nat]
          <5>1. runs \in [Calls -> Nat] /\ runs[held[g]] + 1 \in Nat
            BY <3>1 DEF TypeOK
          <5> QED BY <3>1, <5>1
        <4> QED BY <1>11, <4>1 DEF TypeOK
      <3>3. replies' \in [Calls -> Nat]
        <4>1. Respond(held[g]) \in [Calls -> Nat]
          BY <3>1 DEF TypeOK
        <4> QED BY <1>11, <4>1 DEF TypeOK
      <3>4. held' \in [Regs -> 0 .. MaxCalls]
        BY <1>11 DEF TypeOK
      <3>5. tpc' \in [Regs -> {"unborn", "closing", "spawn", "recv", "parked", "handle",
                               "remove", "done", "dropped"}]
        BY <1>11 DEF TypeOK
      <3> HIDE DEF Respond
      <3> QED BY <1>11, <3>2, <3>3, <3>4, <3>5, Zenon DEF TypeOK
    <2>2. RegInv'
      <3>1. ASSUME NEW h \in Regs PROVE TaskInv(h)'
        BY <1>11 DEF TypeOK, RegInv, TaskInv
      <3>2. registry' # 0 => tpc'[registry'] # "done"
        BY <1>11 DEF TypeOK, RegInv, TaskInv
      <3> QED BY <1>11, <3>1, <3>2 DEF RegInv, TaskInv
    <2>3. NoLostWakeup'
      <3> SUFFICES ASSUME NEW h \in Regs, tpc'[h] = "parked", queue'[h] # <<>> \/ shut'[h]
                   PROVE  \/ signal'[h] \/ (lpc' = "signal" /\ target' = h)
                          \/ (h < MaxRegs /\ tpc'[h + 1] = "closing")
        BY DEF NoLostWakeup
      <3>1. h # g /\ tpc[h] = "parked"
        BY <1>11 DEF TypeOK
      <3>2. \/ signal[h] \/ (lpc = "signal" /\ target = h)
            \/ (h < MaxRegs /\ tpc[h + 1] = "closing")
        BY <1>11, <3>1 DEF NoLostWakeup
      <3> QED BY <1>11, <3>1, <3>2 DEF TypeOK
    <2> QED BY <2>1, <2>2, <2>3
  <1>12. ASSUME NEW g \in Regs, Remove(g) PROVE WakeInv'
    <2> USE DEF Remove, RegistryFree, chanVars, loopVars, peerVars
    <2>1. TypeOK'
      <3>1. registry' \in 0 .. MaxRegs
        BY <1>12 DEF TypeOK
      <3> QED BY <1>12, <3>1 DEF TypeOK
    <2>2. RegInv'
      <3>1. ASSUME NEW h \in Regs PROVE TaskInv(h)'
        BY <1>12, Zenon DEF TypeOK, RegInv, TaskInv
      <3>2. registry' # 0 => tpc'[registry'] # "done"
        BY <1>12 DEF TypeOK, RegInv, TaskInv
      <3> QED BY <1>12, <3>1, <3>2 DEF RegInv, TaskInv
    <2>3. NoLostWakeup'
      <3> SUFFICES ASSUME NEW h \in Regs, tpc'[h] = "parked", queue'[h] # <<>> \/ shut'[h]
                   PROVE  \/ signal'[h] \/ (lpc' = "signal" /\ target' = h)
                          \/ (h < MaxRegs /\ tpc'[h + 1] = "closing")
        BY DEF NoLostWakeup
      <3>1. h # g /\ tpc[h] = "parked"
        BY <1>12 DEF TypeOK
      <3>2. \/ signal[h] \/ (lpc = "signal" /\ target = h)
            \/ (h < MaxRegs /\ tpc[h + 1] = "closing")
        BY <1>12, <3>1 DEF NoLostWakeup
      <3> QED BY <1>12, <3>1, <3>2 DEF TypeOK
    <2> QED BY <2>1, <2>2, <2>3
  <1>13. ASSUME NEW g \in Regs, DropWait(g) PROVE WakeInv'
    <2> USE DEF DropWait, chanVars, loopVars
    <2>1. TypeOK'
      <3>1. runs' \in [Calls -> Nat]
        <4>1. tpc[g] = "handle" => held[g] \in Calls
          BY DEF TypeOK, RegInv, TaskInv
        <4>2. CASE tpc[g] = "handle"
          <5>1. runs \in [Calls -> Nat] /\ runs[held[g]] + 1 \in Nat
            BY <4>1, <4>2 DEF TypeOK
          <5> QED BY <1>13, <4>1, <4>2, <5>1
        <4>3. CASE tpc[g] # "handle"
          BY <1>13, <4>3 DEF TypeOK
        <4> QED BY <4>2, <4>3
      <3> QED BY <1>13, <3>1, Zenon DEF TypeOK
    <2>2. RegInv'
      <3>1. ASSUME NEW h \in Regs PROVE TaskInv(h)'
        BY <1>13 DEF TypeOK, RegInv, TaskInv
      <3>2. registry' # 0 => tpc'[registry'] # "done"
        BY <1>13 DEF TypeOK, RegInv
      <3> QED BY <1>13, <3>1, <3>2 DEF RegInv
    <2>3. NoLostWakeup'
      <3> SUFFICES ASSUME NEW h \in Regs, tpc'[h] = "parked", queue'[h] # <<>> \/ shut'[h]
                   PROVE  \/ signal'[h] \/ (lpc' = "signal" /\ target' = h)
                          \/ (h < MaxRegs /\ tpc'[h + 1] = "closing")
        BY DEF NoLostWakeup
      <3>1. h # g /\ tpc[h] = "parked"
        BY <1>13 DEF TypeOK
      <3>2. \/ signal[h] \/ (lpc = "signal" /\ target = h)
            \/ (h < MaxRegs /\ tpc[h + 1] = "closing")
        BY <1>13, <3>1 DEF NoLostWakeup
      <3> QED BY <1>13, <3>1, <3>2 DEF TypeOK
    <2> QED BY <2>1, <2>2, <2>3
  <1>14. CASE UNCHANGED vars
    BY <1>14 DEF vars, chanVars, taskVars, loopVars, peerVars, TypeOK, RegInv, TaskInv, NoLostWakeup
  <1> QED BY <1>1, <1>2, <1>3, <1>4, <1>5, <1>6, <1>7, <1>8, <1>9, <1>10, <1>11, <1>12,
             <1>13, <1>14 DEF Next, Dispatching, TaskStep

------------------------------------------------------------------------------
LEMMA PlaceInit == Init => PlaceInv
  BY DispatchAssumption DEF Init, PlaceInv, ArriveInv, QueueInv, HeldInv, AtMostOnce,
     OnceQueued, Untouched, Arriving, Calls, Regs

LEMMA QueueFrame == OnceQueued /\ UNCHANGED queue => OnceQueued'
  BY DEF OnceQueued

\* Most steps move no message: what is still arriving, queued and held is the same.
LEMMA PlaceFrame ==
  ASSUME TypeOK, PlaceInv, UNCHANGED <<queue, held, replies, runs>>,
         \A g \in Regs : tpc'[g] = "handle" => tpc[g] = "handle",
         \A c \in 0 .. MaxCalls : Arriving(c)' <=> Arriving(c)
  PROVE  PlaceInv'
  <1> USE DispatchAssumption DEF Calls, Regs
  <1>1. ArriveInv' /\ AtMostOnce'
    BY DEF PlaceInv, ArriveInv, AtMostOnce, Untouched
  <1>2. QueueInv'
    <2>1. ASSUME NEW g \in Regs, NEW i \in 1 .. Len(queue[g])
          PROVE  Untouched(queue[g][i])' /\ ~Arriving(queue[g][i])'
      <3>1. queue[g] \in Seq(Calls)
        BY DEF TypeOK
      <3>2. queue[g][i] \in 0 .. MaxCalls /\ queue'[g][i] = queue[g][i]
        BY <3>1
      <3>3. Untouched(queue[g][i]) /\ ~Arriving(queue[g][i])
        BY DEF PlaceInv, QueueInv
      <3>4. Untouched(queue[g][i])' <=> Untouched(queue[g][i])
        BY DEF Untouched
      <3> QED BY <3>2, <3>3, <3>4
    <2> QED BY <2>1, QueueFrame DEF PlaceInv, QueueInv
  <1>3. HeldInv'
    <2>1. ASSUME NEW g \in Regs
          PROVE  /\ tpc'[g] = "handle" => Untouched(held[g])'
                 /\ held[g] # 0 => ~Arriving(held[g])'
      <3>1. held[g] \in 0 .. MaxCalls /\ held'[g] = held[g]
        BY DEF TypeOK
      <3>2. Untouched(held[g])' <=> Untouched(held[g])
        BY DEF Untouched
      <3> QED BY <3>1, <3>2 DEF PlaceInv, HeldInv
    <2> QED BY <2>1 DEF PlaceInv, HeldInv
  <1> QED BY <1>1, <1>2, <1>3 DEF PlaceInv

LEMMA PlaceNext == WakeInv /\ PlaceInv /\ [Next]_vars => PlaceInv'
  <1> SUFFICES ASSUME WakeInv, PlaceInv, [Next]_vars PROVE PlaceInv'
    OBVIOUS
  <1> USE DispatchAssumption DEF WakeInv, Regs, Calls
  <1>0. \A g \in Regs : queue[g] \in Seq(Calls) /\ Len(queue[g]) \in Nat
    BY DEF TypeOK
  <1>00. \A g \in Regs : \A i \in 1 .. Len(queue[g]) : queue[g][i] \in Calls
    BY <1>0
  <1>1. CASE LookUp
    <2>1. \A c \in 0 .. MaxCalls : Arriving(c)' <=> Arriving(c)
      BY <1>1 DEF LookUp, Arriving, TypeOK
    <2>2. UNCHANGED <<queue, held, replies, runs, tpc>>
      BY <1>1 DEF LookUp, chanVars, taskVars, peerVars
    <2> QED BY <2>1, <2>2, PlaceFrame
  <1>2. CASE Refuse
    <2>1. call \in Calls /\ Arriving(call)
      BY <1>2 DEF Refuse, TypeOK, RegInv, Arriving
    <2>2. \A c \in 0 .. MaxCalls : Arriving(c)' <=> Arriving(c) /\ c # call
      BY <1>2 DEF Refuse, Arriving, TypeOK
    <2>3. \A c \in Calls : c # call => (Untouched(c)' <=> Untouched(c))
      BY <1>2, <2>1 DEF Refuse, Respond, Untouched, TypeOK
    <2>4. UNCHANGED <<queue, held, tpc>>
      BY <1>2 DEF Refuse, chanVars, taskVars
    <2>5. AtMostOnce'
      BY <1>2, <2>1 DEF Refuse, Respond, PlaceInv, ArriveInv, AtMostOnce, Untouched, TypeOK
    <2>6. ArriveInv'
      BY <2>1, <2>2, <2>3 DEF PlaceInv, ArriveInv
    <2>7. QueueInv'
      <3>1. ASSUME NEW h \in Regs, NEW i \in 1 .. Len(queue[h])
            PROVE  Untouched(queue[h][i])' /\ ~Arriving(queue[h][i])'
        <4>1. queue[h][i] \in Calls /\ queue'[h][i] = queue[h][i]
          BY <1>00, <2>4
        <4>2. Untouched(queue[h][i]) /\ ~Arriving(queue[h][i])
          BY DEF PlaceInv, QueueInv
        <4>3. queue[h][i] # call /\ queue[h][i] \in 0 .. MaxCalls
          BY <2>1, <4>1, <4>2
        <4> QED BY <2>2, <2>3, <4>1, <4>2, <4>3
      <3>2. OnceQueued'
        BY <2>4, QueueFrame DEF PlaceInv, QueueInv
      <3> QED BY <2>4, <3>1, <3>2 DEF QueueInv
    <2>8. HeldInv'
      <3>1. \A h \in Regs : held[h] # 0 => held[h] \in Calls /\ held[h] # call
        BY <2>1 DEF PlaceInv, HeldInv, TypeOK
      <3>2. \A h \in Regs : tpc[h] = "handle" => held[h] # 0
        BY DEF RegInv, TaskInv
      <3>3. \A h \in Regs : /\ tpc'[h] = "handle" => Untouched(held[h])'
                            /\ held'[h] # 0 => ~Arriving(held[h])'
        BY <2>2, <2>3, <2>4, <3>1, <3>2 DEF PlaceInv, HeldInv
      <3> QED BY <2>4, <3>3 DEF PlaceInv, HeldInv
    <2> QED BY <2>5, <2>6, <2>7, <2>8 DEF PlaceInv
  <1>3. CASE Push
    <2>1. call \in Calls /\ target \in Regs /\ Arriving(call)
      BY <1>3 DEF Push, TypeOK, RegInv, Arriving
    <2>2. \A c \in 0 .. MaxCalls : Arriving(c)' <=> Arriving(c) /\ c # call
      BY <1>3 DEF Push, Arriving, TypeOK
    <2>3. UNCHANGED <<held, replies, runs, tpc>>
      BY <1>3 DEF Push, taskVars, peerVars
    <2>4. \A c \in Calls : Untouched(c)' <=> Untouched(c)
      BY <2>3 DEF Untouched
    <2>5. \A g \in Regs : g # target => queue'[g] = queue[g]
      BY <1>3 DEF Push, TypeOK
    <2>6. /\ Len(queue'[target]) = Len(queue[target]) + 1
          /\ \A i \in 1 .. Len(queue[target]) : queue'[target][i] = queue[target][i]
          /\ queue'[target][Len(queue[target]) + 1] = call
      BY <1>3, <1>0, <2>1 DEF Push, TypeOK
    <2>7. \A g \in Regs : \A i \in 1 .. Len(queue'[g]) :
             \/ i \in 1 .. Len(queue[g]) /\ queue'[g][i] = queue[g][i]
             \/ g = target /\ i = Len(queue[g]) + 1 /\ queue'[g][i] = call
      <3> TAKE g \in Regs
      <3> TAKE i \in 1 .. Len(queue'[g])
      <3>1. CASE g = target
        <4>1. Len(queue[target]) \in Nat /\ i \in 1 .. Len(queue[target]) + 1
          BY <1>0, <2>1, <2>6, <3>1
        <4>2. i \in 1 .. Len(queue[target]) \/ i = Len(queue[target]) + 1
          BY <4>1
        <4> QED BY <2>6, <3>1, <4>2
      <3>2. CASE g # target
        BY <2>5, <3>2
      <3> QED BY <3>1, <3>2
    <2>8. \A g \in Regs : \A i \in 1 .. Len(queue[g]) : queue[g][i] # call
      BY <2>1 DEF PlaceInv, QueueInv
    <2>9. \A g \in Regs : held[g] # call
      BY <2>1 DEF PlaceInv, HeldInv
    <2>10. ArriveInv' /\ AtMostOnce'
      BY <2>2, <2>3, <2>4 DEF PlaceInv, ArriveInv, AtMostOnce
    <2>11. QueueInv'
      <3>1. ASSUME NEW g \in Regs, NEW i \in 1 .. Len(queue'[g])
            PROVE  Untouched(queue[g][i])' /\ ~Arriving(queue[g][i])'
        <4>1. Untouched(call)
          BY <2>1 DEF PlaceInv, ArriveInv
        <4>2. CASE i \in 1 .. Len(queue[g]) /\ queue'[g][i] = queue[g][i]
          <5>1. Untouched(queue[g][i]) /\ ~Arriving(queue[g][i])
            BY <4>2 DEF PlaceInv, QueueInv
          <5> QED BY <1>00, <2>2, <2>4, <4>2, <5>1
        <4>3. CASE queue'[g][i] = call
          BY <2>1, <2>2, <2>4, <4>1, <4>3
        <4> QED BY <2>7, <4>2, <4>3
      <3>2. ASSUME NEW g \in Regs, NEW h \in Regs, NEW i \in 1 .. Len(queue'[g]),
                   NEW j \in 1 .. Len(queue'[h]), queue'[g][i] = queue'[h][j]
            PROVE  g = h /\ i = j
        <4>1. \/ i \in 1 .. Len(queue[g]) /\ queue'[g][i] = queue[g][i]
              \/ g = target /\ i = Len(queue[g]) + 1 /\ queue'[g][i] = call
          BY <2>7
        <4>2. \/ j \in 1 .. Len(queue[h]) /\ queue'[h][j] = queue[h][j]
              \/ h = target /\ j = Len(queue[h]) + 1 /\ queue'[h][j] = call
          BY <2>7
        <4>3. CASE queue'[g][i] = call
          BY <2>8, <3>2, <4>1, <4>2, <4>3
        <4>4. CASE queue'[g][i] # call
          BY <3>2, <4>1, <4>2, <4>4 DEF PlaceInv, QueueInv, OnceQueued
        <4> QED BY <4>3, <4>4
      <3> QED BY <3>1, <3>2 DEF QueueInv, OnceQueued
    <2>12. HeldInv'
      <3>1. \A g, h \in Regs : \A i \in 1 .. Len(queue'[g]) : queue'[g][i] # held'[h]
        BY <2>3, <2>7, <2>9 DEF PlaceInv, HeldInv
      <3>2. \A g \in Regs : tpc[g] = "handle" => held[g] \in Calls
        BY DEF RegInv, TaskInv, TypeOK
      <3>3. \A g \in Regs : /\ tpc'[g] = "handle" => Untouched(held[g])'
                            /\ held'[g] # 0 => ~Arriving(held[g])'
        BY <2>2, <2>3, <2>4, <3>2 DEF PlaceInv, HeldInv, TypeOK
      <3> QED BY <2>3, <3>1, <3>3 DEF PlaceInv, HeldInv
    <2> QED BY <2>10, <2>11, <2>12 DEF PlaceInv
  <1>4. CASE Signal
    <2>1. \A c \in 0 .. MaxCalls : Arriving(c)' <=> Arriving(c)
      BY <1>4 DEF Signal, Arriving, TypeOK
    <2>2. UNCHANGED <<queue, held, replies, runs, tpc>>
      BY <1>4 DEF Signal, taskVars, peerVars
    <2> QED BY <2>1, <2>2, PlaceFrame
  <1>5. ASSUME NEW k \in Kinds, Register(k) PROVE PlaceInv'
    <2>1. UNCHANGED <<queue, held, replies, runs, lpc, call>>
      BY <1>5 DEF Register, loopVars, peerVars
    <2>2. \A h \in Regs : tpc'[h] = "handle" => tpc[h] = "handle"
      BY <1>5 DEF Register, TypeOK
    <2> QED BY <2>1, <2>2, PlaceFrame DEF Arriving
  <1>6. ASSUME NEW g \in Regs, Recv(g), queue[g] # <<>> PROVE PlaceInv'
    <2>1. /\ held' = [held EXCEPT ![g] = Head(queue[g])]
          /\ queue' = [queue EXCEPT ![g] = Tail(queue[g])]
          /\ tpc' = [tpc EXCEPT ![g] = "handle"]
          /\ UNCHANGED <<lpc, call, replies, runs>>
      BY <1>6 DEF Recv, loopVars, peerVars
    <2>2. /\ Head(queue[g]) = queue[g][1] /\ 1 \in 1 .. Len(queue[g])
          /\ Len(Tail(queue[g])) = Len(queue[g]) - 1
          /\ \A i \in 1 .. Len(Tail(queue[g])) : Tail(queue[g])[i] = queue[g][i + 1]
      BY <1>0, <1>6, HeadTailProperties
    <2> DEFINE was(h, i) == IF h = g THEN i + 1 ELSE i
    <2>3. \A h \in Regs : \A i \in 1 .. Len(queue'[h]) :
             /\ was(h, i) \in 1 .. Len(queue[h])
             /\ queue'[h][i] = queue[h][was(h, i)]
             /\ h = g => was(h, i) # 1
      <3> TAKE h \in Regs
      <3> TAKE i \in 1 .. Len(queue'[h])
      <3>1. CASE h = g
        <4>1. queue'[g] = Tail(queue[g])
          BY <2>1 DEF TypeOK
        <4>2. i \in 1 .. Len(Tail(queue[g])) /\ Len(queue[g]) \in Nat
          BY <1>0, <3>1, <4>1
        <4>3. i + 1 \in 1 .. Len(queue[g]) /\ i + 1 # 1
          BY <2>2, <4>2
        <4> QED BY <2>2, <3>1, <4>1, <4>2, <4>3
      <3>2. CASE h # g
        <4>1. queue'[h] = queue[h]
          BY <2>1, <3>2 DEF TypeOK
        <4> QED BY <3>2, <4>1
      <3> QED BY <3>1, <3>2
    <2>4. \A h \in Regs : held'[h] = IF h = g THEN queue[g][1] ELSE held[h]
      BY <2>1, <2>2 DEF TypeOK
    <2>5. \A c \in 0 .. MaxCalls : /\ Arriving(c)' <=> Arriving(c)
                                  /\ Untouched(c)' <=> Untouched(c)
      BY <2>1 DEF Arriving, Untouched
    <2>6. ArriveInv' /\ AtMostOnce'
      BY <2>1 DEF PlaceInv, ArriveInv, AtMostOnce, Arriving, Untouched
    <2>7. QueueInv'
      <3>1. ASSUME NEW h \in Regs, NEW i \in 1 .. Len(queue'[h])
            PROVE  Untouched(queue[h][i])' /\ ~Arriving(queue[h][i])'
        <4>1. PICK j \in 1 .. Len(queue[h]) : queue'[h][i] = queue[h][j]
          BY <2>3, Zenon
        <4> QED BY <1>00, <2>5, <4>1 DEF PlaceInv, QueueInv
      <3>2. ASSUME NEW x \in Regs, NEW y \in Regs, NEW i \in 1 .. Len(queue'[x]),
                   NEW j \in 1 .. Len(queue'[y]), queue'[x][i] = queue'[y][j]
            PROVE  x = y /\ i = j
        <4>1. /\ was(x, i) \in 1 .. Len(queue[x]) /\ queue'[x][i] = queue[x][was(x, i)]
              /\ was(y, j) \in 1 .. Len(queue[y]) /\ queue'[y][j] = queue[y][was(y, j)]
          BY <2>3
        <4> HIDE DEF was
        <4>2. x = y /\ was(x, i) = was(y, j)
          <5>1. \A m \in 1 .. Len(queue[x]), n \in 1 .. Len(queue[y]) :
                   queue[x][m] = queue[y][n] => x = y /\ m = n
            BY DEF PlaceInv, QueueInv, OnceQueued
          <5>2. queue[x][was(x, i)] = queue[y][was(y, j)]
            BY <3>2, <4>1, Zenon
          <5> QED BY <4>1, <5>1, <5>2
        <4>3. i \in Int /\ j \in Int
          OBVIOUS
        <4> QED BY <4>2, <4>3 DEF was
      <3> QED BY <3>1, <3>2 DEF QueueInv, OnceQueued
    <2>8. HeldInv'
      <3>1. ASSUME NEW h \in Regs
            PROVE  /\ tpc'[h] = "handle" => Untouched(held[h])'
                   /\ held'[h] # 0 => ~Arriving(held[h])'
        <4>1. CASE h = g
          <5>1. held'[h] = queue[g][1] /\ queue[g][1] \in Calls
            BY <1>00, <2>2, <2>4, <4>1
          <5>2. Untouched(queue[g][1]) /\ ~Arriving(queue[g][1])
            BY <2>2 DEF PlaceInv, QueueInv
          <5>3. Untouched(queue[g][1]) <=> Untouched(held[h])'
            BY <2>1, <5>1 DEF Untouched
          <5>4. Arriving(queue[g][1]) <=> Arriving(held[h])'
            BY <2>1, <5>1 DEF Arriving
          <5> QED BY <5>2, <5>3, <5>4
        <4>2. CASE h # g
          <5>1. held'[h] = held[h] /\ tpc'[h] = tpc[h]
            BY <2>1, <2>4, <4>2 DEF TypeOK
          <5>2. Untouched(held[h]) <=> Untouched(held[h])'
            BY <2>1, <5>1 DEF Untouched
          <5>3. Arriving(held[h]) <=> Arriving(held[h])'
            BY <2>1, <5>1 DEF Arriving
          <5> QED BY <5>1, <5>2, <5>3 DEF PlaceInv, HeldInv
        <4> QED BY <4>1, <4>2
      <3>2. ASSUME NEW x \in Regs, NEW h \in Regs, NEW i \in 1 .. Len(queue'[x])
            PROVE  queue'[x][i] # held'[h]
        <4>1. /\ was(x, i) \in 1 .. Len(queue[x]) /\ queue'[x][i] = queue[x][was(x, i)]
              /\ x = g => was(x, i) # 1
          BY <2>3
        <4> HIDE DEF was
        <4>2. CASE h = g
          <5>1. held'[h] = queue[g][1]
            BY <2>4, <4>2
          <5>2. queue[x][was(x, i)] # queue[g][1]
            BY <2>2, <4>1 DEF PlaceInv, QueueInv, OnceQueued
          <5> QED BY <4>1, <5>1, <5>2
        <4>3. CASE h # g
          BY <2>4, <4>1, <4>3 DEF PlaceInv, HeldInv
        <4> QED BY <4>2, <4>3
      <3>3. ASSUME NEW x \in Regs, NEW h \in Regs, held'[x] # 0, held'[x] = held'[h]
            PROVE  x = h
        BY <2>2, <2>4, <3>3 DEF PlaceInv, HeldInv
      <3> QED BY <3>1, <3>2, <3>3 DEF HeldInv
    <2> QED BY <2>6, <2>7, <2>8 DEF PlaceInv
  <1>7. ASSUME NEW g \in Regs, Handle(g) PROVE PlaceInv'
    <2>1. held[g] \in Calls /\ held[g] # 0
      BY <1>7 DEF Handle, TypeOK, RegInv, TaskInv
    <2>2. UNCHANGED <<queue, lpc, call>>
      BY <1>7 DEF Handle, chanVars, loopVars
    <2>3. \A h \in Regs : /\ held'[h] = IF h = g THEN 0 ELSE held[h]
                          /\ tpc'[h] = "handle" => h # g /\ tpc[h] = "handle"
      BY <1>7 DEF Handle, TypeOK
    <2>4. \A c \in Calls : c # held[g] => replies'[c] = replies[c] /\ runs'[c] = runs[c]
      BY <1>7, <2>1 DEF Handle, Respond, TypeOK
    <2>5. Untouched(held[g]) /\ ~Arriving(held[g])
      BY <1>7, <2>1 DEF Handle, PlaceInv, HeldInv
    <2>6. replies'[held[g]] <= 1 /\ runs'[held[g]] <= 1
      BY <1>7, <2>1, <2>5 DEF Handle, Respond, Untouched, TypeOK
    <2>7. AtMostOnce'
      BY <2>4, <2>6 DEF PlaceInv, AtMostOnce
    <2>8. /\ \A c \in Calls : c # held[g] => (Untouched(c)' <=> Untouched(c))
          /\ \A c \in 0 .. MaxCalls : Arriving(c)' <=> Arriving(c)
      BY <2>2, <2>4 DEF Untouched, Arriving
    <2>9. ArriveInv'
      BY <2>5, <2>8 DEF PlaceInv, ArriveInv
    <2>10. QueueInv'
      <3>1. \A h \in Regs : \A i \in 1 .. Len(queue[h]) : queue[h][i] # held[g]
        BY DEF PlaceInv, HeldInv
      <3>2. ASSUME NEW h \in Regs, NEW i \in 1 .. Len(queue[h])
            PROVE  Untouched(queue[h][i])' /\ ~Arriving(queue[h][i])'
        <4>1. queue[h][i] \in Calls /\ queue'[h][i] = queue[h][i]
          BY <1>00, <2>2
        <4>2. Untouched(queue[h][i]) /\ ~Arriving(queue[h][i])
          BY DEF PlaceInv, QueueInv
        <4>3. queue[h][i] # held[g] /\ queue[h][i] \in 0 .. MaxCalls
          BY <3>1, <4>1
        <4>4. Untouched(queue[h][i])'
          BY <2>4, <4>1, <4>2, <4>3 DEF Untouched
        <4>5. ~Arriving(queue[h][i])'
          BY <2>2, <4>2 DEF Arriving
        <4> QED BY <4>4, <4>5
      <3>3. OnceQueued'
        BY <2>2, QueueFrame DEF PlaceInv, QueueInv
      <3> QED BY <2>2, <3>2, <3>3 DEF QueueInv
    <2>11. HeldInv'
      <3>1. \A h \in Regs : h # g => held[h] # held[g]
        BY <2>1 DEF PlaceInv, HeldInv
      <3>2. ASSUME NEW h \in Regs
            PROVE  /\ tpc'[h] = "handle" => Untouched(held[h])'
                   /\ held'[h] # 0 => ~Arriving(held[h])'
        <4>1. tpc[h] = "handle" => held[h] \in Calls
          BY DEF RegInv, TaskInv, TypeOK
        <4>2. held[h] \in 0 .. MaxCalls
          BY DEF TypeOK
        <4> QED BY <2>3, <2>8, <3>1, <4>1, <4>2 DEF PlaceInv, HeldInv
      <3>3. ASSUME NEW x \in Regs, NEW h \in Regs, NEW i \in 1 .. Len(queue[x])
            PROVE  queue[x][i] # held'[h]
        <4>1. queue[x][i] \in Calls /\ queue[x][i] # held[h]
          BY <1>00 DEF PlaceInv, HeldInv
        <4> QED BY <2>3, <4>1
      <3>4. \A x, h \in Regs : held'[x] # 0 /\ held'[x] = held'[h] => x = h
        BY <2>3 DEF PlaceInv, HeldInv
      <3> QED BY <2>2, <3>2, <3>3, <3>4 DEF HeldInv
    <2> QED BY <2>7, <2>9, <2>10, <2>11 DEF PlaceInv
  <1>8. ASSUME NEW g \in Regs, \/ CloseSignal(g) \/ Spawn(g) \/ Wake(g) \/ GiveUp(g)
                               \/ Remove(g) \/ (Recv(g) /\ queue[g] = <<>>)
        PROVE  PlaceInv'
    <2>1. UNCHANGED <<queue, held, replies, runs, lpc, call>>
      BY <1>8 DEF CloseSignal, Spawn, Wake, GiveUp, Remove, Recv, chanVars, loopVars, peerVars
    <2>2. \A h \in Regs : tpc'[h] = "handle" => tpc[h] = "handle"
      BY <1>8, Zenon DEF CloseSignal, Spawn, Wake, GiveUp, Remove, Recv, Leave, TypeOK
    <2> QED BY <2>1, <2>2, PlaceFrame DEF Arriving
  <1>10. ASSUME NEW g \in Regs, DropWait(g) PROVE PlaceInv'
    <2>1. UNCHANGED <<queue, held, replies, lpc, call>>
      BY <1>10 DEF DropWait, chanVars, loopVars
    <2>2. \A h \in Regs : tpc'[h] = "handle" => h # g /\ tpc[h] = "handle"
      BY <1>10 DEF DropWait, TypeOK
    <2>3. CASE tpc[g] # "handle"
      <3>1. UNCHANGED runs
        BY <1>10, <2>3 DEF DropWait
      <3> QED BY <2>1, <2>2, <3>1, PlaceFrame DEF Arriving
    <2>4. CASE tpc[g] = "handle"
      <3>1. held[g] \in Calls /\ held[g] # 0
        BY <2>4 DEF TypeOK, RegInv, TaskInv
      <3>2. runs' = [runs EXCEPT ![held[g]] = @ + 1]
        BY <1>10, <2>4 DEF DropWait
      <3>3. \A c \in Calls : c # held[g] => runs'[c] = runs[c]
        BY <3>1, <3>2 DEF TypeOK
      <3>4. Untouched(held[g]) /\ ~Arriving(held[g])
        BY <2>4, <3>1 DEF PlaceInv, HeldInv
      <3>5. AtMostOnce'
        <4>1. runs'[held[g]] <= 1
          BY <3>1, <3>2, <3>4 DEF Untouched, TypeOK
        <4> QED BY <2>1, <3>3, <4>1 DEF PlaceInv, AtMostOnce
      <3>6. /\ \A c \in Calls : c # held[g] => (Untouched(c)' <=> Untouched(c))
            /\ \A c \in 0 .. MaxCalls : Arriving(c)' <=> Arriving(c)
        BY <2>1, <3>3 DEF Untouched, Arriving
      <3>7. ArriveInv'
        BY <3>4, <3>6 DEF PlaceInv, ArriveInv
      <3>8. QueueInv'
        <4>1. ASSUME NEW h \in Regs, NEW i \in 1 .. Len(queue[h])
              PROVE  Untouched(queue[h][i])' /\ ~Arriving(queue[h][i])'
          <5>1. /\ queue[h][i] \in Calls /\ queue'[h][i] = queue[h][i]
                /\ queue[h][i] # held[g]
            BY <1>00, <2>1 DEF PlaceInv, HeldInv
          <5>2. Untouched(queue[h][i]) /\ ~Arriving(queue[h][i])
            BY DEF PlaceInv, QueueInv
          <5>3. Untouched(queue[h][i])'
            BY <2>1, <3>3, <5>1, <5>2 DEF Untouched
          <5>4. ~Arriving(queue[h][i])'
            BY <2>1, <5>2 DEF Arriving
          <5> QED BY <5>3, <5>4
        <4>2. OnceQueued'
          BY <2>1, QueueFrame DEF PlaceInv, QueueInv
        <4> QED BY <2>1, <4>1, <4>2 DEF QueueInv
      <3>9. HeldInv'
        <4>1. ASSUME NEW h \in Regs
              PROVE  /\ tpc'[h] = "handle" => Untouched(held[h])'
                     /\ held'[h] # 0 => ~Arriving(held[h])'
          <5>1. tpc[h] = "handle" => held[h] \in Calls
            BY DEF RegInv, TaskInv, TypeOK
          <5>2. held[h] \in 0 .. MaxCalls /\ held'[h] = held[h]
            BY <2>1 DEF TypeOK
          <5>3. h # g => held[h] # held[g]
            BY <3>1 DEF PlaceInv, HeldInv
          <5> QED BY <2>2, <3>6, <5>1, <5>2, <5>3 DEF PlaceInv, HeldInv
        <4> QED BY <2>1, <4>1 DEF PlaceInv, HeldInv
      <3> QED BY <3>5, <3>7, <3>8, <3>9 DEF PlaceInv
    <2> QED BY <2>3, <2>4
  <1>9. CASE UNCHANGED vars
    <2>1. UNCHANGED <<queue, held, replies, runs, lpc, call, tpc>>
      BY <1>9 DEF vars, chanVars, taskVars, loopVars, peerVars
    <2> QED BY <2>1, PlaceFrame DEF Arriving
  <1> QED BY <1>1, <1>2, <1>3, <1>4, <1>5, <1>6, <1>7, <1>8, <1>9, <1>10
          DEF Next, Dispatching, TaskStep

------------------------------------------------------------------------------
\* The check-queue-then-wait loop is race-free (sync.rs:98-101): a parked task with
\* something to read, or whose channel is closed, is or is being signalled.
THEOREM WakeupsAreKept == Spec => []NoLostWakeup
  <1>1. Spec => []WakeInv
    BY WakeInit, WakeNext, PTL DEF Spec
  <1>2. WakeInv => NoLostWakeup
    BY DEF WakeInv
  <1> QED BY <1>1, <1>2, PTL

\* The action is never bound to a channel that is closed or has lost its reader
\* (client.rs:473-475, 504-507).
THEOREM BindingsAreRead == Spec => []BoundToReader
  <1>1. Spec => []WakeInv
    BY WakeInit, WakeNext, PTL DEF Spec
  <1>2. WakeInv => BoundToReader
    BY DispatchAssumption DEF WakeInv, TypeOK, RegInv, TaskInv, BoundToReader, Regs
  <1> QED BY <1>1, <1>2, PTL

\* A message is answered, and given to a callback, at most once, however handlers
\* are replaced while it is dispatched.
THEOREM HandledAtMostOnce == Spec => []AtMostOnce
  <1>1. Spec => []WakeInv
    BY WakeInit, WakeNext, PTL DEF Spec
  <1>2. Spec => []PlaceInv
    BY <1>1, PlaceInit, PlaceNext, PTL DEF Spec
  <1>3. PlaceInv => AtMostOnce
    BY DEF PlaceInv
  <1> QED BY <1>2, <1>3, PTL

\* Only the wait_for that made a registration unbinds the action
\* (client.rs:545-546).
THEOREM OthersStayBound == Spec => OnlyOwnerUnbinds
  <1>1. Spec => []WakeInv
    BY WakeInit, WakeNext, PTL DEF Spec
  <1>2. WakeInv /\ [Next]_vars
          => [registry # 0 /\ registry' = 0
                => tpc[registry] = "remove" /\ tpc'[registry] = "done"]_vars
    <2> SUFFICES ASSUME WakeInv, Next, registry # 0, registry' = 0
                 PROVE  tpc[registry] = "remove" /\ tpc'[registry] = "done"
      BY DEF vars
    <2>1. ASSUME NEW k \in Kinds, Register(k) PROVE FALSE
      BY <2>1 DEF Register, WakeInv, TypeOK
    <2>2. ASSUME NEW g \in Regs, Remove(g)
          PROVE  tpc[registry] = "remove" /\ tpc'[registry] = "done"
      BY <2>2 DEF Remove, WakeInv, TypeOK
    <2>3. CASE LookUp \/ Dispatching
      BY <2>3 DEF LookUp, Dispatching, Refuse, Push, Signal
    <2>4. ASSUME NEW g \in Regs, \/ CloseSignal(g) \/ Spawn(g) \/ Recv(g) \/ Wake(g)
                                 \/ GiveUp(g) \/ Handle(g) \/ DropWait(g)
          PROVE  FALSE
      BY <2>4 DEF CloseSignal, Spawn, Recv, Wake, GiveUp, Handle, DropWait
    <2> QED BY <2>1, <2>2, <2>3, <2>4 DEF Next, TaskStep
  <1> QED BY <1>1, <1>2, PTL DEF Spec, OnlyOwnerUnbinds

\* The receiver never replies to a SEND (client.rs:559).
THEOREM SendsStayUnanswered == Spec => []SendsGetNoReply
  <1>1. Init => SendsGetNoReply
    BY DEF Init, SendsGetNoReply
  <1>2. SendsGetNoReply /\ [Next]_vars => SendsGetNoReply'
    BY Zenon DEF SendsGetNoReply, Next, Dispatching, TaskStep, LookUp, Refuse, Push, Signal,
       Register, CloseSignal, Spawn, Recv, Wake, GiveUp, Handle, Remove, DropWait, vars,
       peerVars
  <1> QED BY <1>1, <1>2, PTL DEF Spec

==============================================================================
