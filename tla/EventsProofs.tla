---------------------------- MODULE EventsProofs -----------------------------
(***************************************************************************)
(* The safety properties of Events, for any subscribers and any number of  *)
(* events.                                                                 *)
(***************************************************************************)
EXTENDS Events, TLAPS

\* Only subscribers of the topic being announced are signalled, and each of
\* them is in the registry.
RegistryInv ==
    /\ \A s \in telling : Topic(s) = topic
    /\ \A s \in Subs : s \in telling \/ signal[s] => spc[s] # "unborn"
    /\ \A s \in Subs : s \in subscribers[Topic(s)] <=> spc[s] # "unborn"
    /\ \A k \in Topics : \A s \in subscribers[k] : Topic(s) = k
    /\ telling # {} => lpc = "telling"

\* What a subscriber still has coming, its latch and its place in notify_all,
\* is paid for by an announcement made since it subscribed.
Due(s) == (IF signal[s] THEN 1 ELSE 0) + (IF s \in telling THEN 1 ELSE 0)

DebtInv ==
    \A s \in Subs : /\ runs[s] + Due(s) + since[s] <= announced[Topic(s)]
                    /\ spc[s] = "unborn" => runs[s] = 0 /\ since[s] = 0
                    /\ seen[s] <= announced[Topic(s)]

\* The sink is one ahead of the redials announced, two while one is about to
\* be.
SwapInv == announced["reconnect"]
              + (IF lpc = "announce" /\ topic = "reconnect" THEN 2 ELSE 1) <= sink

EventsInv == TypeOK /\ RegistryInv /\ NoMissedEvent /\ DebtInv /\ SwapInv

LEMMA TopicType == \A s \in Subs : Topic(s) \in Topics
  BY DEF Topic, Topics, Subs

LEMMA InitInv == Init => EventsInv
  <1> SUFFICES ASSUME Init PROVE EventsInv
    OBVIOUS
  <1>1. TypeOK
    BY EventsAssumption DEF Init, TypeOK, Topics, MaxEvents
  <1>2. RegistryInv /\ NoMissedEvent /\ DebtInv /\ SwapInv
    BY TopicType, EventsAssumption
    DEF Init, RegistryInv, NoMissedEvent, DebtInv, Due, SwapInv, Topics
  <1> QED BY <1>1, <1>2 DEF EventsInv

LEMMA NextInv == EventsInv /\ [Next]_vars => EventsInv'
  <1> SUFFICES ASSUME EventsInv, [Next]_vars PROVE EventsInv'
    OBVIOUS
  <1> USE EventsAssumption, TopicType DEF EventsInv
  <1>1. ASSUME NEW k \in Topics, NEW n \in {sink, sink + 1}, Happens(k, n),
               k = "reconnect" => n = sink + 1
        PROVE  EventsInv'
    <2>1. TypeOK'
      <3>1. MaxEvents(k) \in Nat
        BY DEF MaxEvents
      <3>2. happened[k] + 1 \in 0 .. MaxEvents(k) /\ happened[k] \in Nat
        BY <1>1, <3>1 DEF Happens, TypeOK
      <3>3. happened' = [happened EXCEPT ![k] = @ + 1]
        BY <1>1 DEF Happens
      <3>4. /\ \A j \in Topics : happened'[j] \in 0 .. MaxEvents(j)
            /\ happened' \in [Topics -> Nat]
        BY <3>2, <3>3 DEF TypeOK
      <3> QED BY <1>1, <3>4 DEF Happens, TypeOK, subVars
    <2>2. RegistryInv'
      BY <1>1 DEF Happens, RegistryInv, TypeOK, subVars
    <2>3. NoMissedEvent' /\ DebtInv'
      BY <1>1 DEF Happens, NoMissedEvent, DebtInv, Due, TypeOK, subVars
    <2>4. SwapInv'
      BY <1>1 DEF Happens, SwapInv, TypeOK, Topics
    <2> QED BY <2>1, <2>2, <2>3, <2>4
  <1>2. CASE PingArrives
    BY <1>1, <1>2 DEF PingArrives, Topics
  <1>3. CASE Redial
    BY <1>1, <1>3 DEF Redial, Topics
  <1>4. CASE LoopEnds
    <2>1. TypeOK' /\ RegistryInv'
      BY <1>4 DEF LoopEnds, TypeOK, RegistryInv, subVars
    <2>2. NoMissedEvent' /\ DebtInv' /\ SwapInv'
      BY <1>4 DEF LoopEnds, NoMissedEvent, DebtInv, Due, SwapInv, subVars
    <2> QED BY <2>1, <2>2
  <1>5. CASE Announce
    <2>1. TypeOK'
      BY <1>5 DEF Announce, TypeOK, subVars
    <2>2. RegistryInv'
      BY <1>5 DEF Announce, TypeOK, RegistryInv, subVars
    <2>3. telling = {}
      BY <1>5 DEF Announce, RegistryInv
    <2>4. NoMissedEvent'
      BY <1>5, <2>3 DEF Announce, TypeOK, RegistryInv, NoMissedEvent, subVars
    <2>5. DebtInv'
      <3> SUFFICES ASSUME NEW s \in Subs
                   PROVE  /\ runs[s] + Due(s)' + since[s] <= announced'[Topic(s)]
                          /\ spc[s] = "unborn" => runs[s] = 0 /\ since[s] = 0
                          /\ seen[s] <= announced'[Topic(s)]
        BY <1>5 DEF Announce, DebtInv, subVars
      <3>1. CASE Topic(s) = topic
        <4>1. announced'[Topic(s)] = announced[Topic(s)] + 1
          BY <1>5, <3>1 DEF Announce, TypeOK
        <4>2. Due(s)' <= Due(s) + 1 /\ Due(s) \in Nat /\ Due(s)' \in Nat
          BY <1>5, <2>3 DEF Announce, Due, subVars
        <4> QED BY <4>1, <4>2 DEF DebtInv, TypeOK
      <3>2. CASE Topic(s) # topic
        <4>1. announced'[Topic(s)] = announced[Topic(s)]
          BY <1>5, <3>2 DEF Announce, TypeOK
        <4>2. s \notin telling'
          BY <1>5, <3>2 DEF Announce, RegistryInv, TypeOK
        <4>3. Due(s)' = Due(s)
          BY <1>5, <2>3, <4>2 DEF Announce, Due, subVars
        <4> QED BY <4>1, <4>3 DEF DebtInv, TypeOK
      <3> QED BY <3>1, <3>2
    <2>6. SwapInv'
      BY <1>5 DEF Announce, SwapInv, TypeOK, Topics
    <2> QED BY <2>1, <2>2, <2>4, <2>5, <2>6
  <1>6. ASSUME NEW s \in Subs, Tell(s) PROVE EventsInv'
    <2>1. TypeOK'
      BY <1>6 DEF Tell, TypeOK
    <2>2. RegistryInv'
      BY <1>6 DEF Tell, TypeOK, RegistryInv
    <2>3. NoMissedEvent'
      BY <1>6 DEF Tell, TypeOK, NoMissedEvent
    <2>4. DebtInv'
      BY <1>6 DEF Tell, TypeOK, DebtInv, Due
    <2>5. SwapInv'
      BY <1>6 DEF Tell, SwapInv
    <2> QED BY <2>1, <2>2, <2>3, <2>4, <2>5
  <1>7. CASE Told
    <2>1. TypeOK' /\ RegistryInv'
      BY <1>7 DEF Told, TypeOK, RegistryInv, subVars
    <2>2. NoMissedEvent' /\ DebtInv' /\ SwapInv'
      BY <1>7 DEF Told, NoMissedEvent, DebtInv, Due, SwapInv, subVars
    <2> QED BY <2>1, <2>2
  <1>8. ASSUME NEW s \in Subs, Subscribe(s) PROVE EventsInv'
    <2> USE <1>8 DEF Subscribe, Subscribed, loopVars
    <2>1. TypeOK'
      BY DEF TypeOK
    <2>2. RegistryInv'
      BY DEF TypeOK, RegistryInv
    <2>3. NoMissedEvent'
      BY DEF TypeOK, NoMissedEvent
    <2>4. DebtInv'
      BY DEF TypeOK, DebtInv, Due, RegistryInv
    <2>5. SwapInv'
      BY DEF SwapInv
    <2> QED BY <2>1, <2>2, <2>3, <2>4, <2>5
  <1>9. ASSUME NEW s \in Subs, BeginCallback(s) PROVE EventsInv'
    <2> USE <1>9 DEF BeginCallback, loopVars
    <2>1. TypeOK'
      BY DEF TypeOK
    <2>2. RegistryInv'
      BY DEF TypeOK, RegistryInv
    <2>3. NoMissedEvent'
      BY DEF TypeOK, NoMissedEvent
    <2>4. DebtInv'
      BY DEF TypeOK, DebtInv, Due
    <2>5. SwapInv'
      BY DEF SwapInv
    <2> QED BY <2>1, <2>2, <2>3, <2>4, <2>5
  <1>10. ASSUME NEW s \in Subs, SpawnTask(s) \/ Return(s) \/ Hang(s)
         PROVE  EventsInv'
    <2> USE <1>10 DEF SpawnTask, Return, Hang, loopVars
    <2>1. TypeOK'
      BY DEF TypeOK
    <2>2. RegistryInv'
      BY DEF TypeOK, RegistryInv
    <2>3. NoMissedEvent' /\ DebtInv'
      BY DEF TypeOK, NoMissedEvent, DebtInv, Due
    <2>4. SwapInv'
      BY DEF SwapInv
    <2> QED BY <2>1, <2>2, <2>3, <2>4
  <1>11. CASE UNCHANGED vars
    BY <1>11
    DEF vars, loopVars, subVars, TypeOK, RegistryInv, NoMissedEvent, DebtInv,
        Due, SwapInv
  <1> QED
    BY <1>2, <1>3, <1>4, <1>5, <1>6, <1>7, <1>8, <1>9, <1>10, <1>11 DEF Next

LEMMA SpecInv == Spec => []EventsInv
  BY InitInv, NextInv, PTL DEF Spec

\* However events and callbacks interleave, the last announcement is never
\* lost on a subscriber (sync.rs:198-203, client.rs:736-741, 761-766).
THEOREM NothingIsMissed == Spec => []NoMissedEvent
  <1>1. EventsInv => NoMissedEvent
    BY DEF EventsInv
  <1> QED BY <1>1, SpecInv, PTL

\* A callback never runs more often than events were announced to it
\* (sync.rs:191-196, client.rs:744-748).
THEOREM NothingIsInvented == Spec => []NoSpuriousCallback
  <1>1. EventsInv => NoSpuriousCallback
    <2> SUFFICES ASSUME EventsInv, NEW s \in Subs
                 PROVE  runs[s] + since[s] <= announced[Topic(s)]
      BY DEF NoSpuriousCallback
    <2>1. Due(s) \in Nat
      BY DEF Due
    <2> QED BY <2>1, TopicType DEF EventsInv, DebtInv, TypeOK
  <1> QED BY <1>1, SpecInv, PTL

\* An on_reconnect callback finds the connection it was told of behind the
\* sink (client.rs:413-419).
THEOREM CallbackFindsNewSink == Spec => []ToldAfterSwap
  <1>1. EventsInv => ToldAfterSwap
    <2> SUFFICES ASSUME EventsInv, NEW s \in ReconnectSubs PROVE seen[s] < sink
      BY DEF ToldAfterSwap
    <2>1. s \in Subs /\ Topic(s) = "reconnect"
      BY EventsAssumption DEF Subs, Topic
    <2>2. seen[s] <= announced["reconnect"]
      BY <2>1 DEF EventsInv, DebtInv
    <2> QED BY <2>1, <2>2 DEF EventsInv, SwapInv, TypeOK, Topics
  <1> QED BY <1>1, SpecInv, PTL

==============================================================================
