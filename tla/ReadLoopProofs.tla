--------------------------- MODULE ReadLoopProofs ---------------------------
(***************************************************************************)
(* Proofs about ReadLoop, for any number of writers, connections, events   *)
(* and force_reconnect() calls, with and without a reconnector.            *)
(***************************************************************************)
EXTENDS ReadLoop, TLAPS

USE DEF loopVars, sinkVars, netVars, userVars, dialVars, Goto, Lock, Unlock

\* Types alone are not inductive: the swap needs a connection number that
\* the dial before it found to be free.
TypeInv == TypeOK /\ (pc = "swap" => stream < MaxConn)

\* Type correctness: every variable of the read loop model keeps its type.
THEOREM TypeCorrect == Spec => []TypeOK
<1> USE ReadLoopAssumption DEF Conns, Serving, Replacing, Redialling
<1>1. Init => TypeInv
  <2> SUFFICES ASSUME Init PROVE TypeInv
    OBVIOUS
  <2>1. 1 \in Conns /\ 0 \in 0..MaxAttempt /\ 0 \in 0..MaxEvents /\ 0 \in 0..MaxForce
    OBVIOUS
  <2>2. link \in [Conns -> {"unborn", "open", "stuck", "ended"}]
    BY DEF Init
  <2>3. writer \in [Writers -> {"idle", "writing", "done"}]
    BY DEF Init
  <2> QED
    BY <2>1, <2>2, <2>3, Zenon DEF Init, TypeOK, TypeInv
<1>2. TypeInv /\ [Next]_vars => TypeInv'
  <2> SUFFICES ASSUME TypeInv, [Next]_vars PROVE TypeInv'
    OBVIOUS
  <2> USE DEF TypeOK, TypeInv
  <2>1. CASE PollPending
    BY <2>1 DEF PollPending
  <2>2. CASE RecvEvent
    BY <2>2 DEF RecvEvent
  <2>3. CASE ReplyLock
    BY <2>3 DEF ReplyLock
  <2>4. CASE Reply
    BY <2>4 DEF Reply
  <2>5. CASE RecvEnd
    BY <2>5 DEF RecvEnd
  <2>6. CASE TakeWake
    <3>1. /\ pc' = "woken" /\ force' \in BOOLEAN
          /\ UNCHANGED <<reason, attempt, stream, sinkVars, netVars, userVars,
                         dialVars>>
      BY <2>6, Zenon DEF TakeWake
    <3> QED
      BY <3>1
  <2>7. CASE Woken
    BY <2>7 DEF Woken, CountForced
  <2>8. CASE Exit
    BY <2>8 DEF Exit
  <2>9. CASE CloseLock
    BY <2>9 DEF CloseLock
  <2>10. CASE CloseDone
    <3>1. shut' \subseteq Conns
      BY <2>10, Zenon DEF CloseDone
    <3>2. /\ pc' = "clear" /\ owner' = "nobody" /\ UNCHANGED <<sink, held>>
          /\ UNCHANGED <<reason, attempt, stream, link, inbox, events, userVars,
                         dialVars, force>>
      BY <2>10 DEF CloseDone
    <3> QED
      BY <3>1, <3>2
  <2>11. CASE ClearWaiters
    BY <2>11 DEF ClearWaiters
  <2>12. CASE StartDelay
    BY <2>12 DEF StartDelay
  <2>13. CASE Elapse
    BY <2>13 DEF Elapse
  <2>14. CASE BackoffWake
    <3>1. /\ pc' = "backoffWoken" /\ force' \in BOOLEAN
          /\ UNCHANGED <<reason, attempt, stream, sinkVars, netVars, userVars,
                         dialVars>>
      BY <2>14, Zenon DEF BackoffWake
    <3> QED
      BY <3>1
  <2>15. CASE BackoffWoken
    BY <2>15 DEF BackoffWoken
  <2>16. CASE Gate
    BY <2>16 DEF Gate
  <2>17. CASE DialOk
    BY <2>17 DEF DialOk
  <2>18. CASE DialErr
    BY <2>18 DEF DialErr
  <2>19. CASE Swap
    BY <2>19 DEF Swap
  <2>20. CASE Announce
    BY <2>20 DEF Announce
  <2>21. CASE ForceCheck
    BY <2>21 DEF ForceCheck
  <2>22. CASE ForceNotify
    BY <2>22 DEF ForceNotify
  <2>23. CASE DisconnectFlag
    BY <2>23 DEF DisconnectFlag
  <2>24. CASE DisconnectWakeLoop
    BY <2>24 DEF DisconnectWakeLoop
  <2>25. CASE DisconnectWakeKeepalive
    BY <2>25 DEF DisconnectWakeKeepalive
  <2>26. CASE DisconnectLock
    BY <2>26 DEF DisconnectLock
  <2>27. CASE DisconnectClose
    BY <2>27 DEF DisconnectClose
  <2>28. ASSUME NEW w \in Writers, WriterLock(w) PROVE TypeInv'
    BY <2>28 DEF WriterLock
  <2>29. ASSUME NEW w \in Writers, WriterDone(w) PROVE TypeInv'
    BY <2>29 DEF WriterDone
  <2>30. ASSUME NEW e \in {"quiet", "reply"}, Arrive(e) PROVE TypeInv'
    BY <2>30 DEF Arrive
  <2>31. ASSUME NEW c \in Conns, LinkSticks(c) PROVE TypeInv'
    BY <2>31 DEF LinkSticks
  <2>32. ASSUME NEW c \in Conns, LinkEnds(c) PROVE TypeInv'
    BY <2>32 DEF LinkEnds
  <2>33. CASE UNCHANGED vars
    BY <2>33 DEF vars
  <2> QED
    BY <2>1, <2>2, <2>3, <2>4, <2>5, <2>6, <2>7, <2>8, <2>9, <2>10, <2>11,
       <2>12, <2>13, <2>14, <2>15, <2>16, <2>17, <2>18, <2>19, <2>20, <2>21,
       <2>22, <2>23, <2>24, <2>25, <2>26, <2>27, <2>28, <2>29, <2>30, <2>31,
       <2>32, <2>33, Zenon DEF Next, Loop, Disconnecting, Network
<1>3. TypeInv => TypeOK
  BY DEF TypeInv
<1> QED
  BY <1>1, <1>2, <1>3, PTL DEF Spec

------------------------------------------------------------------------------
\* Why the shutdown wake-up cannot be lost: a Shutdown exit is only taken when
\* closed is set; closed is set before the wake-up is sent; and once it was
\* sent it is either still latched or was taken at one of the two places that
\* read closed next, after which the loop only moves towards its end.
ShutdownInv ==
    /\ dpc # "idle" => closed
    /\ reason = "Shutdown" => closed
    /\ dpc \notin {"idle", "flagged"} /\ ~force
         => pc \in {"woken", "backoffWoken", "exit", "stopped"}

\* ShutdownInv is an invariant of the read loop.
LEMMA ShutdownInvariant == Spec => []ShutdownInv
<1>1. Init => ShutdownInv
  BY DEF Init, ShutdownInv
<1>2. TypeOK /\ ShutdownInv /\ [Next]_vars => ShutdownInv'
  <2> SUFFICES ASSUME TypeOK, ShutdownInv, [Next]_vars PROVE ShutdownInv'
    OBVIOUS
  <2> USE DEF ShutdownInv, TypeOK
  <2>1. CASE PollPending
    BY <2>1 DEF PollPending
  <2>2. CASE RecvEvent
    BY <2>2 DEF RecvEvent
  <2>3. CASE ReplyLock
    BY <2>3 DEF ReplyLock
  <2>4. CASE Reply
    BY <2>4 DEF Reply
  <2>5. CASE RecvEnd
    BY <2>5 DEF RecvEnd
  <2>6. CASE TakeWake
    BY <2>6 DEF TakeWake
  <2>7. CASE Woken
    BY <2>7 DEF Woken
  <2>8. CASE Exit
    BY <2>8 DEF Exit
  <2>9. CASE CloseLock
    BY <2>9 DEF CloseLock
  <2>10. CASE CloseDone
    BY <2>10 DEF CloseDone
  <2>11. CASE ClearWaiters
    BY <2>11 DEF ClearWaiters
  <2>12. CASE StartDelay
    BY <2>12 DEF StartDelay
  <2>13. CASE Elapse
    BY <2>13 DEF Elapse
  <2>14. CASE BackoffWake
    BY <2>14 DEF BackoffWake
  <2>15. CASE BackoffWoken
    BY <2>15 DEF BackoffWoken
  <2>16. CASE Gate
    BY <2>16 DEF Gate
  <2>17. CASE DialOk
    BY <2>17 DEF DialOk
  <2>18. CASE DialErr
    BY <2>18 DEF DialErr
  <2>19. CASE Swap
    BY <2>19 DEF Swap
  <2>20. CASE Announce
    BY <2>20 DEF Announce
  <2>21. CASE ForceCheck
    BY <2>21 DEF ForceCheck
  <2>22. CASE ForceNotify
    BY <2>22 DEF ForceNotify
  <2>23. CASE DisconnectFlag
    BY <2>23 DEF DisconnectFlag
  <2>24. CASE DisconnectWakeLoop
    BY <2>24 DEF DisconnectWakeLoop
  <2>25. CASE DisconnectWakeKeepalive
    BY <2>25 DEF DisconnectWakeKeepalive
  <2>26. CASE DisconnectLock
    BY <2>26 DEF DisconnectLock
  <2>27. CASE DisconnectClose
    BY <2>27 DEF DisconnectClose
  <2>28. ASSUME NEW w \in Writers, WriterLock(w) PROVE ShutdownInv'
    BY <2>28 DEF WriterLock
  <2>29. ASSUME NEW w \in Writers, WriterDone(w) PROVE ShutdownInv'
    BY <2>29 DEF WriterDone
  <2>30. ASSUME NEW e \in {"quiet", "reply"}, Arrive(e) PROVE ShutdownInv'
    BY <2>30 DEF Arrive
  <2>31. ASSUME NEW c \in Conns, LinkSticks(c) PROVE ShutdownInv'
    BY <2>31 DEF LinkSticks
  <2>32. ASSUME NEW c \in Conns, LinkEnds(c) PROVE ShutdownInv'
    BY <2>32 DEF LinkEnds
  <2>33. CASE UNCHANGED vars
    BY <2>33 DEF vars
  <2> QED
    BY <2>1, <2>2, <2>3, <2>4, <2>5, <2>6, <2>7, <2>8, <2>9, <2>10, <2>11,
       <2>12, <2>13, <2>14, <2>15, <2>16, <2>17, <2>18, <2>19, <2>20, <2>21,
       <2>22, <2>23, <2>24, <2>25, <2>26, <2>27, <2>28, <2>29, <2>30, <2>31,
       <2>32, <2>33 DEF Next, Loop, Disconnecting, Network
<1> QED
  BY <1>1, <1>2, TypeCorrect, PTL DEF Spec

\* A disconnect() is never lost on the read loop (client.rs:789-800 against
\* 295-311 and 400-411), whatever it races with.
THEOREM ShutdownNotLost == Spec => []NoLostShutdown
<1>1. ShutdownInv => NoLostShutdown
  BY DEF ShutdownInv, NoLostShutdown
<1> QED
  BY <1>1, ShutdownInvariant, PTL

------------------------------------------------------------------------------
\* The sink is never replaced under a write in progress (client.rs:415): the
\* mutex is free whenever the loop swaps the sink.
THEOREM SinkNeverMoves == Spec => []SinkStaysPut
<1>1. Init => SinkStaysPut
  BY DEF Init, SinkStaysPut
<1>2. SinkStaysPut /\ [Next]_vars => SinkStaysPut'
  <2> SUFFICES ASSUME SinkStaysPut, [Next]_vars PROVE SinkStaysPut'
    OBVIOUS
  <2> USE DEF SinkStaysPut
  <2>1. CASE PollPending
    BY <2>1 DEF PollPending
  <2>2. CASE RecvEvent
    BY <2>2 DEF RecvEvent
  <2>3. CASE ReplyLock
    BY <2>3 DEF ReplyLock
  <2>4. CASE Reply
    BY <2>4 DEF Reply
  <2>5. CASE RecvEnd
    BY <2>5 DEF RecvEnd
  <2>6. CASE TakeWake
    BY <2>6 DEF TakeWake
  <2>7. CASE Woken
    BY <2>7 DEF Woken
  <2>8. CASE Exit
    BY <2>8 DEF Exit
  <2>9. CASE CloseLock
    BY <2>9 DEF CloseLock
  <2>10. CASE CloseDone
    BY <2>10 DEF CloseDone
  <2>11. CASE ClearWaiters
    BY <2>11 DEF ClearWaiters
  <2>12. CASE StartDelay
    BY <2>12 DEF StartDelay
  <2>13. CASE Elapse
    BY <2>13 DEF Elapse
  <2>14. CASE BackoffWake
    BY <2>14 DEF BackoffWake
  <2>15. CASE BackoffWoken
    BY <2>15 DEF BackoffWoken
  <2>16. CASE Gate
    BY <2>16 DEF Gate
  <2>17. CASE DialOk
    BY <2>17 DEF DialOk
  <2>18. CASE DialErr
    BY <2>18 DEF DialErr
  <2>19. CASE Swap
    BY <2>19 DEF Swap
  <2>20. CASE Announce
    BY <2>20 DEF Announce
  <2>21. CASE ForceCheck
    BY <2>21 DEF ForceCheck
  <2>22. CASE ForceNotify
    BY <2>22 DEF ForceNotify
  <2>23. CASE DisconnectFlag
    BY <2>23 DEF DisconnectFlag
  <2>24. CASE DisconnectWakeLoop
    BY <2>24 DEF DisconnectWakeLoop
  <2>25. CASE DisconnectWakeKeepalive
    BY <2>25 DEF DisconnectWakeKeepalive
  <2>26. CASE DisconnectLock
    BY <2>26 DEF DisconnectLock
  <2>27. CASE DisconnectClose
    BY <2>27 DEF DisconnectClose
  <2>28. ASSUME NEW w \in Writers, WriterLock(w) PROVE SinkStaysPut'
    BY <2>28 DEF WriterLock
  <2>29. ASSUME NEW w \in Writers, WriterDone(w) PROVE SinkStaysPut'
    BY <2>29 DEF WriterDone
  <2>30. ASSUME NEW e \in {"quiet", "reply"}, Arrive(e) PROVE SinkStaysPut'
    BY <2>30 DEF Arrive
  <2>31. ASSUME NEW c \in Conns, LinkSticks(c) PROVE SinkStaysPut'
    BY <2>31 DEF LinkSticks
  <2>32. ASSUME NEW c \in Conns, LinkEnds(c) PROVE SinkStaysPut'
    BY <2>32 DEF LinkEnds
  <2>33. CASE UNCHANGED vars
    BY <2>33 DEF vars
  <2> QED
    BY <2>1, <2>2, <2>3, <2>4, <2>5, <2>6, <2>7, <2>8, <2>9, <2>10, <2>11,
       <2>12, <2>13, <2>14, <2>15, <2>16, <2>17, <2>18, <2>19, <2>20, <2>21,
       <2>22, <2>23, <2>24, <2>25, <2>26, <2>27, <2>28, <2>29, <2>30, <2>31,
       <2>32, <2>33 DEF Next, Loop, Disconnecting, Network
<1> QED
  BY <1>1, <1>2, PTL DEF Spec

------------------------------------------------------------------------------
\* The backoff counter against the history of dials: outside the wait the
\* counter is the number of dials since the peer was last heard from; during
\* the wait it has already been advanced past it.
Advanced(n) == IF n < MaxAttempt THEN n + 1 ELSE n

BackoffInv ==
    /\ pc \in {"backoff", "backoffWoken", "gate"}
         => waited = silent /\ attempt = Advanced(silent)
    /\ pc \notin {"backoff", "backoffWoken", "gate", "stopped"} => attempt = silent

\* The wait before a dial is always the one for the dials made in a row without
\* hearing from the peer (client.rs:281-286, 318-322, 390-393).
THEOREM BackoffIsMonotone == Spec => []BackoffCountsSilentDials
<1> USE ReadLoopAssumption
<1>1. Init => BackoffInv
  BY DEF Init, BackoffInv
<1>2. TypeOK /\ BackoffInv /\ [Next]_vars => BackoffInv'
  <2> SUFFICES ASSUME TypeOK, BackoffInv, [Next]_vars PROVE BackoffInv'
    OBVIOUS
  <2> USE DEF BackoffInv, Advanced, TypeOK
  <2>1. CASE PollPending
    BY <2>1 DEF PollPending
  <2>2. CASE RecvEvent
    BY <2>2 DEF RecvEvent
  <2>3. CASE ReplyLock
    BY <2>3 DEF ReplyLock
  <2>4. CASE Reply
    BY <2>4 DEF Reply
  <2>5. CASE RecvEnd
    BY <2>5 DEF RecvEnd
  <2>6. CASE TakeWake
    BY <2>6 DEF TakeWake
  <2>7. CASE Woken
    BY <2>7 DEF Woken
  <2>8. CASE Exit
    BY <2>8 DEF Exit
  <2>9. CASE CloseLock
    BY <2>9 DEF CloseLock
  <2>10. CASE CloseDone
    BY <2>10 DEF CloseDone
  <2>11. CASE ClearWaiters
    BY <2>11 DEF ClearWaiters
  <2>12. CASE StartDelay
    BY <2>12 DEF StartDelay
  <2>13. CASE Elapse
    BY <2>13 DEF Elapse
  <2>14. CASE BackoffWake
    BY <2>14 DEF BackoffWake
  <2>15. CASE BackoffWoken
    BY <2>15 DEF BackoffWoken
  <2>16. CASE Gate
    BY <2>16 DEF Gate
  <2>17. CASE DialOk
    BY <2>17 DEF DialOk
  <2>18. CASE DialErr
    BY <2>18 DEF DialErr
  <2>19. CASE Swap
    BY <2>19 DEF Swap
  <2>20. CASE Announce
    BY <2>20 DEF Announce
  <2>21. CASE ForceCheck
    BY <2>21 DEF ForceCheck
  <2>22. CASE ForceNotify
    BY <2>22 DEF ForceNotify
  <2>23. CASE DisconnectFlag
    BY <2>23 DEF DisconnectFlag
  <2>24. CASE DisconnectWakeLoop
    BY <2>24 DEF DisconnectWakeLoop
  <2>25. CASE DisconnectWakeKeepalive
    BY <2>25 DEF DisconnectWakeKeepalive
  <2>26. CASE DisconnectLock
    BY <2>26 DEF DisconnectLock
  <2>27. CASE DisconnectClose
    BY <2>27 DEF DisconnectClose
  <2>28. ASSUME NEW w \in Writers, WriterLock(w) PROVE BackoffInv'
    BY <2>28 DEF WriterLock
  <2>29. ASSUME NEW w \in Writers, WriterDone(w) PROVE BackoffInv'
    BY <2>29 DEF WriterDone
  <2>30. ASSUME NEW e \in {"quiet", "reply"}, Arrive(e) PROVE BackoffInv'
    BY <2>30 DEF Arrive
  <2>31. ASSUME NEW c \in Conns, LinkSticks(c) PROVE BackoffInv'
    BY <2>31 DEF LinkSticks
  <2>32. ASSUME NEW c \in Conns, LinkEnds(c) PROVE BackoffInv'
    BY <2>32 DEF LinkEnds
  <2>33. CASE UNCHANGED vars
    BY <2>33 DEF vars
  <2> QED
    BY <2>1, <2>2, <2>3, <2>4, <2>5, <2>6, <2>7, <2>8, <2>9, <2>10, <2>11,
       <2>12, <2>13, <2>14, <2>15, <2>16, <2>17, <2>18, <2>19, <2>20, <2>21,
       <2>22, <2>23, <2>24, <2>25, <2>26, <2>27, <2>28, <2>29, <2>30, <2>31,
       <2>32, <2>33, Zenon DEF Next, Loop, Disconnecting, Network
<1>3. BackoffInv => BackoffCountsSilentDials
  BY DEF BackoffInv, BackoffCountsSilentDials
<1> QED
  BY <1>1, <1>2, <1>3, TypeCorrect, PTL DEF Spec

------------------------------------------------------------------------------
\* A call of force_reconnect() is somewhere on its way (about to notify, latched
\* in the signal, or taken by the loop) or has been spent. A wake seen after
\* the client was closed is a shutdown and spends nothing.
Count(b) == IF b THEN 1 ELSE 0

ForceInv ==
    /\ dpc # "idle" => closed
    /\ forced + Count(fpc = "checked") + Count(force /\ ~closed)
              + Count(pc = "woken" /\ ~closed) <= forces

\* Every call of force_reconnect() ends at most one connection, wherever the wake
\* finds the loop (client.rs:295-311, 400-411).
THEOREM OneConnectionPerForce == Spec => []OneForceOneConnection
<1> USE ReadLoopAssumption
<1>1. Init => ForceInv
  BY DEF Init, ForceInv, Count
<1>2. TypeOK /\ ForceInv /\ [Next]_vars => ForceInv'
  <2> SUFFICES ASSUME TypeOK, ForceInv, [Next]_vars PROVE ForceInv'
    OBVIOUS
  <2> USE DEF ForceInv, Count, TypeOK
  <2>1. CASE PollPending
    BY <2>1 DEF PollPending
  <2>2. CASE RecvEvent
    BY <2>2 DEF RecvEvent
  <2>3. CASE ReplyLock
    BY <2>3 DEF ReplyLock
  <2>4. CASE Reply
    BY <2>4 DEF Reply
  <2>5. CASE RecvEnd
    BY <2>5 DEF RecvEnd
  <2>6. CASE TakeWake
    BY <2>6 DEF TakeWake
  <2>7. CASE Woken
    BY <2>7 DEF Woken, CountForced
  <2>8. CASE Exit
    BY <2>8 DEF Exit
  <2>9. CASE CloseLock
    BY <2>9 DEF CloseLock
  <2>10. CASE CloseDone
    BY <2>10 DEF CloseDone
  <2>11. CASE ClearWaiters
    BY <2>11 DEF ClearWaiters
  <2>12. CASE StartDelay
    BY <2>12 DEF StartDelay
  <2>13. CASE Elapse
    BY <2>13 DEF Elapse
  <2>14. CASE BackoffWake
    BY <2>14 DEF BackoffWake
  <2>15. CASE BackoffWoken
    BY <2>15 DEF BackoffWoken
  <2>16. CASE Gate
    BY <2>16 DEF Gate
  <2>17. CASE DialOk
    BY <2>17 DEF DialOk
  <2>18. CASE DialErr
    BY <2>18 DEF DialErr
  <2>19. CASE Swap
    BY <2>19 DEF Swap
  <2>20. CASE Announce
    BY <2>20 DEF Announce
  <2>21. CASE ForceCheck
    BY <2>21 DEF ForceCheck
  <2>22. CASE ForceNotify
    BY <2>22 DEF ForceNotify
  <2>23. CASE DisconnectFlag
    BY <2>23 DEF DisconnectFlag
  <2>24. CASE DisconnectWakeLoop
    BY <2>24 DEF DisconnectWakeLoop
  <2>25. CASE DisconnectWakeKeepalive
    BY <2>25 DEF DisconnectWakeKeepalive
  <2>26. CASE DisconnectLock
    BY <2>26 DEF DisconnectLock
  <2>27. CASE DisconnectClose
    BY <2>27 DEF DisconnectClose
  <2>28. ASSUME NEW w \in Writers, WriterLock(w) PROVE ForceInv'
    BY <2>28 DEF WriterLock
  <2>29. ASSUME NEW w \in Writers, WriterDone(w) PROVE ForceInv'
    BY <2>29 DEF WriterDone
  <2>30. ASSUME NEW e \in {"quiet", "reply"}, Arrive(e) PROVE ForceInv'
    BY <2>30 DEF Arrive
  <2>31. ASSUME NEW c \in Conns, LinkSticks(c) PROVE ForceInv'
    BY <2>31 DEF LinkSticks
  <2>32. ASSUME NEW c \in Conns, LinkEnds(c) PROVE ForceInv'
    BY <2>32 DEF LinkEnds
  <2>33. CASE UNCHANGED vars
    BY <2>33 DEF vars
  <2> QED
    BY <2>1, <2>2, <2>3, <2>4, <2>5, <2>6, <2>7, <2>8, <2>9, <2>10, <2>11,
       <2>12, <2>13, <2>14, <2>15, <2>16, <2>17, <2>18, <2>19, <2>20, <2>21,
       <2>22, <2>23, <2>24, <2>25, <2>26, <2>27, <2>28, <2>29, <2>30, <2>31,
       <2>32, <2>33, Zenon DEF Next, Loop, Disconnecting, Network
<1>3. TypeOK /\ ForceInv => OneForceOneConnection
  BY DEF TypeOK, ForceInv, Count, OneForceOneConnection
<1> QED
  BY <1>1, <1>2, <1>3, TypeCorrect, PTL DEF Spec

------------------------------------------------------------------------------
\* Why a client never goes deaf: the loop leaves a connection because it ended,
\* because it was shut down, or because it has a reconnector to replace it with.
DeafInv ==
    /\ pc = "exit" /\ reason = "Eof" => link[stream] = "ended"
    /\ pc = "exit" /\ reason = "Forced" => reconnector
    /\ reason = "Shutdown" => closed
    /\ NeverDeaf

\* The read loop ends only on disconnect(), or at the end of a transport it has
\* no reconnector to replace (client.rs:273-278, 304-309, 364-372).
THEOREM LoopEndsForAReason == Spec => []NeverDeaf
<1>1. Init => DeafInv
  BY DEF Init, DeafInv, NeverDeaf
<1>2. TypeOK /\ DeafInv /\ [Next]_vars => DeafInv'
  <2> SUFFICES ASSUME TypeOK, DeafInv, [Next]_vars PROVE DeafInv'
    OBVIOUS
  <2> USE DEF DeafInv, NeverDeaf, TypeOK
  <2>1. CASE PollPending
    BY <2>1 DEF PollPending
  <2>2. CASE RecvEvent
    BY <2>2 DEF RecvEvent
  <2>3. CASE ReplyLock
    BY <2>3 DEF ReplyLock
  <2>4. CASE Reply
    BY <2>4 DEF Reply
  <2>5. CASE RecvEnd
    BY <2>5 DEF RecvEnd
  <2>6. CASE TakeWake
    BY <2>6 DEF TakeWake
  <2>7. CASE Woken
    BY <2>7 DEF Woken
  <2>8. CASE Exit
    BY <2>8 DEF Exit
  <2>9. CASE CloseLock
    BY <2>9 DEF CloseLock
  <2>10. CASE CloseDone
    BY <2>10 DEF CloseDone
  <2>11. CASE ClearWaiters
    BY <2>11 DEF ClearWaiters
  <2>12. CASE StartDelay
    BY <2>12 DEF StartDelay
  <2>13. CASE Elapse
    BY <2>13 DEF Elapse
  <2>14. CASE BackoffWake
    BY <2>14 DEF BackoffWake
  <2>15. CASE BackoffWoken
    BY <2>15 DEF BackoffWoken
  <2>16. CASE Gate
    BY <2>16 DEF Gate
  <2>17. CASE DialOk
    BY <2>17 DEF DialOk
  <2>18. CASE DialErr
    BY <2>18 DEF DialErr
  <2>19. CASE Swap
    BY <2>19 DEF Swap
  <2>20. CASE Announce
    BY <2>20 DEF Announce
  <2>21. CASE ForceCheck
    BY <2>21 DEF ForceCheck
  <2>22. CASE ForceNotify
    BY <2>22 DEF ForceNotify
  <2>23. CASE DisconnectFlag
    BY <2>23 DEF DisconnectFlag
  <2>24. CASE DisconnectWakeLoop
    BY <2>24 DEF DisconnectWakeLoop
  <2>25. CASE DisconnectWakeKeepalive
    BY <2>25 DEF DisconnectWakeKeepalive
  <2>26. CASE DisconnectLock
    BY <2>26 DEF DisconnectLock
  <2>27. CASE DisconnectClose
    BY <2>27 DEF DisconnectClose
  <2>28. ASSUME NEW w \in Writers, WriterLock(w) PROVE DeafInv'
    BY <2>28 DEF WriterLock
  <2>29. ASSUME NEW w \in Writers, WriterDone(w) PROVE DeafInv'
    BY <2>29 DEF WriterDone
  <2>30. ASSUME NEW e \in {"quiet", "reply"}, Arrive(e) PROVE DeafInv'
    BY <2>30 DEF Arrive
  <2>31. ASSUME NEW c \in Conns, LinkSticks(c) PROVE DeafInv'
    BY <2>31 DEF LinkSticks
  <2>32. ASSUME NEW c \in Conns, LinkEnds(c) PROVE DeafInv'
    BY <2>32 DEF LinkEnds
  <2>33. CASE UNCHANGED vars
    BY <2>33 DEF vars
  <2> QED
    BY <2>1, <2>2, <2>3, <2>4, <2>5, <2>6, <2>7, <2>8, <2>9, <2>10, <2>11,
       <2>12, <2>13, <2>14, <2>15, <2>16, <2>17, <2>18, <2>19, <2>20, <2>21,
       <2>22, <2>23, <2>24, <2>25, <2>26, <2>27, <2>28, <2>29, <2>30, <2>31,
       <2>32, <2>33, Zenon DEF Next, Loop, Disconnecting, Network
<1>3. DeafInv => NeverDeaf
  BY DEF DeafInv
<1> QED
  BY <1>1, <1>2, <1>3, TypeCorrect, PTL DEF Spec

------------------------------------------------------------------------------
\* The read loop implements Lifecycle: every step of the model is a step of
\* that specification, or leaves the phase and the shutdown flag alone
\* (client.rs:360-372 for leaving a connection, 400-411 for giving up a
\* redial, 415-419 for completing one).
THEOREM ImplementsLifecycle == Spec => RefinesLifecycle
<1> USE DEF Phase, Serving, Replacing, Redialling
<1>1. Init => LC!Init
  BY DEF Init, LC!Init
<1>2. TypeOK /\ ShutdownInv /\ [Next]_vars => [LC!Next]_(LC!vars)
  <2> SUFFICES ASSUME TypeOK, ShutdownInv, [Next]_vars
               PROVE  LC!Next \/ UNCHANGED <<reconnector, Phase, closed>>
    BY DEF LC!vars
  <2> USE DEF TypeOK, ShutdownInv, LC!Next, LC!Disconnect, LC!Lose, LC!Redial, LC!Stop
  <2>1. CASE PollPending
    BY <2>1 DEF PollPending
  <2>2. CASE RecvEvent
    BY <2>2 DEF RecvEvent
  <2>3. CASE ReplyLock
    BY <2>3 DEF ReplyLock
  <2>4. CASE Reply
    BY <2>4 DEF Reply
  <2>5. CASE RecvEnd
    BY <2>5 DEF RecvEnd
  <2>6. CASE TakeWake
    BY <2>6 DEF TakeWake
  <2>7. CASE Woken
    BY <2>7 DEF Woken
  <2>8. CASE Exit
    BY <2>8 DEF Exit
  <2>9. CASE CloseLock
    BY <2>9 DEF CloseLock
  <2>10. CASE CloseDone
    BY <2>10 DEF CloseDone
  <2>11. CASE ClearWaiters
    BY <2>11 DEF ClearWaiters
  <2>12. CASE StartDelay
    BY <2>12 DEF StartDelay
  <2>13. CASE Elapse
    BY <2>13 DEF Elapse
  <2>14. CASE BackoffWake
    BY <2>14 DEF BackoffWake
  <2>15. CASE BackoffWoken
    BY <2>15 DEF BackoffWoken
  <2>16. CASE Gate
    BY <2>16 DEF Gate
  <2>17. CASE DialOk
    BY <2>17 DEF DialOk
  <2>18. CASE DialErr
    BY <2>18 DEF DialErr
  <2>19. CASE Swap
    BY <2>19 DEF Swap
  <2>20. CASE Announce
    BY <2>20 DEF Announce
  <2>21. CASE ForceCheck
    BY <2>21 DEF ForceCheck
  <2>22. CASE ForceNotify
    BY <2>22 DEF ForceNotify
  <2>23. CASE DisconnectFlag
    BY <2>23, Zenon DEF DisconnectFlag
  <2>24. CASE DisconnectWakeLoop
    BY <2>24 DEF DisconnectWakeLoop
  <2>25. CASE DisconnectWakeKeepalive
    BY <2>25 DEF DisconnectWakeKeepalive
  <2>26. CASE DisconnectLock
    BY <2>26 DEF DisconnectLock
  <2>27. CASE DisconnectClose
    BY <2>27 DEF DisconnectClose
  <2>28. ASSUME NEW w \in Writers, WriterLock(w) PROVE LC!Next \/ UNCHANGED <<reconnector, Phase, closed>>
    BY <2>28 DEF WriterLock
  <2>29. ASSUME NEW w \in Writers, WriterDone(w) PROVE LC!Next \/ UNCHANGED <<reconnector, Phase, closed>>
    BY <2>29 DEF WriterDone
  <2>30. ASSUME NEW e \in {"quiet", "reply"}, Arrive(e) PROVE LC!Next \/ UNCHANGED <<reconnector, Phase, closed>>
    BY <2>30 DEF Arrive
  <2>31. ASSUME NEW c \in Conns, LinkSticks(c) PROVE LC!Next \/ UNCHANGED <<reconnector, Phase, closed>>
    BY <2>31 DEF LinkSticks
  <2>32. ASSUME NEW c \in Conns, LinkEnds(c) PROVE LC!Next \/ UNCHANGED <<reconnector, Phase, closed>>
    BY <2>32 DEF LinkEnds
  <2>33. CASE UNCHANGED vars
    BY <2>33 DEF vars
  <2> QED
    BY <2>1, <2>2, <2>3, <2>4, <2>5, <2>6, <2>7, <2>8, <2>9, <2>10, <2>11,
       <2>12, <2>13, <2>14, <2>15, <2>16, <2>17, <2>18, <2>19, <2>20, <2>21,
       <2>22, <2>23, <2>24, <2>25, <2>26, <2>27, <2>28, <2>29, <2>30, <2>31,
       <2>32, <2>33, Zenon DEF Next, Loop, Disconnecting, Network
<1> QED
  BY <1>1, <1>2, TypeCorrect, ShutdownInvariant, PTL DEF Spec, RefinesLifecycle, LC!Spec

==============================================================================
