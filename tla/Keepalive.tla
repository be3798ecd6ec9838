------------------------------ MODULE Keepalive ------------------------------
(***************************************************************************)
(* The scheduled-ping task, keepalive_loop, on top of the ping table of    *)
(* Pings: it sleeps for the configured interval, is woken early when       *)
(* set_ping_interval or disconnect notifies `changed`, pings, counts the   *)
(* misses and asks for a redial (client.rs:65-88, 690-725, 789-796,        *)
(* 912-971).  The only pinger here is the task itself: what pingers do to  *)
(* each other is in Pings.                                                 *)
(***************************************************************************)
EXTENDS Pings

CONSTANTS Task,        \* the keepalive task
          Durations,   \* ping intervals asked for, in microseconds; 0 is off
          MaxMillis,   \* u32::MAX
          max_missed,  \* KeepalivePolicy::max_missed
          MaxSets      \* bound: calls of set_ping_interval

ASSUME KeepaliveAssumption ==
    /\ Pingers = {Task}
    /\ Durations \subseteq Nat /\ 0 \in Durations
    /\ MaxMillis \in Nat
    /\ max_missed \in Nat
    /\ MaxSets \in Nat

VARIABLES
    interval,  \* KeepaliveState::interval_millis
    changed,   \* KeepaliveState::changed, a one-slot latch
    kpc,       \* where keepalive_loop is
    asleep,    \* the interval its current sleep was started with
    missed,    \* its local `missed`
    spc,       \* a caller of set_ping_interval: idle, or about to notify
    dpc,       \* disconnect: idle, about to notify, done
    sets,      \* calls of set_ping_interval so far
    streak,    \* history: unanswered keepalive pings in a row on this connection
    asked,     \* history: has the task asked for a redial of this connection?
    settled,   \* history: has the count started anew on this connection?
    hasty      \* history: was a settled connection given up for too few misses?

taskVars    == <<kpc, asleep, missed>>
settingVars == <<interval, spc, sets>>
historyVars == <<streak, asked, settled, hasty>>
keepVars    == <<changed, dpc, taskVars, settingVars, historyVars>>
vars        == <<pingVars, keepVars>>

\* An interval is stored in whole milliseconds, at most u32::MAX of them; 0 is
\* off, and so is what is shorter than a millisecond.
Millis(duration) ==
    IF duration \div 1000 < MaxMillis THEN duration \div 1000 ELSE MaxMillis

Intervals == {Millis(d) : d \in Durations}

\* A policy of 0 misses still has to see one.
misses_allowed == IF max_missed = 0 THEN 1 ELSE max_missed

Init ==
    /\ PingInit
    /\ \E d \in Durations : interval = Millis(d)
    /\ changed = FALSE
    /\ kpc = "top" /\ asleep = 0 /\ missed = 0
    /\ spc = "idle" /\ dpc = "idle" /\ sets = 0
    /\ streak = 0 /\ asked = FALSE /\ settled = TRUE /\ hasty = FALSE

------------------------------------------------------------------------------
(* keepalive_loop. *)

KeepGoto(at) == kpc' = at

CheckClosed ==
    /\ kpc \in {"top", "slept"}
    /\ KeepGoto(IF closed THEN "stopped" ELSE IF kpc = "top" THEN "read" ELSE "recheck")
    /\ UNCHANGED <<pingVars, changed, dpc, asleep, missed, settingVars, historyVars>>

ReadInterval ==
    /\ kpc = "read"
    /\ KeepGoto(IF interval = 0 THEN "park" ELSE "sleep")
    /\ asleep' = interval
    /\ UNCHANGED <<pingVars, changed, dpc, missed, settingVars, historyVars>>

\* Both waits take the notification and start over.
Reconfigured ==
    /\ kpc \in {"park", "sleep"} /\ changed
    /\ changed' = FALSE /\ missed' = 0 /\ streak' = 0 /\ settled' = TRUE
    /\ KeepGoto("top")
    /\ UNCHANGED <<pingVars, dpc, asleep, settingVars, asked, hasty>>

\* with_timeout polls `changed` before the timer.
IntervalOver ==
    /\ kpc = "sleep" /\ ~changed
    /\ KeepGoto("slept")
    /\ UNCHANGED <<pingVars, changed, dpc, asleep, missed, settingVars, historyVars>>

TurnedOff ==
    /\ kpc = "recheck" /\ interval = 0
    /\ KeepGoto("top")
    /\ UNCHANGED <<pingVars, changed, dpc, asleep, missed, settingVars, historyVars>>

StartPing ==
    /\ kpc = "recheck" /\ interval # 0
    /\ Ping(Task)
    /\ KeepGoto("pinging")
    /\ UNCHANGED <<changed, dpc, asleep, missed, settingVars, historyVars>>

\* Mutant: an answer does not end the run of misses.
AnsweredKept ==
    /\ kpc = "pinging" /\ ppc[Task] = "idle" /\ result[Task] = "ok"
    /\ streak' = 0 /\ settled' = TRUE
    /\ KeepGoto("top")
    /\ UNCHANGED <<pingVars, changed, dpc, asleep, missed, settingVars, asked, hasty>>

Answered ==
    /\ kpc = "pinging" /\ ppc[Task] = "idle" /\ result[Task] = "ok"
    /\ missed' = 0 /\ streak' = 0 /\ settled' = TRUE
    /\ KeepGoto("top")
    /\ UNCHANGED <<pingVars, changed, dpc, asleep, settingVars, asked, hasty>>

\* Mutant: the count starts over and nobody is asked to redial.
MissedSilently ==
    /\ kpc = "pinging" /\ ppc[Task] = "idle" /\ result[Task] # "ok"
    /\ streak' = IF result[Task] # "closed" /\ pinged[token[Task]] = conn
                   THEN streak + 1 ELSE streak
    /\ missed' = (missed + 1) % misses_allowed
    /\ KeepGoto("top")
    /\ UNCHANGED <<pingVars, changed, dpc, asleep, settingVars, asked, settled, hasty>>

\* force_reconnect is a no-op on a closed client.
Missed ==
    /\ kpc = "pinging" /\ ppc[Task] = "idle" /\ result[Task] # "ok"
    /\ streak' = IF result[Task] # "closed" /\ pinged[token[Task]] = conn
                   THEN streak + 1 ELSE streak
    /\ IF missed + 1 >= misses_allowed
         THEN /\ missed' = 0
              /\ asked' = (asked \/ ~closed)
              /\ settled' = TRUE
              /\ hasty' = (hasty \/ (~closed /\ settled /\ streak' < misses_allowed))
         ELSE missed' = missed + 1 /\ UNCHANGED <<asked, settled, hasty>>
    /\ KeepGoto("top")
    /\ UNCHANGED <<pingVars, changed, dpc, asleep, settingVars>>

TaskStep ==
    \/ CheckClosed \/ ReadInterval \/ Reconfigured \/ IntervalOver
    \/ TurnedOff \/ StartPing \/ Answered \/ Missed

------------------------------------------------------------------------------
(* The users of the client. *)

\* set_ping_interval stores the interval, then notifies.
StoreInterval(duration) ==
    /\ spc = "idle" /\ sets < MaxSets
    /\ interval' = Millis(duration) /\ spc' = "notify" /\ sets' = sets + 1
    /\ UNCHANGED <<pingVars, changed, dpc, taskVars, historyVars>>

\* Mutant: the task is not told.
NotifyNobody ==
    /\ spc = "notify" /\ spc' = "idle"
    /\ UNCHANGED <<pingVars, changed, interval, sets, dpc, taskVars, historyVars>>

NotifyInterval ==
    /\ spc = "notify"
    /\ changed' = TRUE /\ spc' = "idle"
    /\ UNCHANGED <<pingVars, interval, sets, dpc, taskVars, historyVars>>

\* disconnect sets the flag, then notifies both loops.
Disconnect ==
    /\ dpc = "idle" /\ SetClosed
    /\ dpc' = "notify"
    /\ UNCHANGED <<changed, taskVars, settingVars, historyVars>>

\* Mutant: disconnect wakes the read loop only.
DisconnectQuiet ==
    /\ dpc = "notify" /\ dpc' = "done"
    /\ UNCHANGED <<pingVars, changed, taskVars, settingVars, historyVars>>

DisconnectNotify ==
    /\ dpc = "notify" /\ dpc' = "done"
    /\ changed' = TRUE
    /\ UNCHANGED <<pingVars, taskVars, settingVars, historyVars>>

\* A new connection starts the history afresh; the task knows nothing of it.
Redialled ==
    /\ SwapSink
    /\ streak' = 0 /\ asked' = FALSE /\ settled' = FALSE
    /\ UNCHANGED <<changed, dpc, taskVars, settingVars, hasty>>

\* What goes on around the task's own steps.
Environment ==
    \/ InPing(Task)
    \/ \E t \in Tokens : HandlePong(t)
    \/ LoopStep

Next ==
    \/ TaskStep
    \/ Environment /\ UNCHANGED keepVars
    \/ Redialled
    \/ \E d \in Durations : StoreInterval(d)
    \/ NotifyInterval \/ Disconnect \/ DisconnectNotify

Spec == Init /\ [][Next]_vars

\* The executor polls the task and the calls in progress; timers fire; the
\* transport's ping returns.
Fairness ==
    /\ WF_vars(TaskStep)
    /\ WF_vars(InPing(Task) /\ UNCHANGED keepVars)
    /\ WF_vars(NotifyInterval) /\ WF_vars(DisconnectNotify)

FairSpec == Spec /\ Fairness

------------------------------------------------------------------------------
(* Properties. *)

TypeOK ==
    /\ PingTypeOK
    /\ interval \in Intervals /\ asleep \in Intervals
    /\ changed \in BOOLEAN /\ asked \in BOOLEAN
    /\ settled \in BOOLEAN /\ hasty \in BOOLEAN
    /\ kpc \in {"top", "read", "park", "sleep", "slept", "recheck", "pinging",
                "stopped"}
    /\ missed \in 0 .. misses_allowed - 1
    /\ spc \in {"idle", "notify"} /\ dpc \in {"idle", "notify", "done"}
    /\ sets \in 0 .. MaxSets /\ streak \in Nat

\* set_ping_interval "takes effect immediately" (client.rs:697-699): the task is
\* never left sleeping out, or parked on, an interval that is no longer the
\* configured one, unless a notification is latched or on its way.
NoStaleSleep ==
    kpc \in {"park", "sleep"} /\ asleep # interval => changed \/ spc = "notify"

\* disconnect() ends the task also when it is parked with keepalive off or
\* asleep: "both waits below wake up here" (client.rs:920).
ShutdownWakesTask ==
    closed /\ kpc \in {"park", "sleep"} => changed \/ dpc = "notify"

\* Once misses_allowed keepalive pings in a row went unanswered on a live
\* client's connection, a redial of it has been requested (client.rs:960-966).
DeadPeerIsNoticed == streak >= misses_allowed => asked \/ closed

\* After disconnect the keepalive task ends.
ShutdownStopsTask == closed ~> kpc = "stopped"

\* "Consecutive missed pongs before the connection is treated as dead ... so a
\* single dropped frame ... doesn't cost a reconnect" (keepalive.rs:31-33): nothing
\* less than misses_allowed of them in a row costs the client its first connection,
\* or one on which the count has started anew, after an answer, a reconfiguration
\* or a request.  Until then misses of the old connection count against the new,
\* because the code does not reset the count on a redial.
SettledIsSpared == ~hasty

==============================================================================
