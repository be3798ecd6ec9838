------------------------------ MODULE Lifecycle ------------------------------
(***************************************************************************)
(* What a client promises about its connection, whatever the tasks inside  *)
(* it do: it is connected, redialling or stopped; it stops only when it    *)
(* was shut down, or when it lost its transport and has no reconnector;    *)
(* a shutdown is sticky, and once it was requested no new outage is ever   *)
(* answered with a redial.  ReadLoop implements this specification.        *)
(***************************************************************************)

VARIABLES reconnector, \* is a reconnector configured?
          phase,       \* "connected", "redialling" or "stopped"
          closed       \* disconnect() was called

vars == <<reconnector, phase, closed>>

Init ==
    /\ reconnector \in BOOLEAN
    /\ phase = "connected"
    /\ closed = FALSE

\* disconnect(): from here on the client is on its way out.
Disconnect ==
    /\ ~closed
    /\ closed' = TRUE
    /\ UNCHANGED <<reconnector, phase>>

\* The transport ended or was given up, and will be replaced.
Lose ==
    /\ phase = "connected"
    /\ reconnector
    /\ ~closed
    /\ phase' = "redialling"
    /\ UNCHANGED <<reconnector, closed>>

\* A redial under way may still complete after the shutdown was requested.
Redial ==
    /\ phase = "redialling"
    /\ phase' = "connected"
    /\ UNCHANGED <<reconnector, closed>>

Stop ==
    /\ \/ phase \in {"connected", "redialling"} /\ closed
       \/ phase = "connected" /\ ~reconnector
    /\ phase' = "stopped"
    /\ UNCHANGED <<reconnector, closed>>

Next == Disconnect \/ Lose \/ Redial \/ Stop

Spec == Init /\ [][Next]_vars
==============================================================================
