------------------------------ MODULE Requests -------------------------------
(***************************************************************************)
(* Requests and their answers: Client::do_send_request on the caller's     *)
(* side, the CALLRESULT and CALLERROR arms of handle_frame on the read     *)
(* loop's side, and the pending_responses table between them.              *)
(*                                                                         *)
(* The peer answers a request any number of times, in any order, early or  *)
(* late; answers may be lost.  A caller's future may be dropped at any     *)
(* await, as a select! or an outer timeout does.                           *)
(***************************************************************************)
CONSTANTS Callers,   \* tasks that issue requests, one at a time each
          Ids        \* message ids; Uuid::new_v4 never repeats one

VARIABLES
    closed,     \* Client::closed
    pc,         \* where each caller is in do_send_request
    id,         \* the message id of its current request
    used,       \* ids drawn so far
    pending,    \* keys of pending_responses
    slot,       \* the OneShot of each request
    sent,       \* requests that reached the peer
    answered,   \* answers the peer has given; the network may deliver any of them,
                \* at any time, any number of times or never
    handled,    \* history: ids an answer was handled for
    outcome     \* what each request returned

callerVars == <<pc, id, used, outcome>>
tableVars  == <<pending, slot>>
peerVars   == <<sent, answered, handled>>
vars       == <<closed, callerVars, tableVars, peerVars>>

\* A result that decodes, a result of the wrong shape, a CALLERROR.
Kinds == {"result", "garbled", "error"}
Answers == [id : Ids, kind : Kinds]

\* The message id of a caller that has no request yet.
NoId == "no id"

\* What do_send_request returns for each kind of answer.
Returned(kind) ==
    [result |-> "Ok", garbled |-> "Decode", error |-> "Protocol"][kind]

Init ==
    /\ closed = FALSE
    /\ pc = [c \in Callers |-> "idle"]
    /\ id = [c \in Callers |-> NoId]
    /\ used = {} /\ pending = {} /\ sent = {}
    /\ answered = {} /\ handled = {}
    /\ slot = [i \in Ids |-> "empty"]
    /\ outcome = [i \in Ids |-> "none"]

------------------------------------------------------------------------------
(* The caller. *)

Finish(c, result) ==
    /\ pc' = [pc EXCEPT ![c] = "idle"]
    /\ outcome' = [outcome EXCEPT ![id[c]] = result]
    /\ UNCHANGED <<id, used>>

\* closed is checked once, up front; then a fresh id.
Begin(c) ==
    /\ pc[c] = "idle" /\ ~closed
    /\ \E i \in Ids \ used :
         /\ used' = used \cup {i}
         /\ id' = [id EXCEPT ![c] = i]
    /\ pc' = [pc EXCEPT ![c] = "register"]
    /\ UNCHANGED <<closed, outcome, tableVars, peerVars>>

\* Mutant: the frame goes out before any waiter is registered for it.
RegisterNothing(c) ==
    /\ pc[c] = "register"
    /\ pc' = [pc EXCEPT ![c] = "send"]
    /\ UNCHANGED <<closed, id, used, outcome, tableVars, peerVars>>

Register(c) ==
    /\ pc[c] = "register"
    /\ pending' = pending \cup {id[c]}
    /\ pc' = [pc EXCEPT ![c] = "send"]
    /\ UNCHANGED <<closed, id, used, outcome, slot, peerVars>>

\* The frame is handed to the transport; the peer may answer from here on,
\* before send() has returned.
Write(c) ==
    /\ pc[c] = "send"
    /\ sent' = sent \cup {id[c]}
    /\ pc' = [pc EXCEPT ![c] = "sending"]
    /\ UNCHANGED <<closed, id, used, outcome, tableVars, answered, handled>>

SendOk(c) ==
    /\ pc[c] = "sending"
    /\ pc' = [pc EXCEPT ![c] = "wait"]
    /\ UNCHANGED <<closed, id, used, outcome, tableVars, peerVars>>

SendErr(c) ==
    /\ pc[c] \in {"send", "sending"}
    /\ pc' = [pc EXCEPT ![c] = "failed"]
    /\ UNCHANGED <<closed, id, used, outcome, tableVars, peerVars>>

\* Mutant: only a timeout forgets the entry.
ReturnTransportErrorOnly(c) ==
    /\ pc[c] = "failed"
    /\ Finish(c, "Transport")
    /\ UNCHANGED <<closed, tableVars, peerVars>>

ForgetFailed(c) ==
    /\ pc[c] = "failed"
    /\ pending' = pending \ {id[c]}
    /\ Finish(c, "Transport")
    /\ UNCHANGED <<closed, slot, peerVars>>

\* with_timeout polls the waiter before the timer.
TakeAnswer(c) ==
    /\ pc[c] = "wait"
    /\ slot[id[c]] # "empty"
    /\ Finish(c, Returned(slot[id[c]]))
    /\ UNCHANGED <<closed, tableVars, peerVars>>

\* Mutant: no deadline on the wait.
NeverExpire(c) == FALSE /\ UNCHANGED vars

Expire(c) ==
    /\ pc[c] = "wait"
    /\ slot[id[c]] = "empty"
    /\ pc' = [pc EXCEPT ![c] = "expired"]
    /\ UNCHANGED <<closed, id, used, outcome, tableVars, peerVars>>

ForgetExpired(c) ==
    /\ pc[c] = "expired"
    /\ pending' = pending \ {id[c]}
    /\ Finish(c, "Timeout")
    /\ UNCHANGED <<closed, slot, peerVars>>

\* The future is dropped at an await; none of the code after it runs.
Drop(c) ==
    /\ pc[c] # "idle"
    /\ Finish(c, "dropped")
    /\ UNCHANGED <<closed, tableVars, peerVars>>

------------------------------------------------------------------------------
(* The peer, the network and the read loop. *)

Answer(a) ==
    /\ a.id \in sent
    /\ answered' = answered \cup {a}
    /\ UNCHANGED <<closed, callerVars, tableVars, sent, handled>>

\* Mutant: the answer resolves some outstanding request, not its own.
HandlePositional(a) ==
    /\ a \in answered
    /\ handled' = handled \cup {a.id}
    /\ IF pending # {}
         THEN \E i \in pending : /\ pending' = pending \ {i}
                                 /\ slot' = [slot EXCEPT ![i] = a.kind]
         ELSE UNCHANGED tableVars
    /\ UNCHANGED <<closed, callerVars, sent, answered>>

\* Mutant: the entry is read, not removed.
HandleKeep(a) ==
    /\ a \in answered
    /\ handled' = handled \cup {a.id}
    /\ IF a.id \in pending
         THEN slot' = [slot EXCEPT ![a.id] = a.kind] /\ UNCHANGED pending
         ELSE UNCHANGED tableVars
    /\ UNCHANGED <<closed, callerVars, sent, answered>>

\* The entry is removed and its waiter resolved under the table's mutex; an
\* answer that finds no entry is dropped.
HandleAnswer(a) ==
    /\ a \in answered
    /\ handled' = handled \cup {a.id}
    /\ IF a.id \in pending
         THEN /\ pending' = pending \ {a.id}
              /\ slot' = [slot EXCEPT ![a.id] = a.kind]
         ELSE UNCHANGED tableVars
    /\ UNCHANGED <<closed, callerVars, sent, answered>>

Disconnect ==
    /\ ~closed /\ closed' = TRUE
    /\ UNCHANGED <<callerVars, tableVars, peerVars>>

Caller(c) ==
    \/ Begin(c) \/ Register(c) \/ Write(c) \/ SendOk(c) \/ SendErr(c)
    \/ ForgetFailed(c) \/ TakeAnswer(c) \/ Expire(c) \/ ForgetExpired(c)

Next ==
    \/ \E c \in Callers : Caller(c) \/ Drop(c)
    \/ \E a \in Answers : Answer(a) \/ HandleAnswer(a)
    \/ Disconnect

Spec == Init /\ [][Next]_vars

\* Callers are polled, their timers fire, and send() returns.
FairSpec == Spec /\ \A c \in Callers : WF_vars(pc[c] # "idle" /\ Caller(c))

------------------------------------------------------------------------------
(* Properties. *)

Active(c) == pc[c] # "idle"

TypeOK ==
    /\ closed \in BOOLEAN
    /\ pc \in [Callers -> {"idle", "register", "send", "sending", "wait",
                           "failed", "expired"}]
    /\ id \in [Callers -> Ids \cup {NoId}]
    /\ used \subseteq Ids /\ pending \subseteq Ids
    /\ sent \subseteq Ids /\ handled \subseteq Ids
    /\ answered \subseteq Answers
    /\ slot \in [Ids -> Kinds \cup {"empty"}]
    /\ outcome \in [Ids -> {"none", "Ok", "Decode", "Protocol", "Transport",
                            "Timeout", "dropped"}]

\* What a call returns as an answer is an answer the peer gave to that very
\* call: no interleaving of late, duplicated and reordered answers resolves
\* somebody else's request (client.rs:1048-1054, 1064-1070).
AnswersMatch ==
    \A i \in Ids : outcome[i] \in {"Ok", "Decode", "Protocol"}
        => \E a \in answered : a.id = i /\ Returned(a.kind) = outcome[i]

\* An answer the read loop has handled for a request whose caller has not given
\* up is waiting in that caller's slot, even if it came before send() returned
\* (client.rs:832-841: the waiter is registered before the frame is sent).
NoAnswerLost ==
    \A c \in Callers : pc[c] \in {"sending", "wait"} /\ id[c] \in handled
        => slot[id[c]] # "empty"

\* The first answer to a request is the one its caller gets; a duplicate never
\* overwrites it (client.rs:1052 and 1068 remove the entry they resolve).
FirstAnswerWins ==
    [][\A i \in Ids : slot[i] # "empty" => slot'[i] = slot[i]]_slot

\* An entry outlives its request only if the request's future was dropped: no
\* answer, failed send, timeout or shutdown leaves one behind, however they race
\* (client.rs:842-868, 1052, 1068).
OnlyDroppedLinger ==
    \A i \in pending :
        outcome[i] = "dropped" \/ \E c \in Callers : Active(c) /\ id[c] = i

\* Every call returns: with the answer, an error, or a timeout.
EveryCallReturns == \A c \in Callers : Active(c) ~> ~Active(c)

==============================================================================
