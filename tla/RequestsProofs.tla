--------------------------- MODULE RequestsProofs ----------------------------
(***************************************************************************)
(* Proofs about Requests, for any callers and any ids.  Each answer theorem *)
(* rests on one inductive invariant, RequestInv: an id is drawn once, by    *)
(* one caller; an id is in the table only between its registration and its  *)
(* answer; a filled slot holds an answer the peer gave to that id.          *)
(***************************************************************************)
EXTENDS Requests, TLAPS

\* Ids are drawn once: callers in flight hold distinct drawn ids, and only
\* drawn ids are registered or sent.
IdsAreFresh ==
    /\ \A c \in Callers : Active(c) => id[c] \in used
    /\ \A c, d \in Callers : Active(c) /\ Active(d) /\ id[c] = id[d] => c = d
    /\ sent \subseteq used /\ pending \subseteq used

\* Before it is registered a request is neither sent nor in the table, and
\* its slot is empty, as is that of an id not drawn yet.
NotYetRegistered ==
    /\ \A c \in Callers : pc[c] = "register"
          => id[c] \notin sent /\ id[c] \notin pending /\ slot[id[c]] = "empty"
    /\ \A i \in Ids \ used : slot[i] = "empty"

\* The peer answers, and the read loop handles, only what was sent.
AnswersFollowRequests ==
    /\ \A a \in answered : a.id \in sent
    /\ handled \subseteq sent

\* An entry is unanswered; handling an answer has removed it.
EntriesAreUnanswered ==
    /\ \A i \in pending : slot[i] = "empty"
    /\ handled \cap pending = {}

\* A caller that has not given up has its entry or its answer.
WaitersAreKnown ==
    \A c \in Callers : pc[c] \in {"send", "sending", "wait"}
        => id[c] \in pending \/ slot[id[c]] # "empty"

\* A filled slot holds an answer the peer gave to that id.
SlotsAreHonest ==
    \A i \in Ids : slot[i] # "empty" => [id |-> i, kind |-> slot[i]] \in answered

RequestInv ==
    /\ TypeOK
    /\ IdsAreFresh
    /\ NotYetRegistered
    /\ AnswersFollowRequests
    /\ EntriesAreUnanswered
    /\ WaitersAreKnown
    /\ SlotsAreHonest
    /\ AnswersMatch
    /\ OnlyDroppedLinger

\* What a finished call reports is one of the outcomes TypeOK lists.
LEMMA ReturnedType == \A k \in Kinds : Returned(k) \in {"Ok", "Decode", "Protocol"}
  BY DEF Returned, Kinds

\* The type invariant is preserved by every step, given that a caller in flight
\* holds a drawn id.
LEMMA TypeStep ==
  TypeOK /\ IdsAreFresh /\ [Next]_vars => TypeOK'
<1> SUFFICES ASSUME TypeOK, IdsAreFresh, [Next]_vars PROVE TypeOK'
  OBVIOUS
<1> USE DEF TypeOK, callerVars, tableVars, peerVars
<1>1. ASSUME NEW c \in Callers, Begin(c) PROVE TypeOK'
  BY <1>1 DEF Begin
<1>2. ASSUME NEW c \in Callers, Register(c) PROVE TypeOK'
  BY <1>2 DEF Register, IdsAreFresh, Active
<1>3. ASSUME NEW c \in Callers, Write(c) PROVE TypeOK'
  BY <1>3 DEF Write, IdsAreFresh, Active
<1>4. ASSUME NEW c \in Callers, SendOk(c) \/ SendErr(c) \/ Expire(c) PROVE TypeOK'
  BY <1>4 DEF SendOk, SendErr, Expire
<1>5. ASSUME NEW c \in Callers, ForgetFailed(c) PROVE TypeOK'
  BY <1>5, Zenon DEF ForgetFailed, Finish
<1>6. ASSUME NEW c \in Callers, TakeAnswer(c) PROVE TypeOK'
  <2>1. slot[id[c]] \in Kinds
    BY <1>6 DEF TakeAnswer, IdsAreFresh, Active
  <2>2. Returned(slot[id[c]]) \in {"Ok", "Decode", "Protocol"}
    BY <2>1, ReturnedType
  <2>3. QED
    BY <1>6, <2>2, Zenon DEF TakeAnswer, Finish
<1>7. ASSUME NEW c \in Callers, ForgetExpired(c) PROVE TypeOK'
  BY <1>7, Zenon DEF ForgetExpired, Finish
<1>8. ASSUME NEW c \in Callers, Drop(c) PROVE TypeOK'
  BY <1>8, Zenon DEF Drop, Finish
<1>9. ASSUME NEW a \in Answers, Answer(a) PROVE TypeOK'
  BY <1>9 DEF Answer
<1>10. ASSUME NEW a \in Answers, HandleAnswer(a) PROVE TypeOK'
  BY <1>10 DEF HandleAnswer, Answers
<1>11. CASE Disconnect
  BY <1>11 DEF Disconnect
<1>12. CASE UNCHANGED vars
  BY <1>12 DEF vars
<1>13. QED
  BY <1>1, <1>2, <1>3, <1>4, <1>5, <1>6, <1>7, <1>8, <1>9, <1>10, <1>11, <1>12
  DEF Next, Caller

\* Every step preserves the invariant.
LEMMA RequestInvStep == RequestInv /\ [Next]_vars => RequestInv'
<1> SUFFICES ASSUME RequestInv, [Next]_vars PROVE RequestInv'
  OBVIOUS
<1> USE DEF Active, callerVars, tableVars, peerVars
<1>t. TypeOK'
  BY TypeStep DEF RequestInv
<1>i. /\ TypeOK /\ IdsAreFresh /\ NotYetRegistered /\ AnswersFollowRequests
      /\ EntriesAreUnanswered /\ WaitersAreKnown /\ SlotsAreHonest /\ AnswersMatch
      /\ OnlyDroppedLinger
  BY DEF RequestInv
<1>1. ASSUME NEW c \in Callers, Begin(c) PROVE RequestInv'
  <2>1. IdsAreFresh'
    BY <1>1, <1>i
    DEF Begin, TypeOK, IdsAreFresh
  <2>2. NotYetRegistered'
    BY <1>1, <1>i
    DEF Begin, TypeOK, IdsAreFresh, NotYetRegistered
  <2>3. WaitersAreKnown'
    BY <1>1, <1>i
    DEF Begin, TypeOK, IdsAreFresh, WaitersAreKnown
  <2>4. OnlyDroppedLinger'
    BY <1>1, <1>i
    DEF Begin, TypeOK, IdsAreFresh, EntriesAreUnanswered, WaitersAreKnown,
       OnlyDroppedLinger
  <2>5. (AnswersFollowRequests /\ EntriesAreUnanswered /\ SlotsAreHonest /\ AnswersMatch)'
    BY <1>1, <1>i
    DEF Begin, TypeOK, AnswersFollowRequests, EntriesAreUnanswered, SlotsAreHonest,
       AnswersMatch
  <2>6. QED
    BY <1>t, <2>1, <2>2, <2>3, <2>4, <2>5 DEF RequestInv
<1>2. ASSUME NEW c \in Callers, Register(c) PROVE RequestInv'
  <2>1. IdsAreFresh'
    BY <1>2, <1>i
    DEF Register, TypeOK, IdsAreFresh
  <2>2. NotYetRegistered'
    BY <1>2, <1>i
    DEF Register, TypeOK, IdsAreFresh, NotYetRegistered
  <2>3. EntriesAreUnanswered'
    BY <1>2, <1>i
    DEF Register, TypeOK, IdsAreFresh, NotYetRegistered, AnswersFollowRequests,
       EntriesAreUnanswered
  <2>4. WaitersAreKnown'
    BY <1>2, <1>i
    DEF Register, TypeOK, IdsAreFresh, WaitersAreKnown
  <2>5. OnlyDroppedLinger'
    BY <1>2, <1>i
    DEF Register, TypeOK, IdsAreFresh, EntriesAreUnanswered, WaitersAreKnown,
       OnlyDroppedLinger
  <2>6. (AnswersFollowRequests /\ SlotsAreHonest /\ AnswersMatch)'
    BY <1>2, <1>i
    DEF Register, TypeOK, AnswersFollowRequests, SlotsAreHonest, AnswersMatch
  <2>7. QED
    BY <1>t, <2>1, <2>2, <2>3, <2>4, <2>5, <2>6 DEF RequestInv
<1>3. ASSUME NEW c \in Callers, Write(c) PROVE RequestInv'
  <2>1. IdsAreFresh'
    BY <1>3, <1>i
    DEF Write, TypeOK, IdsAreFresh
  <2>2. NotYetRegistered'
    BY <1>3, <1>i
    DEF Write, TypeOK, IdsAreFresh, NotYetRegistered
  <2>3. AnswersFollowRequests'
    BY <1>3, <1>i
    DEF Write, TypeOK, AnswersFollowRequests
  <2>4. WaitersAreKnown'
    BY <1>3, <1>i
    DEF Write, TypeOK, IdsAreFresh, WaitersAreKnown
  <2>5. (EntriesAreUnanswered /\ SlotsAreHonest /\ AnswersMatch /\ (OnlyDroppedLinger))'
    BY <1>3, <1>i
    DEF Write, TypeOK, EntriesAreUnanswered, SlotsAreHonest, AnswersMatch,
       OnlyDroppedLinger
  <2>6. QED
    BY <1>t, <2>1, <2>2, <2>3, <2>4, <2>5 DEF RequestInv
<1>4. ASSUME NEW c \in Callers, SendOk(c) PROVE RequestInv'
  BY <1>4, <1>t, <1>i
  DEF SendOk, TypeOK, RequestInv, IdsAreFresh, NotYetRegistered,
     AnswersFollowRequests, EntriesAreUnanswered, WaitersAreKnown, SlotsAreHonest,
     AnswersMatch, OnlyDroppedLinger
<1>5. ASSUME NEW c \in Callers, SendErr(c) PROVE RequestInv'
  BY <1>5, <1>t, <1>i
  DEF SendErr, TypeOK, RequestInv, IdsAreFresh, NotYetRegistered,
     AnswersFollowRequests, EntriesAreUnanswered, WaitersAreKnown, SlotsAreHonest,
     AnswersMatch, OnlyDroppedLinger
<1>6. ASSUME NEW c \in Callers, ForgetFailed(c) PROVE RequestInv'
  <2>1. IdsAreFresh'
    BY <1>6, <1>i
    DEF ForgetFailed, Finish, TypeOK, IdsAreFresh
  <2>2. EntriesAreUnanswered'
    BY <1>6, <1>i
    DEF ForgetFailed, Finish, TypeOK, IdsAreFresh, NotYetRegistered,
       AnswersFollowRequests, EntriesAreUnanswered
  <2>3. WaitersAreKnown'
    BY <1>6, <1>i
    DEF ForgetFailed, Finish, TypeOK, IdsAreFresh, WaitersAreKnown
  <2>4. AnswersMatch'
    BY <1>6, <1>i
    DEF ForgetFailed, Finish, TypeOK, IdsAreFresh, SlotsAreHonest, AnswersMatch
  <2>5. OnlyDroppedLinger'
    BY <1>6, <1>i
    DEF ForgetFailed, Finish, TypeOK, IdsAreFresh, EntriesAreUnanswered,
       WaitersAreKnown, OnlyDroppedLinger
  <2>6. (NotYetRegistered /\ AnswersFollowRequests /\ SlotsAreHonest)'
    BY <1>6, <1>i
    DEF ForgetFailed, Finish, TypeOK, NotYetRegistered, AnswersFollowRequests,
       SlotsAreHonest
  <2>7. QED
    BY <1>t, <2>1, <2>2, <2>3, <2>4, <2>5, <2>6 DEF RequestInv
<1>7. ASSUME NEW c \in Callers, TakeAnswer(c) PROVE RequestInv'
  <2>1. IdsAreFresh'
    BY <1>7, <1>i
    DEF TakeAnswer, Finish, TypeOK, IdsAreFresh
  <2>2. WaitersAreKnown'
    BY <1>7, <1>i
    DEF TakeAnswer, Finish, TypeOK, IdsAreFresh, WaitersAreKnown
  <2>3. AnswersMatch'
    <3>1. [id |-> id[c], kind |-> slot[id[c]]] \in answered /\ id[c] \in Ids
      BY <1>7, <1>i DEF TakeAnswer, TypeOK, IdsAreFresh, SlotsAreHonest
    <3>2. /\ outcome' = [outcome EXCEPT ![id[c]] = Returned(slot[id[c]])]
          /\ answered' = answered
      BY <1>7 DEF TakeAnswer, Finish
    <3>3. ASSUME NEW i \in Ids, outcome'[i] \in {"Ok", "Decode", "Protocol"}
          PROVE \E a \in answered : a.id = i /\ Returned(a.kind) = outcome'[i]
      <4>1. CASE i = id[c]
        BY <4>1, <3>1, <3>2, <1>i DEF TypeOK
      <4>2. CASE i # id[c]
        BY <4>2, <3>2, <3>3, <1>i DEF TypeOK, AnswersMatch
      <4>3. QED
        BY <4>1, <4>2
    <3>4. QED
      BY <3>2, <3>3 DEF AnswersMatch
  <2>4. OnlyDroppedLinger'
    BY <1>7, <1>i
    DEF TakeAnswer, Finish, TypeOK, IdsAreFresh, EntriesAreUnanswered,
       WaitersAreKnown, OnlyDroppedLinger
  <2>5. (NotYetRegistered /\ AnswersFollowRequests /\ EntriesAreUnanswered /\ SlotsAreHonest)'
    BY <1>7, <1>i
    DEF TakeAnswer, Finish, TypeOK, NotYetRegistered, AnswersFollowRequests,
       EntriesAreUnanswered, SlotsAreHonest
  <2>6. QED
    BY <1>t, <2>1, <2>2, <2>3, <2>4, <2>5 DEF RequestInv
<1>8. ASSUME NEW c \in Callers, Expire(c) PROVE RequestInv'
  BY <1>8, <1>t, <1>i
  DEF Expire, TypeOK, RequestInv, IdsAreFresh, NotYetRegistered,
     AnswersFollowRequests, EntriesAreUnanswered, WaitersAreKnown, SlotsAreHonest,
     AnswersMatch, OnlyDroppedLinger
<1>9. ASSUME NEW c \in Callers, ForgetExpired(c) PROVE RequestInv'
  <2>1. IdsAreFresh'
    BY <1>9, <1>i
    DEF ForgetExpired, Finish, TypeOK, IdsAreFresh
  <2>2. EntriesAreUnanswered'
    BY <1>9, <1>i
    DEF ForgetExpired, Finish, TypeOK, IdsAreFresh, NotYetRegistered,
       AnswersFollowRequests, EntriesAreUnanswered
  <2>3. WaitersAreKnown'
    BY <1>9, <1>i
    DEF ForgetExpired, Finish, TypeOK, IdsAreFresh, WaitersAreKnown
  <2>4. AnswersMatch'
    BY <1>9, <1>i
    DEF ForgetExpired, Finish, TypeOK, IdsAreFresh, SlotsAreHonest, AnswersMatch
  <2>5. OnlyDroppedLinger'
    BY <1>9, <1>i
    DEF ForgetExpired, Finish, TypeOK, IdsAreFresh, EntriesAreUnanswered,
       WaitersAreKnown, OnlyDroppedLinger
  <2>6. (NotYetRegistered /\ AnswersFollowRequests /\ SlotsAreHonest)'
    BY <1>9, <1>i
    DEF ForgetExpired, Finish, TypeOK, NotYetRegistered, AnswersFollowRequests,
       SlotsAreHonest
  <2>7. QED
    BY <1>t, <2>1, <2>2, <2>3, <2>4, <2>5, <2>6 DEF RequestInv
<1>10. ASSUME NEW c \in Callers, Drop(c) PROVE RequestInv'
  <2>1. IdsAreFresh'
    BY <1>10, <1>i
    DEF Drop, Finish, TypeOK, IdsAreFresh
  <2>2. AnswersMatch'
    BY <1>10, <1>i
    DEF Drop, Finish, TypeOK, IdsAreFresh, SlotsAreHonest, AnswersMatch
  <2>3. OnlyDroppedLinger'
    BY <1>10, <1>i
    DEF Drop, Finish, TypeOK, IdsAreFresh, EntriesAreUnanswered, WaitersAreKnown,
       OnlyDroppedLinger
  <2>4. (NotYetRegistered /\ AnswersFollowRequests /\ EntriesAreUnanswered /\ WaitersAreKnown /\ SlotsAreHonest)'
    BY <1>10, <1>i
    DEF Drop, Finish, TypeOK, NotYetRegistered, AnswersFollowRequests,
       EntriesAreUnanswered, WaitersAreKnown, SlotsAreHonest
  <2>5. QED
    BY <1>t, <2>1, <2>2, <2>3, <2>4 DEF RequestInv
<1>11. ASSUME NEW a \in Answers, Answer(a) PROVE RequestInv'
  <2>1. AnswersFollowRequests'
    BY <1>11, <1>i
    DEF Answer, Answers, Kinds, TypeOK, AnswersFollowRequests
  <2>2. SlotsAreHonest'
    BY <1>11, <1>i
    DEF Answer, Answers, Kinds, TypeOK, EntriesAreUnanswered, SlotsAreHonest
  <2>3. AnswersMatch'
    BY <1>11, <1>i
    DEF Answer, Answers, Kinds, TypeOK, IdsAreFresh, SlotsAreHonest, AnswersMatch
  <2>4. (IdsAreFresh /\ NotYetRegistered /\ EntriesAreUnanswered /\ WaitersAreKnown /\ (OnlyDroppedLinger))'
    BY <1>11, <1>i
    DEF Answer, Answers, Kinds, TypeOK, IdsAreFresh, NotYetRegistered,
       EntriesAreUnanswered, WaitersAreKnown, OnlyDroppedLinger
  <2>5. QED
    BY <1>t, <2>1, <2>2, <2>3, <2>4 DEF RequestInv
<1>12. ASSUME NEW a \in Answers, HandleAnswer(a) PROVE RequestInv'
  <2>1. IdsAreFresh'
    BY <1>12, <1>i
    DEF HandleAnswer, Answers, Kinds, TypeOK, IdsAreFresh
  <2>2. NotYetRegistered'
    BY <1>12, <1>i
    DEF HandleAnswer, Answers, Kinds, TypeOK, IdsAreFresh, NotYetRegistered
  <2>3. AnswersFollowRequests'
    BY <1>12, <1>i
    DEF HandleAnswer, Answers, Kinds, TypeOK, AnswersFollowRequests
  <2>4. EntriesAreUnanswered'
    BY <1>12, <1>i
    DEF HandleAnswer, Answers, Kinds, TypeOK, IdsAreFresh, NotYetRegistered,
       AnswersFollowRequests, EntriesAreUnanswered
  <2>5. WaitersAreKnown'
    BY <1>12, <1>i
    DEF HandleAnswer, Answers, Kinds, TypeOK, IdsAreFresh, WaitersAreKnown
  <2>6. SlotsAreHonest'
    BY <1>12, <1>i
    DEF HandleAnswer, Answers, Kinds, TypeOK, EntriesAreUnanswered, SlotsAreHonest
  <2>7. OnlyDroppedLinger'
    BY <1>12, <1>i
    DEF HandleAnswer, Answers, Kinds, TypeOK, IdsAreFresh, EntriesAreUnanswered,
       WaitersAreKnown, OnlyDroppedLinger
  <2>8. (AnswersMatch)'
    BY <1>12, <1>i
    DEF HandleAnswer, Answers, Kinds, TypeOK, AnswersMatch
  <2>9. QED
    BY <1>t, <2>1, <2>2, <2>3, <2>4, <2>5, <2>6, <2>7, <2>8 DEF RequestInv
<1>13. CASE Disconnect
  BY <1>13, <1>t, <1>i
  DEF Disconnect, TypeOK, RequestInv, IdsAreFresh, NotYetRegistered,
     AnswersFollowRequests, EntriesAreUnanswered, WaitersAreKnown, SlotsAreHonest,
     AnswersMatch, OnlyDroppedLinger
<1>14. CASE UNCHANGED vars
  BY <1>14, <1>t, <1>i
  DEF vars, TypeOK, RequestInv, IdsAreFresh, NotYetRegistered, AnswersFollowRequests,
     EntriesAreUnanswered, WaitersAreKnown, SlotsAreHonest, AnswersMatch,
     OnlyDroppedLinger
<1>15. QED
  BY <1>1, <1>2, <1>3, <1>4, <1>5, <1>6, <1>7, <1>8, <1>9, <1>10, <1>11, <1>12, <1>13,
     <1>14
  DEF Next, Caller

\* The invariant holds throughout.
LEMMA RequestInvariant == Spec => []RequestInv
<1>1. Init => RequestInv
  <2> SUFFICES ASSUME Init PROVE RequestInv
    OBVIOUS
  <2>1. TypeOK
    BY Zenon DEF Init, TypeOK
  <2>2. QED
    BY <2>1
    DEF Init, RequestInv, IdsAreFresh, NotYetRegistered, AnswersFollowRequests,
        EntriesAreUnanswered, WaitersAreKnown, SlotsAreHonest, AnswersMatch,
        OnlyDroppedLinger, Active
<1>2. QED
  BY <1>1, RequestInvStep, PTL DEF Spec

\* Type correctness: in particular every table key and every id on the wire is
\* an id some request drew.
THEOREM RequestTypes == Spec => []TypeOK
<1>1. RequestInv => TypeOK
  BY DEF RequestInv
<1>2. QED
  BY <1>1, RequestInvariant, PTL

\* What a call returns as an answer was given to that very call, whatever the
\* peer repeats, delays or reorders (handle_frame's lookup by message id).
THEOREM AnswersAreMatched == Spec => []AnswersMatch
<1>1. RequestInv => AnswersMatch
  BY DEF RequestInv
<1>2. QED
  BY <1>1, RequestInvariant, PTL

\* No answer handled while its caller still waits is lost, even one that
\* overtakes send() (do_send_request registers before it sends).
THEOREM AnswersAreKept == Spec => []NoAnswerLost
<1>1. RequestInv => NoAnswerLost
  BY DEF RequestInv, NoAnswerLost, WaitersAreKnown, EntriesAreUnanswered
<1>2. QED
  BY <1>1, RequestInvariant, PTL

\* A duplicate answer never overwrites the first.
THEOREM DuplicatesAreIgnored == Spec => FirstAnswerWins
<1>1. RequestInv /\ [Next]_vars
        => [\A i \in Ids : slot[i] # "empty" => slot'[i] = slot[i]]_slot
  <2> SUFFICES ASSUME RequestInv, [Next]_vars, NEW i \in Ids, slot[i] # "empty"
               PROVE slot'[i] = slot[i]
    OBVIOUS
  <2>1. ASSUME NEW a \in Answers, HandleAnswer(a) PROVE slot'[i] = slot[i]
    BY <2>1 DEF HandleAnswer, RequestInv, TypeOK, EntriesAreUnanswered, tableVars
  <2>2. CASE \A a \in Answers : ~HandleAnswer(a)
    BY <2>2 DEF Next, Caller, Begin, Register, Write, SendOk, SendErr, ForgetFailed,
       TakeAnswer, Expire, ForgetExpired, Drop, Answer, Disconnect, vars, tableVars
  <2>3. QED
    BY <2>1, <2>2
<1>2. QED
  BY <1>1, RequestInvariant, PTL DEF Spec, FirstAnswerWins

\* The table drains: an entry without a request in flight is one whose future
\* was dropped.
THEOREM TableDrains == Spec => []OnlyDroppedLinger
<1>1. RequestInv => OnlyDroppedLinger
  BY DEF RequestInv
<1>2. QED
  BY <1>1, RequestInvariant, PTL

==============================================================================
