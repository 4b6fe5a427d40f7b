---------------------------- MODULE ServicesProofs ----------------------------
(***************************************************************************)
(* The safety of the bridge's background loops, for any tasks, grants,      *)
(* sessions and bounds.  Each part has an inductive invariant of its own:   *)
(*                                                                          *)
(*   - delegations: an answer that says "delegated" is backed by a stored   *)
(*     message from the moment the control plane gives it, so it may be     *)
(*     recorded late; and the control plane's own row is the only one that  *)
(*     can send a task, since whatever is sent is written in it;            *)
(*   - replies: whatever is in flight or about to be sent has no reply of   *)
(*     its session before it that could still be sent;                      *)
(*   - heartbeat: the budget is never older than the last success.          *)
(***************************************************************************)
EXTENDS MCServices, SequenceLemmas, FiniteSetTheorems

-----------------------------------------------------------------------------
(* Tasks handed to a peer's agent (Delegation).                             *)

Row == [status : {"none", "grant_requested", "delegated", "failed"}, comm : Grants \cup {None}]
Caller == [busy : BOOLEAN, todo : SUBSET Delegating!Pending,
           at : Delegating!Pending \cup {None}, answer : Delegating!Answers \cup {None}]

DelegationTypes ==
    /\ rows \in [Tasks -> Row]
    /\ late \subseteq Tasks
    /\ call \in [Delegating!Callers -> Caller]
    /\ inbox \in Seq([type : {"activated", "ended"}, grant : Grants])
    /\ cpRows \in [Tasks -> [comm : Grants \cup {None}, sent : BOOLEAN]]
    /\ grants \in [Grants -> {"unused", "pending", "active", "ended"}]
    /\ msgs \subseteq Tasks \X Grants
    /\ stray \subseteq Tasks
    /\ \A c \in Delegating!Callers : call[c].answer # None => call[c].at # None

\* The control plane's row of a task is the message it sent for it.
SentAsRecorded == \A t \in Tasks : \A g \in Grants : <<t, g>> \in msgs <=> cpRows[t] = [comm |-> g, sent |-> TRUE]
SentRowHasGrant == \A t \in Tasks : cpRows[t].sent => cpRows[t].comm # None

\* An answer under way says "delegated" only of what was sent.
AnswersAreTrue ==
    \A c \in Delegating!Callers :
        call[c].answer # None /\ call[c].answer.status = "delegated" =>
            <<call[c].at.task, call[c].answer.comm>> \in msgs

\* An event whose rows are being retried has not been passed.
EventIsHeld == call["events"].busy => inbox # <<>>

DelegationInv == DelegationTypes /\ SentAsRecorded /\ SentRowHasGrant /\ AnswersAreTrue /\ Delegating!DelegatedWasSent

-----------------------------------------------------------------------------
(* Replies on their way to the control plane (OutboundReplies).             *)

ReplyRow == [id : Replies!Ids, status : Replies!Statuses]

ReplyTypes ==
    /\ log \in [Streams -> Seq(Replies!Kinds)]
    /\ cursor \in [Streams -> Nat]
    /\ \A n \in Streams : Len(log[n]) <= MaxEvents /\ cursor[n] <= Len(log[n])
    /\ storing \subseteq Streams
    /\ \A n \in storing : cursor[n] < Len(log[n])
    /\ table \in Seq(ReplyRow)
    /\ todo \in Seq(Replies!Ids)
    /\ sending \in Replies!Ids \cup {None}
    /\ answer \in {None, "ok", "terminal", "retry"}
    /\ answer # None => sending # None
    /\ received \in Seq(Replies!Ids)
    /\ collab \subseteq Streams

\* a is a reply of the session of b and comes before it.
Before(a, b) == a[1] = b[1] /\ a[2] < b[2]

\* Ids of the table, and of its rows that wait.
Known == {table[i].id : i \in 1 .. Len(table)}
Waits == {table[i].id : i \in {j \in 1 .. Len(table) : table[j].status = "pending"}}
Read == {todo[i] : i \in 1 .. Len(todo)}
Got == {received[i] : i \in 1 .. Len(received)}

\* The table has the replies of a session in the order of its events, up to the one at its cursor.
TableInOrder ==
    /\ \A i, j \in 1 .. Len(table) : i < j /\ table[i].id[1] = table[j].id[1] => table[i].id[2] < table[j].id[2]
    /\ \A id \in Known : id[2] <= cursor[id[1]] + 1

\* A pass has the rows that wait in their order, and none before one it has that it has not.
PassInOrder ==
    /\ Read \subseteq Known
    /\ \A i, j \in 1 .. Len(todo) : i < j => ~Before(todo[j], todo[i]) /\ todo[i] # todo[j]
    /\ \A i \in 1 .. Len(todo) : \A id \in Waits :
          Before(id, todo[i]) => id = sending \/ \E j \in 1 .. Len(todo) : j < i /\ id = todo[j]

\* No reply before the one in flight, or before one that has arrived, can still be sent.
Open == Waits \cup Read
SendingIsNext ==
    sending # None => /\ sending \in Known /\ sending \notin Read
                      /\ \A id \in Open : ~Before(id, sending)
ReceivedIsPast ==
    /\ Got \subseteq Known
    /\ \A id \in Open \cup {sending} : \A r \in Got : id # None => ~Before(id, r)

RepliesInv ==
    /\ ReplyTypes /\ TableInOrder /\ PassInOrder /\ SendingIsNext /\ ReceivedIsPast
    /\ Replies!RepliesInOrder

-----------------------------------------------------------------------------
(* The device's credentials and the heartbeat (Heartbeat).                  *)

BeatingTypes ==
    /\ own \in Beating!Tokens /\ file \in Beating!Tokens /\ valid \in Beating!Tokens /\ minted \in Beating!Tokens
    /\ rotation \in Beating!Tokens \cup {None}
    /\ recovering \in BOOLEAN /\ waiters \subseteq Beating!Loops /\ fresh \in BOOLEAN
    /\ hb \in [pc : {"waiting", "beating", "recovering", "publishing"}, token : Beating!Tokens]
    /\ ev \in [pc : {"waiting", "connecting", "streaming", "recovering"}, token : Beating!Tokens]
    /\ budget \in Beating!Ages \cup {None} /\ good \in Beating!Ages
    /\ health \in [status : Beating!Statuses, failures : 0 .. FailureThreshold]
    /\ pending \in Handles \cup {None} /\ captured \in Handles \cup {None} /\ published \in Handles \cup {None}

\* The budget starts with a failure after the last success.
BudgetIsYounger == budget # None => budget <= good

BeatingInv == BeatingTypes /\ BudgetIsYounger

-----------------------------------------------------------------------------
(* Delegations: the proof.                                                  *)

LEMMA DelegationInit == Delegating!Init => DelegationInv
<1> SUFFICES ASSUME Delegating!Init
             PROVE  DelegationInv
  OBVIOUS
<1> USE DEF Delegating!Init
<1>1. DelegationTypes
  <2>1. <<>> \in Seq([type : {"activated", "ended"}, grant : Grants])
    OBVIOUS
  <2>2. \A c \in Delegating!Callers : call[c] = Delegating!Idle
    OBVIOUS
  <2>3. Delegating!Idle \in Caller
    BY DEF Caller, Delegating!Idle
  <2>4. call \in [Delegating!Callers -> Caller]
    BY <2>3
  <2>5. rows \in [Tasks -> Row]
    BY DEF Row, Delegating!NoRow
  <2> QED
    BY <2>1, <2>2, <2>4, <2>5 DEF DelegationTypes, Delegating!Idle
<1>2. SentAsRecorded /\ SentRowHasGrant
  BY DEF SentAsRecorded, SentRowHasGrant
<1>3. AnswersAreTrue
  BY DEF AnswersAreTrue, Delegating!Idle
<1>4. Delegating!DelegatedWasSent
  BY DEF Delegating!DelegatedWasSent, Delegating!NoRow
<1> QED
  BY <1>1, <1>2, <1>3, <1>4 DEF DelegationInv

\* What a request does at the control plane, whatever brings it there.
ControlPlaneKept ==
    /\ cpRows' \in [Tasks -> [comm : Grants \cup {None}, sent : BOOLEAN]]
    /\ grants' \in [Grants -> {"unused", "pending", "active", "ended"}]
    /\ msgs' \subseteq Tasks \X Grants
    /\ SentAsRecorded' /\ SentRowHasGrant'
    /\ msgs \subseteq msgs'

LEMMA SendKeeps ==
  ASSUME DelegationInv, NEW t \in Tasks, NEW g \in Grants, NEW a,
         ~cpRows[t].sent, Delegating!SendInvite(t, g, a)
  PROVE  /\ ControlPlaneKept
         /\ a.status = "delegated" => <<t, a.comm>> \in msgs'
<1> USE DEF DelegationInv, DelegationTypes, SentAsRecorded, SentRowHasGrant
<1>1. CASE UNCHANGED Delegating!controlPlane /\ a \in {Delegating!Refused("terminal"), Delegating!Refused("retry")}
  BY <1>1 DEF Delegating!controlPlane, Delegating!Refused, ControlPlaneKept
<1>2. CASE /\ msgs' = msgs \cup {<<t, g>>}
           /\ cpRows' = [cpRows EXCEPT ![t] = [comm |-> g, sent |-> TRUE]]
           /\ a = [status |-> "delegated", comm |-> g]
           /\ UNCHANGED grants
  <2>1. cpRows' \in [Tasks -> [comm : Grants \cup {None}, sent : BOOLEAN]]
    BY <1>2
  <2>2. \A u \in Tasks : cpRows'[u] = IF u = t THEN [comm |-> g, sent |-> TRUE] ELSE cpRows[u]
    BY <1>2
  <2>3. \A h \in Grants : <<t, h>> \notin msgs
    OBVIOUS
  <2>4. SentAsRecorded'
    <3> SUFFICES ASSUME NEW u \in Tasks, NEW h \in Grants
                 PROVE  <<u, h>> \in msgs' <=> cpRows'[u] = [comm |-> h, sent |-> TRUE]
      OBVIOUS
    <3>1. CASE u = t
      <4>1. <<u, h>> \in msgs' <=> h = g
        BY <1>2, <2>3, <3>1
      <4>2. cpRows'[u] = [comm |-> g, sent |-> TRUE]
        BY <2>2, <3>1
      <4>3. [comm |-> g, sent |-> TRUE].comm = g /\ [comm |-> h, sent |-> TRUE].comm = h
        OBVIOUS
      <4>4. [comm |-> g, sent |-> TRUE] = [comm |-> h, sent |-> TRUE] <=> h = g
        BY <4>3
      <4> QED
        BY <4>1, <4>2, <4>4
    <3>2. CASE u # t
      BY <1>2, <2>2, <3>2
    <3> QED
      BY <3>1, <3>2
  <2>5. SentRowHasGrant'
    BY <2>2, ServicesAssumption DEF ServicesAssumption
  <2> QED
    BY <1>2, <2>1, <2>4, <2>5 DEF ControlPlaneKept
<1> QED
  BY <1>1, <1>2 DEF Delegating!SendInvite

LEMMA DelegateKeeps ==
  ASSUME DelegationInv, NEW t \in Tasks, NEW a, Delegating!Delegate(t, a)
  PROVE  /\ ControlPlaneKept
         /\ a.status = "delegated" => <<t, a.comm>> \in msgs'
<1> USE DEF DelegationInv, DelegationTypes
<1>1. cpRows[t] \in [comm : Grants \cup {None}, sent : BOOLEAN]
  OBVIOUS
<1>2. ASSUME UNCHANGED Delegating!controlPlane
      PROVE  ControlPlaneKept
  BY <1>2 DEF Delegating!controlPlane, ControlPlaneKept, SentAsRecorded, SentRowHasGrant
<1>3. CASE cpRows[t].comm # None
  <2> DEFINE g == cpRows[t].comm
  <2>1. g \in Grants
    BY <1>1, <1>3
  <2>2. Delegating!ResumeExisting(t, a)
    BY <1>3 DEF Delegating!Delegate
  <2>3. CASE cpRows[t].sent /\ a = [status |-> "delegated", comm |-> g] /\ UNCHANGED Delegating!controlPlane
    <3>1. cpRows[t] = [comm |-> g, sent |-> TRUE]
      BY <1>1, <2>3
    <3>2. <<t, g>> \in msgs
      BY <2>1, <3>1 DEF SentAsRecorded
    <3> QED
      BY <1>2, <2>3, <3>2 DEF Delegating!controlPlane
  <2>4. CASE ~cpRows[t].sent /\ Delegating!SendInvite(t, g, a)
    BY <2>1, <2>4, SendKeeps
  <2>5. CASE a = [status |-> "grant_requested", comm |-> g] /\ UNCHANGED Delegating!controlPlane
    BY <1>2, <2>5
  <2>6. CASE a = Delegating!Refused("retry") /\ UNCHANGED Delegating!controlPlane
    BY <1>2, <2>6 DEF Delegating!Refused
  <2> QED
    BY <2>2, <2>3, <2>4, <2>5, <2>6 DEF Delegating!ResumeExisting
<1>4. CASE cpRows[t].comm = None
  <2>1. Delegating!DelegateNew(t, a)
    BY <1>4 DEF Delegating!Delegate
  <2>2. ~cpRows[t].sent
    BY <1>4 DEF SentRowHasGrant
  <2>3. ASSUME NEW g \in Grants, Delegating!SendInvite(t, g, a)
        PROVE  /\ ControlPlaneKept
               /\ a.status = "delegated" => <<t, a.comm>> \in msgs'
    BY <2>2, <2>3, SendKeeps
  <2>4. ASSUME NEW g \in Grants,
               grants' = [grants EXCEPT ![g] = "pending"],
               cpRows' = [cpRows EXCEPT ![t] = [comm |-> g, sent |-> FALSE]],
               a = [status |-> "grant_requested", comm |-> g],
               UNCHANGED msgs
        PROVE  ControlPlaneKept /\ a.status # "delegated"
    <3>1. \A u \in Tasks : cpRows'[u] = IF u = t THEN [comm |-> g, sent |-> FALSE] ELSE cpRows[u]
      BY <2>4
    <3>2. \A h \in Grants : <<t, h>> \notin msgs
      BY <2>2 DEF SentAsRecorded
    <3>3. SentAsRecorded'
      BY <2>4, <3>1, <3>2 DEF SentAsRecorded
    <3>4. SentRowHasGrant'
      BY <3>1 DEF SentRowHasGrant
    <3>5. /\ cpRows' \in [Tasks -> [comm : Grants \cup {None}, sent : BOOLEAN]]
          /\ grants' \in [Grants -> {"unused", "pending", "active", "ended"}]
      BY <2>4
    <3> QED
      BY <2>4, <3>3, <3>4, <3>5 DEF ControlPlaneKept
  <2>5. CASE a \in {Delegating!Refused("terminal"), Delegating!Refused("retry")} /\ UNCHANGED Delegating!controlPlane
    BY <1>2, <2>5 DEF Delegating!Refused
  <2> QED
    BY <2>1, <2>3, <2>4, <2>5 DEF Delegating!DelegateNew
<1> QED
  BY <1>3, <1>4

\* The rest of the invariant is about the spool and the callers.
SpoolKept ==
    /\ rows' \in [Tasks -> Row]
    /\ late' \subseteq Tasks
    /\ call' \in [Delegating!Callers -> Caller]
    /\ inbox' \in Seq([type : {"activated", "ended"}, grant : Grants])
    /\ stray' \subseteq Tasks
    /\ \A c \in Delegating!Callers : call'[c].answer # None => call'[c].at # None
    /\ \A c \in Delegating!Callers :
          call'[c].answer # None /\ call'[c].answer.status = "delegated" =>
              <<call'[c].at.task, call'[c].answer.comm>> \in msgs'
    /\ \A t \in Tasks : rows'[t].status = "delegated" => <<t, rows'[t].comm>> \in msgs'

LEMMA BothKept == ControlPlaneKept /\ SpoolKept => DelegationInv'
BY DEF DelegationInv, DelegationTypes, AnswersAreTrue, Delegating!DelegatedWasSent, ControlPlaneKept, SpoolKept

LEMMA ControlPlaneRests == DelegationInv /\ UNCHANGED Delegating!controlPlane => ControlPlaneKept
BY DEF DelegationInv, DelegationTypes, Delegating!controlPlane, ControlPlaneKept, SentAsRecorded, SentRowHasGrant

\* A caller whose request changes keeps the rest of the spool.
LEMMA OneCallerChanges ==
  ASSUME DelegationInv, NEW c \in Delegating!Callers, NEW new \in Caller,
         call' = [call EXCEPT ![c] = new],
         msgs \subseteq msgs',
         new.answer # None => new.at # None,
         new.answer # None /\ new.answer.status = "delegated" => <<new.at.task, new.answer.comm>> \in msgs'
  PROVE  /\ call' \in [Delegating!Callers -> Caller]
         /\ \A d \in Delegating!Callers : call'[d].answer # None => call'[d].at # None
         /\ \A d \in Delegating!Callers :
               call'[d].answer # None /\ call'[d].answer.status = "delegated" =>
                   <<call'[d].at.task, call'[d].answer.comm>> \in msgs'
<1> USE DEF DelegationInv, DelegationTypes
<1>1. \A d \in Delegating!Callers : call'[d] = IF d = c THEN new ELSE call[d]
  OBVIOUS
<1>2. call' \in [Delegating!Callers -> Caller]
  OBVIOUS
<1>3. \A d \in Delegating!Callers : call'[d].answer # None => call'[d].at # None
  BY <1>1
<1>4. ASSUME NEW d \in Delegating!Callers, call'[d].answer # None, call'[d].answer.status = "delegated"
      PROVE  <<call'[d].at.task, call'[d].answer.comm>> \in msgs'
  <2>1. CASE d = c
    BY <1>1, <1>4, <2>1
  <2>2. CASE d # c
    BY <1>1, <1>4, <2>2 DEF AnswersAreTrue
  <2> QED
    BY <2>1, <2>2
<1> QED
  BY <1>2, <1>3, <1>4

\* What is failed was not delegated, and stays a row.
LEMMA FailedRows ==
  ASSUME DelegationInv, NEW g, rows' = Delegating!FailWaiting(g), msgs \subseteq msgs'
  PROVE  /\ rows' \in [Tasks -> Row]
         /\ \A t \in Tasks : rows'[t].status = "delegated" => <<t, rows'[t].comm>> \in msgs'
<1> USE DEF DelegationInv, DelegationTypes
<1>1. \A t \in Tasks : \/ rows'[t] = rows[t]
                       \/ rows'[t] = [rows[t] EXCEPT !.status = "failed"]
  BY DEF Delegating!FailWaiting
<1>2. \A t \in Tasks : [rows[t] EXCEPT !.status = "failed"] \in Row
  BY DEF Row
<1>3. rows' \in [Tasks -> Row]
  <2>1. rows' = [t \in Tasks |-> rows'[t]]
    BY DEF Delegating!FailWaiting
  <2> QED
    BY <1>1, <1>2, <2>1
<1>4. ASSUME NEW t \in Tasks, rows'[t].status = "delegated"
      PROVE  <<t, rows'[t].comm>> \in msgs'
  <2>1. [rows[t] EXCEPT !.status = "failed"].status = "failed"
    BY DEF Row
  <2>2. rows'[t] = rows[t]
    BY <1>1, <1>4, <2>1
  <2> QED
    BY <1>4, <2>2 DEF Delegating!DelegatedWasSent
<1> QED
  BY <1>3, <1>4

LEMMA RowsRest ==
  ASSUME DelegationInv, UNCHANGED rows, msgs \subseteq msgs'
  PROVE  /\ rows' \in [Tasks -> Row]
         /\ \A t \in Tasks : rows'[t].status = "delegated" => <<t, rows'[t].comm>> \in msgs'
BY DEF DelegationInv, DelegationTypes, Delegating!DelegatedWasSent

\* An answer is written over the row, whatever the row was.
LEMMA AnsweredRows ==
  ASSUME DelegationInv, NEW c \in Delegating!Callers, call[c].answer # None,
         Delegating!Answered(c, call[c].at, call[c].answer), UNCHANGED msgs
  PROVE  /\ rows' \in [Tasks -> Row]
         /\ \A t \in Tasks : rows'[t].status = "delegated" => <<t, rows'[t].comm>> \in msgs'
<1> DEFINE p == call[c].at
           a == call[c].answer
<1>1. call[c] \in Caller /\ p # None
  BY DEF DelegationInv, DelegationTypes
<1>2. p \in Delegating!Pending /\ a \in Delegating!Answers
  BY <1>1 DEF Caller
<1>3. p.task \in Tasks
  BY <1>2 DEF Delegating!Pending
<1>4. /\ a.comm \in Grants \cup {None}
      /\ a.status = "delegated" => a.comm \in Grants
  BY <1>2 DEF Delegating!Answers
<1>5. a.status = "delegated" => <<p.task, a.comm>> \in msgs
  BY DEF DelegationInv, AnswersAreTrue
<1> HIDE DEF p, a
<1>6. CASE rows' = Delegating!Stored(p.task, Delegating!StatusOf(a), a.comm)
  <2>1. rows \in [Tasks -> Row]
    BY DEF DelegationInv, DelegationTypes
  <2>2. PICK new : new = [status |-> Delegating!StatusOf(a), comm |-> IF a.comm = None THEN rows[p.task].comm ELSE a.comm]
    OBVIOUS
  <2>3. Delegating!StatusOf(a) \in {"delegated", "grant_requested"} /\ (Delegating!StatusOf(a) = "delegated" => a.status = "delegated")
    BY DEF Delegating!StatusOf
  <2>4. new \in Row /\ new.status = Delegating!StatusOf(a)
    BY <1>3, <1>4, <2>1, <2>2, <2>3 DEF Row
  <2>5. rows' = [rows EXCEPT ![p.task] = new]
    BY <1>6, <2>2 DEF Delegating!Stored
  <2>6. rows' \in [Tasks -> Row] /\ \A t \in Tasks : rows'[t] = IF t = p.task THEN new ELSE rows[t]
    BY <2>1, <2>4, <2>5
  <2>7. new.status = "delegated" => <<p.task, new.comm>> \in msgs
    <3>1. new.status = "delegated" => a.comm # None
      BY <1>4, <2>3, <2>4, ServicesAssumption DEF ServicesAssumption
    <3> QED
      BY <1>5, <2>2, <2>3, <2>4, <3>1
  <2>8. \A t \in Tasks : rows[t].status = "delegated" => <<t, rows[t].comm>> \in msgs
    BY DEF DelegationInv, Delegating!DelegatedWasSent
  <2> QED
    BY <2>6, <2>7, <2>8
<1>7. CASE rows' = Delegating!FailWaiting(p.comm)
  BY <1>7, FailedRows
<1>8. CASE rows' = rows
  BY <1>8, RowsRest
<1> QED
  BY <1>6, <1>7, <1>8 DEF Delegating!Answered, p, a

LEMMA PendingRows ==
  ASSUME DelegationInv, NEW comms
  PROVE  Delegating!ListPending(comms) \subseteq Delegating!Pending
<1>1. \A t \in Tasks : rows[t].comm \in Grants \cup {None}
  BY DEF DelegationInv, DelegationTypes, Row
<1> QED
  BY <1>1 DEF Delegating!ListPending, Delegating!Pending

\* The steps of a caller.
LEMMA CallerKeeps ==
  ASSUME DelegationInv, NEW c \in Delegating!Callers, Delegating!Step(c) \/ Delegating!Lose(c)
  PROVE  DelegationInv'
<1> USE DEF DelegationInv, DelegationTypes
<1>c. call[c] \in Caller
  OBVIOUS
<1>1. ASSUME NEW p \in call[c].todo, Delegating!Expired(c, p)
      PROVE  DelegationInv'
  <2>1. PICK new : new = [call[c] EXCEPT !.todo = @ \ {p}]
    OBVIOUS
  <2>2. call' = [call EXCEPT ![c] = new]
    BY <1>1, <2>1 DEF Delegating!Expired
  <2>3. new \in Caller /\ new.answer = call[c].answer /\ new.at = call[c].at
    BY <1>c, <2>1 DEF Caller
  <2>4. UNCHANGED Delegating!controlPlane /\ UNCHANGED <<late, inbox, stray, msgs>>
    BY <1>1 DEF Delegating!Expired, Delegating!controlPlane
  <2>5. /\ rows' \in [Tasks -> Row]
        /\ \A t \in Tasks : rows'[t].status = "delegated" => <<t, rows'[t].comm>> \in msgs'
    BY <1>1, <2>4, FailedRows, RowsRest DEF Delegating!Expired
  <2>6. /\ new.answer # None => new.at # None
        /\ new.answer # None /\ new.answer.status = "delegated" => <<new.at.task, new.answer.comm>> \in msgs'
    BY <2>3, <2>4 DEF AnswersAreTrue
  <2>7. SpoolKept
    BY <2>2, <2>3, <2>4, <2>5, <2>6, OneCallerChanges DEF SpoolKept
  <2> QED
    BY <2>4, <2>7, BothKept, ControlPlaneRests
<1>2. ASSUME NEW p \in call[c].todo, Delegating!Ask(c, p)
      PROVE  DelegationInv'
  <2>1. PICK new : new = [call[c] EXCEPT !.todo = @ \ {p}, !.at = p]
    OBVIOUS
  <2>2. call' = [call EXCEPT ![c] = new]
    BY <1>2, <2>1 DEF Delegating!Ask
  <2>3. new \in Caller /\ new.answer = call[c].answer
    BY <1>c, <2>1 DEF Caller
  <2>4. UNCHANGED Delegating!controlPlane /\ UNCHANGED <<rows, late, inbox, stray, msgs>> /\ call[c].answer = None
    BY <1>2 DEF Delegating!Ask, Delegating!controlPlane
  <2>5. SpoolKept
    BY <2>2, <2>3, <2>4, OneCallerChanges, RowsRest DEF SpoolKept
  <2> QED
    BY <2>4, <2>5, BothKept, ControlPlaneRests
<1>3. CASE Delegating!Process(c)
  <2>1. PICK a \in Delegating!Answers :
            /\ call' = [call EXCEPT ![c].answer = a]
            /\ \/ Delegating!Delegate(call[c].at.task, a)
               \/ a = Delegating!Refused("collaboration_requested") /\ UNCHANGED Delegating!controlPlane
    BY <1>3 DEF Delegating!Process
  <2>2. UNCHANGED <<rows, late, inbox, stray>> /\ call[c].at # None
    BY <1>3 DEF Delegating!Process
  <2>3. PICK new : new = [call[c] EXCEPT !.answer = a]
    OBVIOUS
  <2>4. call' = [call EXCEPT ![c] = new]
    BY <2>1, <2>3
  <2>5. new \in Caller /\ new.answer = a /\ new.at = call[c].at
    BY <1>c, <2>1, <2>3 DEF Caller
  <2>6. call[c].at.task \in Tasks
    BY <1>c, <2>2 DEF Caller, Delegating!Pending
  <2>7. ControlPlaneKept /\ (a.status = "delegated" => <<call[c].at.task, a.comm>> \in msgs')
    <3>1. CASE Delegating!Delegate(call[c].at.task, a)
      BY <2>6, <3>1, DelegateKeeps
    <3>2. CASE a = Delegating!Refused("collaboration_requested") /\ UNCHANGED Delegating!controlPlane
      BY <3>2, ControlPlaneRests DEF Delegating!Refused
    <3> QED
      BY <2>1, <3>1, <3>2
  <2>8. msgs \subseteq msgs'
    BY <2>7 DEF ControlPlaneKept
  <2>9. SpoolKept
    BY <2>2, <2>4, <2>5, <2>7, <2>8, OneCallerChanges, RowsRest DEF SpoolKept
  <2> QED
    BY <2>7, <2>9, BothKept
<1>4. CASE Delegating!Record(c)
  <2>1. PICK new : new = [call[c] EXCEPT !.at = None, !.answer = None]
    OBVIOUS
  <2>2. call' = [call EXCEPT ![c] = new]
    BY <1>4, <2>1 DEF Delegating!Record
  <2>3. new \in Caller /\ new.answer = None
    BY <1>c, <2>1 DEF Caller
  <2>4. UNCHANGED Delegating!controlPlane /\ UNCHANGED <<inbox, stray, msgs>> /\ call[c].answer # None
    BY <1>4 DEF Delegating!Record, Delegating!controlPlane
  <2>5. late' \subseteq Tasks
    BY <1>4 DEF Delegating!Record
  <2>6. /\ rows' \in [Tasks -> Row]
        /\ \A t \in Tasks : rows'[t].status = "delegated" => <<t, rows'[t].comm>> \in msgs'
    BY <1>4, <2>4, AnsweredRows DEF Delegating!Record
  <2>7. SpoolKept
    BY <2>2, <2>3, <2>4, <2>5, <2>6, OneCallerChanges DEF SpoolKept
  <2> QED
    BY <2>4, <2>7, BothKept, ControlPlaneRests
<1>5. CASE Delegating!Lose(c)
  <2>1. PICK new : new = [call[c] EXCEPT !.answer = Delegating!Refused("retry")]
    OBVIOUS
  <2>2. call' = [call EXCEPT ![c] = new]
    BY <1>5, <2>1 DEF Delegating!Lose
  <2>3. Delegating!Refused("retry") \in Delegating!Answers /\ Delegating!Refused("retry").status = "retry"
    BY DEF Delegating!Refused, Delegating!Answers
  <2>4. new \in Caller /\ new.answer = Delegating!Refused("retry") /\ new.at = call[c].at
    BY <1>c, <2>1, <2>3 DEF Caller
  <2>5. UNCHANGED Delegating!controlPlane /\ UNCHANGED <<rows, late, inbox, msgs>> /\ call[c].at # None
    BY <1>5 DEF Delegating!Lose, Delegating!controlPlane
  <2>6. stray' \subseteq Tasks
    <3>1. call[c].at.task \in Tasks
      BY <1>c, <2>5 DEF Caller, Delegating!Pending
    <3> QED
      BY <1>5, <3>1 DEF Delegating!Lose
  <2>7. SpoolKept
    BY <2>2, <2>3, <2>4, <2>5, <2>6, OneCallerChanges, RowsRest DEF SpoolKept
  <2> QED
    BY <2>5, <2>7, BothKept, ControlPlaneRests
<1> QED
  BY <1>1, <1>2, <1>3, <1>4, <1>5 DEF Delegating!Step

\* The steps of a caller that starts or ends its work.
LEMMA CallersStart ==
  ASSUME DelegationInv, NEW c \in Delegating!Callers, NEW new \in Caller,
         call' = [call EXCEPT ![c] = new], new.answer = None,
         UNCHANGED <<rows, late, stray>>, UNCHANGED Delegating!controlPlane,
         inbox' \in Seq([type : {"activated", "ended"}, grant : Grants])
  PROVE  DelegationInv'
<1>1. UNCHANGED msgs
  BY DEF Delegating!controlPlane
<1>2. late' \subseteq Tasks /\ stray' \subseteq Tasks
  BY DEF DelegationInv, DelegationTypes
<1>3. SpoolKept
  BY <1>1, <1>2, OneCallerChanges, RowsRest DEF SpoolKept
<1> QED
  BY <1>3, BothKept, ControlPlaneRests

LEMMA InboxGrows ==
  ASSUME DelegationInv, NEW g \in Grants
  PROVE  /\ Append(inbox, [type |-> "activated", grant |-> g]) \in Seq([type : {"activated", "ended"}, grant : Grants])
         /\ Append(inbox, [type |-> "ended", grant |-> g]) \in Seq([type : {"activated", "ended"}, grant : Grants])
<1> PICK E : E = [type : {"activated", "ended"}, grant : Grants]
  OBVIOUS
<1>1. [type |-> "activated", grant |-> g] \in E /\ [type |-> "ended", grant |-> g] \in E
  OBVIOUS
<1>2. inbox \in Seq(E)
  BY DEF DelegationInv, DelegationTypes
<1> QED
  BY <1>1, <1>2

LEMMA IdleCaller == Delegating!Idle \in Caller /\ Delegating!Idle.answer = None /\ ~Delegating!Idle.busy
BY DEF Caller, Delegating!Idle

LEMMA DelegationNext == DelegationInv /\ EventIsHeld /\ [Delegating!Next]_delegating => DelegationInv'
<1> SUFFICES ASSUME DelegationInv, EventIsHeld, [Delegating!Next]_delegating
             PROVE  DelegationInv'
  OBVIOUS
<1> USE DEF DelegationInv, DelegationTypes
<1> DEFINE E == [type : {"activated", "ended"}, grant : Grants]
<1>1. ASSUME NEW t \in Tasks, Delegating!Request(t)
      PROVE  DelegationInv'
  <2>1. "command" \in Delegating!Callers /\ call["command"] = Delegating!Idle
    BY <1>1 DEF Delegating!Request, Delegating!Callers
  <2>2. PICK new : new = [call["command"] EXCEPT !.at = [task |-> t, comm |-> None]]
    OBVIOUS
  <2>3. call' = [call EXCEPT !["command"] = new]
    BY <1>1, <2>2 DEF Delegating!Request
  <2>4. [task |-> t, comm |-> None] \in Delegating!Pending
    BY DEF Delegating!Pending
  <2>5. new \in Caller /\ new.answer = None
    BY <2>1, <2>2, <2>4, IdleCaller DEF Caller
  <2> QED
    BY <1>1, <2>1, <2>3, <2>5, CallersStart DEF Delegating!Request
<1>2. ASSUME NEW t \in Tasks, Delegating!ProcessStray(t)
      PROVE  DelegationInv'
  <2>1. ControlPlaneKept
    BY <1>2, DelegateKeeps DEF Delegating!ProcessStray
  <2>2. msgs \subseteq msgs'
    BY <2>1 DEF ControlPlaneKept
  <2>3. UNCHANGED <<rows, late, call, inbox>> /\ stray' \subseteq Tasks
    BY <1>2 DEF Delegating!ProcessStray, Delegating!bridge
  <2>4. SpoolKept
    BY <2>2, <2>3 DEF SpoolKept, AnswersAreTrue, Delegating!DelegatedWasSent
  <2> QED
    BY <2>1, <2>4, BothKept
<1>3. ASSUME NEW t \in Tasks, Delegating!Deadline(t)
      PROVE  DelegationInv'
  BY <1>3 DEF Delegating!Deadline, Delegating!controlPlane, SentAsRecorded, SentRowHasGrant, AnswersAreTrue,
              Delegating!DelegatedWasSent
<1>4. CASE Delegating!StartRetries
  <2>1. "loop" \in Delegating!Callers /\ call["loop"] = Delegating!Idle
    BY <1>4 DEF Delegating!StartRetries, Delegating!Callers
  <2>2. PICK new : new = [call["loop"] EXCEPT !.todo = Delegating!ListPending(Grants \cup {None})]
    OBVIOUS
  <2>3. call' = [call EXCEPT !["loop"] = new]
    BY <1>4, <2>2 DEF Delegating!StartRetries
  <2>4. new \in Caller /\ new.answer = None
    BY <2>1, <2>2, PendingRows, IdleCaller DEF Caller
  <2> QED
    BY <1>4, <2>1, <2>3, <2>4, CallersStart DEF Delegating!StartRetries
<1>5. CASE Delegating!Activated
  <2>1. "events" \in Delegating!Callers /\ call["events"] = Delegating!Idle
    BY <1>5 DEF Delegating!Activated, Delegating!Callers
  <2>2. PICK new : new = [call["events"] EXCEPT !.busy = TRUE, !.todo = Delegating!ListPending({Head(inbox).grant})]
    OBVIOUS
  <2>3. call' = [call EXCEPT !["events"] = new]
    BY <1>5, <2>2 DEF Delegating!Activated
  <2>4. new \in Caller /\ new.answer = None
    BY <2>1, <2>2, PendingRows, IdleCaller DEF Caller
  <2> QED
    BY <1>5, <2>1, <2>3, <2>4, CallersStart DEF Delegating!Activated
<1>6. CASE Delegating!ActivationDone
  <2>1. "events" \in Delegating!Callers
    BY DEF Delegating!Callers
  <2>2. call' = [call EXCEPT !["events"] = Delegating!Idle] /\ inbox' = Tail(inbox)
    BY <1>6 DEF Delegating!ActivationDone
  <2>3. Delegating!Idle \in Caller /\ Delegating!Idle.answer = None
    BY DEF Caller, Delegating!Idle
  <2>4. inbox # <<>>
    BY <1>6 DEF Delegating!ActivationDone, EventIsHeld
  <2>5. inbox' \in Seq(E)
    BY <2>2, <2>4
  <2> QED
    BY <1>6, <2>1, <2>2, <2>3, <2>5, CallersStart DEF Delegating!ActivationDone
<1>7. CASE Delegating!GrantEnded
  <2>1. UNCHANGED Delegating!controlPlane /\ UNCHANGED <<late, call, stray, msgs>>
    BY <1>7 DEF Delegating!GrantEnded, Delegating!controlPlane
  <2>2. inbox' \in Seq(E)
    BY <1>7 DEF Delegating!GrantEnded
  <2>3. /\ rows' \in [Tasks -> Row]
        /\ \A t \in Tasks : rows'[t].status = "delegated" => <<t, rows'[t].comm>> \in msgs'
    BY <1>7, <2>1, FailedRows, RowsRest DEF Delegating!GrantEnded
  <2>4. SpoolKept
    BY <2>1, <2>2, <2>3 DEF SpoolKept, AnswersAreTrue
  <2> QED
    BY <2>1, <2>4, BothKept, ControlPlaneRests
<1>8. CASE Delegating!Crash
  <2>1. UNCHANGED Delegating!controlPlane /\ UNCHANGED <<rows, late, inbox, msgs>>
    BY <1>8 DEF Delegating!Crash, Delegating!controlPlane
  <2>2. \A c \in Delegating!Callers : call[c].at # None => call[c].at.task \in Tasks
    BY DEF Caller, Delegating!Pending
  <2>3. stray' \subseteq Tasks
    BY <1>8, <2>2 DEF Delegating!Crash
  <2>4. Delegating!Idle \in Caller /\ Delegating!Idle.answer = None
    BY DEF Caller, Delegating!Idle
  <2>5. call' = [c \in Delegating!Callers |-> Delegating!Idle]
    BY <1>8 DEF Delegating!Crash
  <2>6. call' \in [Delegating!Callers -> Caller] /\ \A c \in Delegating!Callers : call'[c].answer = None
    BY <2>4, <2>5
  <2>7. SpoolKept
    BY <2>1, <2>3, <2>6, RowsRest DEF SpoolKept
  <2> QED
    BY <2>1, <2>7, BothKept, ControlPlaneRests
<1>9. ASSUME NEW c \in Delegating!Callers, Delegating!Step(c) \/ Delegating!Lose(c)
      PROVE  DelegationInv'
  BY <1>9, CallerKeeps
<1>10. ASSUME NEW g \in Grants, Delegating!Approve(g) \/ Delegating!End(g)
       PROVE  DelegationInv'
  <2>1. UNCHANGED <<rows, late, call, cpRows, msgs, stray>>
    BY <1>10 DEF Delegating!Approve, Delegating!End, Delegating!bridge
  <2>2. inbox' \in Seq(E)
    BY <1>10, InboxGrows DEF Delegating!Approve, Delegating!End
  <2>3. grants' \in [Grants -> {"unused", "pending", "active", "ended"}]
    BY <1>10 DEF Delegating!Approve, Delegating!End
  <2>4. ControlPlaneKept
    BY <2>1, <2>3 DEF ControlPlaneKept, SentAsRecorded, SentRowHasGrant
  <2>5. SpoolKept
    BY <2>1, <2>2 DEF SpoolKept, AnswersAreTrue, Delegating!DelegatedWasSent
  <2> QED
    BY <2>4, <2>5, BothKept
<1>11. CASE UNCHANGED delegating
  BY <1>11 DEF delegating, SentAsRecorded, SentRowHasGrant, AnswersAreTrue, Delegating!DelegatedWasSent
<1> QED
  BY <1>1, <1>2, <1>3, <1>4, <1>5, <1>6, <1>7, <1>8, <1>9, <1>10, <1>11 DEF Delegating!Next

LEMMA EventHeldNext == DelegationInv /\ EventIsHeld /\ [Delegating!Next]_delegating => EventIsHeld'
<1> SUFFICES ASSUME DelegationInv, EventIsHeld, [Delegating!Next]_delegating
             PROVE  EventIsHeld'
  OBVIOUS
<1> USE DEF DelegationInv, DelegationTypes, EventIsHeld
<1>e. "events" \in Delegating!Callers
  BY DEF Delegating!Callers
<1>1. CASE UNCHANGED <<call, inbox>>
  BY <1>1
<1>2. ASSUME UNCHANGED inbox, call'["events"].busy = call["events"].busy
      PROVE  EventIsHeld'
  BY <1>2
<1>3. ASSUME NEW c \in Delegating!Callers, Delegating!Step(c) \/ Delegating!Lose(c)
      PROVE  UNCHANGED inbox /\ call'["events"].busy = call["events"].busy
  <2>1. UNCHANGED inbox
    BY <1>3 DEF Delegating!Step, Delegating!Expired, Delegating!Ask, Delegating!Process, Delegating!Record, Delegating!Lose
  <2>2. call["events"] \in Caller /\ call[c] \in Caller
    BY <1>e
  <2>3. \/ \E p : call' = [call EXCEPT ![c].todo = @ \ {p}]
        \/ \E p : call' = [call EXCEPT ![c].todo = @ \ {p}, ![c].at = p]
        \/ \E a : call' = [call EXCEPT ![c].answer = a]
        \/ call' = [call EXCEPT ![c].at = None, ![c].answer = None]
    BY <1>3 DEF Delegating!Step, Delegating!Expired, Delegating!Ask, Delegating!Process, Delegating!Record, Delegating!Lose
  <2>4. ASSUME NEW new, new.busy = call[c].busy, call' = [call EXCEPT ![c] = new]
        PROVE  call'["events"].busy = call["events"].busy
    BY <1>e, <2>4
  <2>5. ASSUME NEW p, call' = [call EXCEPT ![c].todo = @ \ {p}]
        PROVE  call'["events"].busy = call["events"].busy
    <3>1. PICK new : new = [call[c] EXCEPT !.todo = @ \ {p}]
      OBVIOUS
    <3> QED
      BY <2>2, <2>4, <2>5, <3>1 DEF Caller
  <2>6. ASSUME NEW p, call' = [call EXCEPT ![c].todo = @ \ {p}, ![c].at = p]
        PROVE  call'["events"].busy = call["events"].busy
    <3>1. PICK new : new = [call[c] EXCEPT !.todo = @ \ {p}, !.at = p]
      OBVIOUS
    <3>2. call' = [call EXCEPT ![c] = new]
      BY <2>6, <3>1
    <3>3. new.busy = call[c].busy
      BY <2>2, <3>1 DEF Caller
    <3> QED
      BY <2>4, <3>2, <3>3
  <2>7. ASSUME NEW a, call' = [call EXCEPT ![c].answer = a]
        PROVE  call'["events"].busy = call["events"].busy
    <3>1. PICK new : new = [call[c] EXCEPT !.answer = a]
      OBVIOUS
    <3>2. call' = [call EXCEPT ![c] = new]
      BY <2>7, <3>1
    <3>3. new.busy = call[c].busy
      BY <2>2, <3>1 DEF Caller
    <3> QED
      BY <2>4, <3>2, <3>3
  <2>8. ASSUME call' = [call EXCEPT ![c].at = None, ![c].answer = None]
        PROVE  call'["events"].busy = call["events"].busy
    <3>1. PICK new : new = [call[c] EXCEPT !.at = None, !.answer = None]
      OBVIOUS
    <3>2. call' = [call EXCEPT ![c] = new]
      BY <2>8, <3>1
    <3>3. new.busy = call[c].busy
      BY <2>2, <3>1 DEF Caller
    <3> QED
      BY <2>4, <3>2, <3>3
  <2> QED
    BY <2>1, <2>3, <2>5, <2>6, <2>7, <2>8
<1>4. CASE Delegating!Activated
  BY <1>4 DEF Delegating!Activated
<1>5. CASE Delegating!ActivationDone
  BY <1>5, <1>e, IdleCaller DEF Delegating!ActivationDone
<1>6. CASE Delegating!GrantEnded
  BY <1>6, IdleCaller DEF Delegating!GrantEnded
<1>7. CASE Delegating!Crash
  BY <1>7, <1>e, IdleCaller DEF Delegating!Crash
<1>8. ASSUME NEW g \in Grants, Delegating!Approve(g) \/ Delegating!End(g)
      PROVE  EventIsHeld'
  <2>1. UNCHANGED call
    BY <1>8 DEF Delegating!Approve, Delegating!End, Delegating!bridge
  <2>2. \A e : Append(inbox, e) # <<>>
    OBVIOUS
  <2>3. inbox' = inbox \/ \E e : inbox' = Append(inbox, e)
    BY <1>8 DEF Delegating!Approve, Delegating!End
  <2> QED
    BY <2>1, <2>2, <2>3
<1>9. CASE Delegating!StartRetries
  <2>1. UNCHANGED inbox /\ call' = [call EXCEPT !["loop"].todo = Delegating!ListPending(Grants \cup {None})]
    BY <1>9 DEF Delegating!StartRetries
  <2>2. call'["events"] = call["events"]
    BY <1>e, <2>1
  <2> QED
    BY <1>2, <2>1, <2>2
<1>10. ASSUME NEW t \in Tasks, Delegating!Request(t) \/ Delegating!ProcessStray(t) \/ Delegating!Deadline(t)
       PROVE  EventIsHeld'
  <2>1. UNCHANGED inbox
    BY <1>10 DEF Delegating!Request, Delegating!ProcessStray, Delegating!Deadline
  <2>2. call'["events"] = call["events"]
    BY <1>10, <1>e DEF Delegating!Request, Delegating!ProcessStray, Delegating!Deadline, Delegating!bridge
  <2> QED
    BY <1>2, <2>1, <2>2
<1>11. CASE UNCHANGED delegating
  BY <1>11 DEF delegating
<1> QED
  BY <1>2, <1>3, <1>4, <1>5, <1>6, <1>7, <1>8, <1>9, <1>10, <1>11 DEF Delegating!Next

LEMMA DelegationSafe == DelegationInv => Delegating!TypeOK /\ DelegationSound
<1> SUFFICES ASSUME DelegationInv
             PROVE  Delegating!TypeOK /\ DelegationSound
  OBVIOUS
<1>1. Delegating!TypeOK
  BY DEF DelegationInv, DelegationTypes, Delegating!TypeOK, Row, Caller
<1>2. Delegating!SentOnce
  <2> SUFFICES ASSUME NEW t \in Tasks, NEW m \in msgs, NEW n \in msgs, m[1] = t, n[1] = t
               PROVE  m = n
    BY DEF Delegating!SentOnce
  <2>1. PICK g \in Grants : m = <<t, g>>
    BY DEF DelegationInv, DelegationTypes
  <2>2. PICK h \in Grants : n = <<t, h>>
    BY DEF DelegationInv, DelegationTypes
  <2>3. cpRows[t] = [comm |-> g, sent |-> TRUE] /\ cpRows[t] = [comm |-> h, sent |-> TRUE]
    BY <2>1, <2>2 DEF DelegationInv, SentAsRecorded
  <2>4. [comm |-> g, sent |-> TRUE].comm = g /\ [comm |-> h, sent |-> TRUE].comm = h
    OBVIOUS
  <2> QED
    BY <2>1, <2>2, <2>3, <2>4
<1> QED
  BY <1>1, <1>2 DEF DelegationSound, Delegating!DelegationSound, DelegationInv

-----------------------------------------------------------------------------
(* Replies: the proof.                                                      *)

LEMMA SameReplyOperators ==
  /\ \A S : Replies!Cardinality(S) = Cardinality(S)
  /\ \A q, K : Replies!Kept(q, K) = Kept(q, K)
<1>1. \A S : Replies!Cardinality(S) = Cardinality(S)
  BY DEF Replies!Cardinality, Cardinality
<1>2. \A q, K : Replies!Kept(q, K) = Kept(q, K)
  BY DEF Replies!Kept, Kept
<1> QED
  BY <1>1, <1>2

LEMMA IdFacts == \A id \in Replies!Ids : id[1] \in Streams /\ id[2] \in 1 .. MaxEvents /\ id[2] \in Nat /\ id = <<id[1], id[2]>>
BY ServicesAssumption DEF Replies!Ids, ServicesAssumption

LEMMA TableFacts ==
  ASSUME ReplyTypes
  PROVE  /\ Len(table) \in Nat /\ DOMAIN table = 1 .. Len(table)
         /\ \A i \in 1 .. Len(table) : /\ table[i] \in ReplyRow
                                       /\ table[i].id \in Replies!Ids
                                       /\ table[i].status \in Replies!Statuses
         /\ Known \subseteq Replies!Ids /\ Waits \subseteq Known
<1>1. PICK E : E = ReplyRow
  OBVIOUS
<1>2. table \in Seq(E)
  BY <1>1 DEF ReplyTypes
<1>3. Len(table) \in Nat /\ DOMAIN table = 1 .. Len(table) /\ \A i \in 1 .. Len(table) : table[i] \in E
  BY <1>2
<1>4. \A r \in ReplyRow : r.id \in Replies!Ids /\ r.status \in Replies!Statuses
  BY DEF ReplyRow
<1> QED
  BY <1>1, <1>3, <1>4 DEF Known, Waits

LEMMA QueueFacts ==
  ASSUME ReplyTypes
  PROVE  /\ Len(todo) \in Nat /\ DOMAIN todo = 1 .. Len(todo) /\ Read \subseteq Replies!Ids
         /\ \A i \in 1 .. Len(todo) : todo[i] \in Replies!Ids
         /\ Len(received) \in Nat /\ DOMAIN received = 1 .. Len(received) /\ Got \subseteq Replies!Ids
         /\ \A i \in 1 .. Len(received) : received[i] \in Replies!Ids
<1>1. PICK E : E = Replies!Ids
  OBVIOUS
<1>2. todo \in Seq(E) /\ received \in Seq(E)
  BY <1>1 DEF ReplyTypes
<1> QED
  BY <1>1, <1>2 DEF Read, Got

LEMMA RepliesInit == Replies!Init => RepliesInv
<1> SUFFICES ASSUME Replies!Init
             PROVE  RepliesInv
  OBVIOUS
<1> USE DEF Replies!Init
<1>1. \A S : <<>> \in Seq(S)
  OBVIOUS
<1>2. ReplyTypes
  BY <1>1, ServicesAssumption DEF ReplyTypes, ServicesAssumption
<1>3. TableInOrder /\ PassInOrder /\ SendingIsNext /\ ReceivedIsPast
  BY DEF TableInOrder, PassInOrder, SendingIsNext, ReceivedIsPast, Known, Read, Got, Open
<1>4. Replies!RepliesInOrder
  BY DEF Replies!RepliesInOrder
<1> QED
  BY <1>2, <1>3, <1>4 DEF RepliesInv

\* Another event is emitted only where there is room for it.
LEMMA RoomForEvent ==
  ASSUME ReplyTypes, NEW n \in Streams, Replies!Cardinality(Replies!Emitted) < MaxEvents
  PROVE  Len(log[n]) + 1 <= MaxEvents
<1> USE ServicesAssumption DEF ServicesAssumption
<1>1. Len(log[n]) \in Nat /\ Len(log[n]) <= MaxEvents
  BY DEF ReplyTypes
<1>2. IsFiniteSet({n}) /\ Cardinality({n}) = 1
  BY FS_Singleton
<1>3. IsFiniteSet(1 .. MaxEvents) /\ Cardinality(1 .. MaxEvents) = MaxEvents
  BY FS_Interval
<1>4. IsFiniteSet({n} \X (1 .. MaxEvents)) /\ Cardinality({n} \X (1 .. MaxEvents)) = 1 * MaxEvents
  <2>1. ASSUME NEW S, NEW T, IsFiniteSet(S), IsFiniteSet(T)
        PROVE  IsFiniteSet(S \X T) /\ Cardinality(S \X T) = Cardinality(S) * Cardinality(T)
    BY ONLY <2>1, FS_Product
  <2>2. /\ IsFiniteSet({n} \X (1 .. MaxEvents))
        /\ Cardinality({n} \X (1 .. MaxEvents)) = Cardinality({n}) * Cardinality(1 .. MaxEvents)
    BY ONLY <1>2, <1>3, <2>1
  <2> QED
    BY ONLY <1>2, <1>3, <2>2
<1>5. IsFiniteSet(Streams \X (1 .. MaxEvents))
  BY <1>3, FS_Product
<1>6. IsFiniteSet(Replies!Emitted)
  BY <1>5, FS_Subset DEF Replies!Emitted, Replies!Ids
<1>7. PICK k \in Nat : k = Cardinality(Replies!Emitted)
  BY <1>6, FS_CardinalityType
<1>8. SUFFICES ASSUME Len(log[n]) = MaxEvents
               PROVE  FALSE
  BY <1>1
<1>9. {n} \X (1 .. MaxEvents) \subseteq Replies!Emitted
  BY <1>8 DEF Replies!Emitted, Replies!Ids
<1>10. Cardinality({n} \X (1 .. MaxEvents)) <= Cardinality(Replies!Emitted)
  BY <1>6, <1>9, FS_Subset
<1>11. k < MaxEvents
  BY <1>7, SameReplyOperators
<1> QED
  BY <1>4, <1>7, <1>10, <1>11

\* Rows whose status is set: the ids and their order are as they were.
LEMMA RowsMarked ==
  ASSUME RepliesInv, NEW st \in Replies!Statuses, NEW M, UNCHANGED cursor,
         table' = [i \in DOMAIN table |-> IF i \in M THEN [table[i] EXCEPT !.status = st] ELSE table[i]]
  PROVE  /\ table' \in Seq(ReplyRow) /\ Known' = Known /\ TableInOrder'
         /\ Waits' \subseteq Waits \cup {table[i].id : i \in M \cap (1 .. Len(table))}
         /\ st # "pending" => Waits' \subseteq Waits /\ Waits' \subseteq {table[i].id : i \in (1 .. Len(table)) \ M}
<1>0. ReplyTypes /\ TableInOrder
  BY DEF RepliesInv
<1>1. /\ Len(table) \in Nat /\ DOMAIN table = 1 .. Len(table)
      /\ \A i \in 1 .. Len(table) : table[i] \in ReplyRow
  BY <1>0, TableFacts
<1>2. ASSUME NEW i \in 1 .. Len(table)
      PROVE  /\ table'[i] \in ReplyRow /\ table'[i].id = table[i].id
             /\ table'[i].status = IF i \in M THEN st ELSE table[i].status
  BY <1>1 DEF ReplyRow
<1>3. table' = [i \in 1 .. Len(table) |-> table'[i]]
  BY <1>1
<1>4. table' \in Seq(ReplyRow) /\ Len(table') = Len(table)
  <2>1. PICK E : E = ReplyRow
    OBVIOUS
  <2>2. table' \in [1 .. Len(table) -> E]
    BY <1>2, <1>3, <2>1
  <2> QED
    BY <1>1, <2>1, <2>2
<1>5. Known' = Known
  BY <1>2, <1>4 DEF Known
<1>6. TableInOrder'
  BY <1>0, <1>2, <1>4, <1>5 DEF TableInOrder
<1>7. ASSUME NEW id \in Waits'
      PROVE  /\ id \in Waits \cup {table[i].id : i \in M \cap (1 .. Len(table))}
             /\ st # "pending" => id \in Waits /\ id \in {table[i].id : i \in (1 .. Len(table)) \ M}
  <2>1. PICK i \in 1 .. Len(table) : table'[i].id = id /\ table'[i].status = "pending"
    BY <1>4 DEF Waits
  <2>2. CASE i \in M
    BY <1>2, <2>1, <2>2
  <2>3. CASE i \notin M
    BY <1>2, <2>1, <2>3 DEF Waits
  <2> QED
    BY <2>2, <2>3
<1> QED
  BY <1>4, <1>5, <1>6, <1>7

\* What is in flight stays the next, if no row starts to wait.
LEMMA OrderRests ==
  ASSUME RepliesInv, Known \subseteq Known', Waits' \subseteq Waits, UNCHANGED <<todo, sending, received>>
  PROVE  PassInOrder' /\ SendingIsNext' /\ ReceivedIsPast' /\ Replies!RepliesInOrder'
<1>1. Read' = Read /\ Got' = Got
  BY DEF Read, Got
<1>2. PassInOrder'
  BY <1>1 DEF RepliesInv, PassInOrder
<1>3. SendingIsNext'
  BY <1>1 DEF RepliesInv, SendingIsNext, Open
<1>4. ReceivedIsPast'
  BY <1>1 DEF RepliesInv, ReceivedIsPast, Open
<1>5. Replies!RepliesInOrder'
  BY DEF RepliesInv, Replies!RepliesInOrder
<1> QED
  BY <1>2, <1>3, <1>4, <1>5

\* The control plane takes the reply in flight: it is the next of its session, or known.
LEMMA ReceivedNext ==
  ASSUME RepliesInv, sending # None, Replies!Receive
  PROVE  /\ received' \in Seq(Replies!Ids) /\ Replies!RepliesInOrder'
         /\ Got' \subseteq Got \cup {sending}
<1>0. /\ ReplyTypes /\ ReceivedIsPast /\ Replies!RepliesInOrder
  BY DEF RepliesInv
<1>1. sending \in Replies!Ids
  BY <1>0 DEF ReplyTypes
<1>2. /\ Len(received) \in Nat /\ DOMAIN received = 1 .. Len(received) /\ Got \subseteq Replies!Ids
      /\ \A i \in 1 .. Len(received) : received[i] \in Replies!Ids
  BY <1>0, QueueFacts
<1>3. CASE UNCHANGED received
  BY <1>0, <1>3 DEF ReplyTypes, Got, Replies!RepliesInOrder
<1>4. CASE received' = Append(received, sending) /\ ~\E i \in DOMAIN received : received[i] = sending
  <2>1. PICK E : E = Replies!Ids
    OBVIOUS
  <2>2. received \in Seq(E) /\ sending \in E
    BY <1>0, <1>1, <2>1 DEF ReplyTypes
  <2>3. /\ received' \in Seq(E) /\ Len(received') = Len(received) + 1
        /\ \A i \in 1 .. Len(received) : received'[i] = received[i]
        /\ received'[Len(received) + 1] = sending
    BY <1>4, <2>2
  <2>4. Got' \subseteq Got \cup {sending}
    BY <1>2, <2>3 DEF Got
  <2>5. ASSUME NEW i \in 1 .. Len(received), received[i][1] = sending[1]
        PROVE  received[i][2] < sending[2]
    <3>1. ~Before(sending, received[i])
      BY <1>0 DEF ReceivedIsPast, Got
    <3>2. sending[2] \in Nat /\ received[i][2] \in Nat
          /\ sending = <<sending[1], sending[2]>> /\ received[i] = <<received[i][1], received[i][2]>>
      BY <1>1, <1>2, IdFacts
    <3>3. received[i] # sending
      BY <1>2, <1>4
    <3> QED
      BY <2>5, <3>1, <3>2, <3>3 DEF Before
  <2>6. Replies!RepliesInOrder'
    <3> SUFFICES ASSUME NEW i \in 1 .. Len(received'), NEW j \in 1 .. Len(received'),
                        i < j, received'[i][1] = received'[j][1]
                 PROVE  received'[i][2] < received'[j][2]
      BY <2>3 DEF Replies!RepliesInOrder
    <3>1. i \in 1 .. Len(received)
      BY <1>2, <2>3
    <3>2. CASE j = Len(received) + 1
      BY <2>3, <2>5, <3>1, <3>2
    <3>3. CASE j \in 1 .. Len(received)
      BY <1>0, <1>2, <2>3, <3>1, <3>3 DEF Replies!RepliesInOrder
    <3> QED
      BY <1>2, <2>3, <3>2, <3>3
  <2> QED
    BY <2>1, <2>3, <2>4, <2>6
<1> QED
  BY <1>3, <1>4 DEF Replies!Receive

\* A reply is stored after all the replies of its session.
LEMMA StorePreserves ==
  ASSUME RepliesInv, NEW n \in Streams, Replies!HandleEvent(n)
  PROVE  RepliesInv'
<1>0. ReplyTypes /\ TableInOrder /\ PassInOrder /\ SendingIsNext /\ ReceivedIsPast /\ Replies!RepliesInOrder
  BY DEF RepliesInv
<1>a. /\ UNCHANGED <<log, cursor, todo, sending, answer, received, collab>>
      /\ storing' = storing \cup {n} /\ cursor[n] < Len(log[n])
      /\ UNCHANGED table \/ Replies!StoreOutboundReply(Replies!EventId(n))
  BY DEF Replies!HandleEvent
<1>1. CASE UNCHANGED table
  <2>1. ReplyTypes'
    BY <1>0, <1>1, <1>a DEF ReplyTypes
  <2>2. Known' = Known /\ Waits' = Waits /\ TableInOrder'
    BY <1>0, <1>1, <1>a DEF TableInOrder, Known, Waits
  <2> QED
    BY <2>1, <2>2, <1>a, OrderRests DEF RepliesInv
<1>2. CASE ~Replies!Stored(Replies!EventId(n)) /\ table' = Append(table, [id |-> Replies!EventId(n), status |-> "pending"])
  <2>1. /\ Len(table) \in Nat /\ DOMAIN table = 1 .. Len(table)
        /\ \A i \in 1 .. Len(table) : table[i] \in ReplyRow /\ table[i].id \in Replies!Ids
        /\ Known \subseteq Replies!Ids
    BY <1>0, TableFacts
  <2>2. PICK new : new = Replies!EventId(n)
    OBVIOUS
  <2>3. new = <<n, cursor[n] + 1>> /\ new \in Replies!Ids /\ cursor[n] \in Nat
    BY <1>0, <1>a, <2>2, ServicesAssumption
    DEF Replies!EventId, Replies!Ids, ReplyTypes, ServicesAssumption
  <2>4. PICK row : row = [id |-> new, status |-> "pending"]
    OBVIOUS
  <2>5. row \in ReplyRow /\ row.id = new /\ row.status = "pending"
    BY <2>3, <2>4 DEF ReplyRow, Replies!Statuses
  <2>6. /\ table' \in Seq(ReplyRow) /\ Len(table') = Len(table) + 1
        /\ \A i \in 1 .. Len(table) : table'[i] = table[i]
        /\ table'[Len(table) + 1] = row
    <3>1. PICK E : E = ReplyRow
      OBVIOUS
    <3>2. table \in Seq(E) /\ row \in E /\ table' = Append(table, row)
      BY <1>0, <1>2, <2>2, <2>4, <2>5, <3>1 DEF ReplyTypes
    <3> QED
      BY <3>1, <3>2
  <2>7. Known' = Known \cup {new} /\ Waits' = Waits \cup {new}
    <3>1. \A i \in 1 .. Len(table') : i \in 1 .. Len(table) \/ i = Len(table) + 1
      BY <2>1, <2>6
    <3>2. 1 .. Len(table) \subseteq 1 .. Len(table') /\ Len(table) + 1 \in 1 .. Len(table')
      BY <2>1, <2>6
    <3>3. Known' = Known \cup {new}
      BY <2>5, <2>6, <3>1, <3>2 DEF Known
    <3>4. Waits' = Waits \cup {new}
      BY <2>5, <2>6, <3>1, <3>2 DEF Waits
    <3> QED
      BY <3>3, <3>4
  <2>8. \A i \in 1 .. Len(table) : table[i].id # new
    BY <1>2, <2>1, <2>2 DEF Replies!Stored
  <2>9. \A id \in Known : id # new /\ (id[1] = n => id[2] < cursor[n] + 1)
    <3> SUFFICES ASSUME NEW id \in Known
                 PROVE  id # new /\ (id[1] = n => id[2] < cursor[n] + 1)
      OBVIOUS
    <3>1. id # new
      BY <2>8 DEF Known
    <3>2. id \in Replies!Ids /\ id = <<id[1], id[2]>> /\ id[2] \in Nat
      BY <2>1, IdFacts
    <3>3. id[2] <= cursor[id[1]] + 1
      BY <1>0 DEF TableInOrder
    <3> QED
      BY <2>3, <3>1, <3>2, <3>3
  <2>10. \A id \in Known : ~Before(new, id)
    BY <2>3, <2>9, <2>1, IdFacts DEF Before
  <2>11. TableInOrder'
    <3>1. ASSUME NEW i \in 1 .. Len(table'), NEW j \in 1 .. Len(table'),
                 i < j, table'[i].id[1] = table'[j].id[1]
          PROVE  table'[i].id[2] < table'[j].id[2]
      <4>1. i \in 1 .. Len(table)
        BY <2>1, <2>6, <3>1
      <4>2. CASE j \in 1 .. Len(table)
        BY <1>0, <2>6, <3>1, <4>1, <4>2 DEF TableInOrder
      <4>3. CASE j = Len(table) + 1
        <5>1. table[i].id \in Known /\ table'[i].id = table[i].id
          BY <2>6, <4>1 DEF Known
        <5>2. table'[j].id = new /\ new[1] = n /\ new[2] = cursor[n] + 1
          BY <2>3, <2>5, <2>6, <4>3
        <5> QED
          BY <2>9, <3>1, <5>1, <5>2
      <4> QED
        BY <2>1, <2>6, <4>2, <4>3
    <3>2. \A id \in Known' : id[2] <= cursor[id[1]] + 1
      BY <1>0, <2>3, <2>7 DEF TableInOrder
    <3> QED
      BY <1>a, <3>1, <3>2 DEF TableInOrder
  <2>12. ReplyTypes'
    BY <1>0, <1>a, <2>6 DEF ReplyTypes
  <2>13. Read' = Read /\ Got' = Got
    BY <1>a DEF Read, Got
  <2>14. PassInOrder'
    <3>1. \A i \in 1 .. Len(todo) : todo[i] \in Known
      BY <1>0 DEF PassInOrder, Read
    <3> QED
      BY <1>0, <1>a, <2>7, <2>10, <2>13, <3>1 DEF PassInOrder
  <2>15. SendingIsNext'
    BY <1>0, <1>a, <2>7, <2>10, <2>13 DEF SendingIsNext, Open
  <2>16. ReceivedIsPast'
    BY <1>0, <1>a, <2>7, <2>10, <2>13 DEF ReceivedIsPast, Open
  <2>17. Replies!RepliesInOrder'
    BY <1>0, <1>a DEF Replies!RepliesInOrder
  <2> QED
    BY <2>11, <2>12, <2>14, <2>15, <2>16, <2>17 DEF RepliesInv
<1> QED
  BY <1>1, <1>2, <1>a DEF Replies!StoreOutboundReply

\* A pass reads the rows that wait, in the order of the table.
LEMMA ReadPreserves == RepliesInv /\ Replies!ListPending => RepliesInv'
<1> SUFFICES ASSUME RepliesInv, Replies!ListPending
             PROVE  RepliesInv'
  OBVIOUS
<1>0. ReplyTypes /\ TableInOrder /\ PassInOrder /\ SendingIsNext /\ ReceivedIsPast /\ Replies!RepliesInOrder
  BY DEF RepliesInv
<1>a. /\ UNCHANGED <<log, cursor, storing, table, sending, answer, received, collab>>
      /\ todo = <<>> /\ sending = None
      /\ todo' = Replies!PendingIds
  BY DEF Replies!ListPending
<1>1. /\ Len(table) \in Nat /\ DOMAIN table = 1 .. Len(table)
      /\ \A i \in 1 .. Len(table) : /\ table[i] \in ReplyRow /\ table[i].id \in Replies!Ids
                                    /\ table[i].status \in Replies!Statuses
  BY <1>0, TableFacts
<1>2. PICK W : W = [id : Replies!Ids, status : {"pending"}]
  OBVIOUS
<1>3. \A i \in 1 .. Len(table) : table[i] \in W <=> table[i].status = "pending"
  BY <1>1, <1>2 DEF ReplyRow
<1>4. PICK q : q = Kept(table, W)
  OBVIOUS
<1>5. PICK at : Places(q, Len(table), at, table, W)
  BY <1>0, <1>4, KeptPlaces DEF ReplyTypes
<1>6. /\ q \in Seq(ReplyRow)
      /\ \A i \in 1 .. Len(q) : q[i] \in W
  BY <1>0, <1>4, KeptElements DEF ReplyTypes
<1>7. Len(q) \in Nat /\ DOMAIN q = 1 .. Len(q) /\ \A i \in 1 .. Len(q) : q[i] \in ReplyRow
  <2>1. PICK E : E = ReplyRow
    OBVIOUS
  <2> QED
    BY <1>6, <2>1
<1>8. todo' = [i \in 1 .. Len(q) |-> q[i].id]
  BY <1>2, <1>4, <1>7, <1>a, SameReplyOperators DEF Replies!PendingIds
<1>9. /\ todo' \in Seq(Replies!Ids) /\ Len(todo') = Len(q)
      /\ \A i \in 1 .. Len(q) : todo'[i] = q[i].id
  <2>1. PICK E : E = Replies!Ids
    OBVIOUS
  <2>2. \A i \in 1 .. Len(q) : q[i].id \in E
    BY <1>7, <2>1 DEF ReplyRow
  <2> QED
    BY <1>7, <1>8, <2>1, <2>2
<1>10. /\ \A i \in 1 .. Len(q) : at[i] \in 1 .. Len(table) /\ q[i] = table[at[i]]
       /\ \A i, j \in 1 .. Len(q) : i < j => at[i] < at[j]
       /\ \A m \in 1 .. Len(table) : table[m] \in W => \E i \in 1 .. Len(q) : at[i] = m
  BY <1>5 DEF Places
<1>11. Read' \subseteq Waits
  BY <1>3, <1>6, <1>9, <1>10 DEF Read, Waits
<1>12. Known' = Known /\ Waits' = Waits /\ Got' = Got /\ Waits \subseteq Known
  BY <1>a, <1>0, TableFacts DEF Known, Waits, Got
<1>13. PassInOrder'
  <2>1. ASSUME NEW i \in 1 .. Len(q), NEW j \in 1 .. Len(q), i < j
        PROVE  ~Before(todo'[j], todo'[i]) /\ todo'[i] # todo'[j]
    <3>1. /\ at[i] \in 1 .. Len(table) /\ at[j] \in 1 .. Len(table) /\ at[i] < at[j]
          /\ todo'[i] = table[at[i]].id /\ todo'[j] = table[at[j]].id
      BY <1>9, <1>10, <2>1
    <3>2. /\ todo'[i][2] \in Nat /\ todo'[j][2] \in Nat
      BY <1>1, <3>1, IdFacts
    <3>3. todo'[i][1] = todo'[j][1] => todo'[i][2] < todo'[j][2]
      BY <1>0, <3>1 DEF TableInOrder
    <3> QED
      BY <3>2, <3>3 DEF Before
  <2>2. ASSUME NEW i \in 1 .. Len(q), NEW id \in Waits, Before(id, todo'[i])
        PROVE  \E j \in 1 .. Len(q) : j < i /\ id = todo'[j]
    <3>1. PICK m \in 1 .. Len(table) : table[m].id = id /\ table[m].status = "pending"
      BY DEF Waits
    <3>2. PICK j \in 1 .. Len(q) : at[j] = m
      BY <1>3, <1>10, <3>1
    <3>3. todo'[j] = id
      BY <1>9, <1>10, <3>1, <3>2
    <3>4. j # i
      <4>1. todo'[i][2] \in Nat
        BY <1>1, <1>9, <1>10, IdFacts
      <4> QED
        BY <2>2, <3>3, <4>1 DEF Before
    <3>5. ~(i < j)
      BY <2>1, <2>2, <3>3
    <3> QED
      BY <1>7, <3>3, <3>4, <3>5
  <2> QED
    BY <1>9, <1>11, <1>12, <2>1, <2>2 DEF PassInOrder
<1>14. ReplyTypes'
  BY <1>0, <1>9, <1>a DEF ReplyTypes
<1>15. TableInOrder' /\ SendingIsNext' /\ ReceivedIsPast' /\ Replies!RepliesInOrder'
  <2>1. TableInOrder'
    BY <1>0, <1>12, <1>a DEF TableInOrder
  <2>2. SendingIsNext'
    BY <1>a DEF SendingIsNext
  <2>3. ReceivedIsPast'
    BY <1>0, <1>11, <1>12, <1>a DEF ReceivedIsPast, Open
  <2>4. Replies!RepliesInOrder'
    BY <1>0, <1>a DEF Replies!RepliesInOrder
  <2> QED
    BY <2>1, <2>2, <2>3, <2>4
<1> QED
  BY <1>13, <1>14, <1>15 DEF RepliesInv

\* The first row read is the next of its session: nothing before it waits.
LEMMA SendPreserves == RepliesInv /\ Replies!SendNext => RepliesInv'
<1> SUFFICES ASSUME RepliesInv, Replies!SendNext
             PROVE  RepliesInv'
  OBVIOUS
<1>0. ReplyTypes /\ TableInOrder /\ PassInOrder /\ SendingIsNext /\ ReceivedIsPast /\ Replies!RepliesInOrder
  BY DEF RepliesInv
<1>a. /\ UNCHANGED <<log, cursor, storing, table, answer, received, collab>>
      /\ todo # <<>> /\ sending = None
      /\ sending' = Head(todo) /\ todo' = Tail(todo)
  BY DEF Replies!SendNext
<1>1. /\ Len(todo) \in Nat /\ DOMAIN todo = 1 .. Len(todo) /\ Read \subseteq Replies!Ids
      /\ \A i \in 1 .. Len(todo) : todo[i] \in Replies!Ids
  BY <1>0, QueueFacts
<1>2. /\ Len(todo) > 0 /\ sending' = todo[1] /\ todo' \in Seq(Replies!Ids)
      /\ Len(todo') = Len(todo) - 1
      /\ \A i \in 1 .. Len(todo') : todo'[i] = todo[i + 1]
  <2>1. PICK E : E = Replies!Ids
    OBVIOUS
  <2>2. todo \in Seq(E)
    BY <1>0, <2>1 DEF ReplyTypes
  <2> QED
    BY <1>a, <2>1, <2>2
<1>3. /\ 1 \in 1 .. Len(todo) /\ \A i \in 1 .. Len(todo') : i + 1 \in 1 .. Len(todo) /\ 1 < i + 1
  BY <1>1, <1>2
<1>4. None \notin Replies!Ids
  BY ServicesAssumption DEF ServicesAssumption
<1>5. Known' = Known /\ Waits' = Waits /\ Got' = Got /\ Waits \subseteq Known /\ Known \subseteq Replies!Ids
  BY <1>a, <1>0, TableFacts DEF Known, Waits, Got
<1>6. Read' \subseteq Read /\ sending' \in Read /\ sending' \in Replies!Ids
  BY <1>1, <1>2, <1>3 DEF Read
<1>7. ReplyTypes'
  <2>1. answer' = None
    BY <1>0, <1>a DEF ReplyTypes
  <2> QED
    BY <1>0, <1>2, <1>6, <1>a, <2>1 DEF ReplyTypes
<1>8. SendingIsNext'
  <2>1. sending' \notin Read'
    <3>1. \A i \in 1 .. Len(todo') : todo[1] # todo[i + 1]
      BY <1>0, <1>3 DEF PassInOrder
    <3> QED
      BY <1>2, <3>1 DEF Read
  <2>2. \A id \in Read' : ~Before(id, sending')
    <3>1. \A i \in 1 .. Len(todo') : ~Before(todo[i + 1], todo[1])
      BY <1>0, <1>3 DEF PassInOrder
    <3> QED
      BY <1>2, <3>1 DEF Read
  <2>3. ASSUME NEW id \in Waits, Before(id, sending')
        PROVE  FALSE
    <3>1. id = sending \/ \E j \in 1 .. Len(todo) : j < 1 /\ id = todo[j]
      BY <1>0, <1>2, <1>3, <2>3 DEF PassInOrder
    <3>2. id # sending
      BY <1>4, <1>5, <1>a
    <3> QED
      BY <3>1, <3>2
  <2> QED
    BY <1>0, <1>5, <1>6, <2>1, <2>2, <2>3 DEF SendingIsNext, Open, PassInOrder
<1>9. PassInOrder'
  <2>1. ASSUME NEW i \in 1 .. Len(todo'), NEW j \in 1 .. Len(todo'), i < j
        PROVE  ~Before(todo'[j], todo'[i]) /\ todo'[i] # todo'[j]
    <3>1. i + 1 \in 1 .. Len(todo) /\ j + 1 \in 1 .. Len(todo) /\ i + 1 < j + 1
      BY <1>3, <2>1
    <3> QED
      BY <1>0, <1>2, <3>1 DEF PassInOrder
  <2>2. ASSUME NEW i \in 1 .. Len(todo'), NEW id \in Waits, Before(id, todo'[i])
        PROVE  id = sending' \/ \E j \in 1 .. Len(todo') : j < i /\ id = todo'[j]
    <3>1. id = sending \/ \E j \in 1 .. Len(todo) : j < i + 1 /\ id = todo[j]
      BY <1>0, <1>2, <1>3, <2>2 DEF PassInOrder
    <3>2. PICK j \in 1 .. Len(todo) : j < i + 1 /\ id = todo[j]
      BY <1>4, <1>5, <1>a, <3>1
    <3>3. CASE j = 1
      BY <1>2, <3>2, <3>3
    <3>4. CASE j # 1
      <4>1. j - 1 \in 1 .. Len(todo') /\ j - 1 < i /\ (j - 1) + 1 = j
        BY <1>1, <1>2, <3>2, <3>4
      <4>2. todo'[j - 1] = id
        BY <1>2, <3>2, <4>1
      <4> QED
        BY <4>1, <4>2
    <3> QED
      BY <3>3, <3>4
  <2> QED
    BY <1>0, <1>5, <1>6, <2>1, <2>2 DEF PassInOrder
<1>10. ReceivedIsPast'
  <2>1. Open' \cup {sending'} \subseteq Open
    BY <1>5, <1>6 DEF Open
  <2> QED
    BY <1>0, <1>5, <2>1, <1>4, <1>6 DEF ReceivedIsPast, Open
<1>11. TableInOrder' /\ Replies!RepliesInOrder'
  BY <1>0, <1>a, <1>5 DEF TableInOrder, Replies!RepliesInOrder
<1> QED
  BY <1>7, <1>8, <1>9, <1>10, <1>11 DEF RepliesInv

\* A request reaches the control plane, or does not.
LEMMA AnswerPreserves == RepliesInv /\ (Replies!Accepted \/ Replies!NotAccepted) => RepliesInv'
<1> SUFFICES ASSUME RepliesInv, Replies!Accepted \/ Replies!NotAccepted
             PROVE  RepliesInv'
  OBVIOUS
<1>0. ReplyTypes /\ TableInOrder /\ PassInOrder /\ SendingIsNext /\ ReceivedIsPast /\ Replies!RepliesInOrder
  BY DEF RepliesInv
<1>a. /\ UNCHANGED <<log, cursor, storing, table, todo, sending, collab>>
      /\ sending # None /\ answer' \in {"ok", "terminal", "retry"}
      /\ Replies!Receive \/ UNCHANGED received
  BY DEF Replies!Accepted, Replies!NotAccepted
<1>1. Known' = Known /\ Waits' = Waits /\ Read' = Read
  BY <1>a DEF Known, Waits, Read
<1>2. /\ received' \in Seq(Replies!Ids) /\ Replies!RepliesInOrder'
      /\ Got' \subseteq Got \cup {sending}
  <2>1. CASE Replies!Receive
    BY <1>a, <2>1, ReceivedNext
  <2>2. CASE UNCHANGED received
    BY <1>0, <2>2 DEF ReplyTypes, Got, Replies!RepliesInOrder
  <2> QED
    BY <1>a, <2>1, <2>2
<1>3. ReplyTypes'
  BY <1>0, <1>2, <1>a DEF ReplyTypes
<1>4. TableInOrder' /\ PassInOrder' /\ SendingIsNext'
  BY <1>0, <1>1, <1>a DEF TableInOrder, PassInOrder, SendingIsNext, Open
<1>5. ReceivedIsPast'
  <2>1. sending \in Known /\ sending \in Replies!Ids
    BY <1>0, <1>a DEF SendingIsNext, ReplyTypes
  <2>2. ~Before(sending, sending)
    BY <2>1, IdFacts DEF Before
  <2>3. \A id \in Open \cup {sending} : ~Before(id, sending)
    BY <1>0, <1>a, <2>2 DEF SendingIsNext
  <2> QED
    BY <1>0, <1>1, <1>2, <1>a, <2>1, <2>3 DEF ReceivedIsPast, Open
<1> QED
  BY <1>2, <1>3, <1>4, <1>5 DEF RepliesInv

\* The answer is recorded; a reply that must be sent again ends the pass.
LEMMA RecordPreservesReplies == RepliesInv /\ Replies!Recorded => RepliesInv'
<1> SUFFICES ASSUME RepliesInv, Replies!Recorded
             PROVE  RepliesInv'
  OBVIOUS
<1>0. ReplyTypes /\ TableInOrder /\ PassInOrder /\ SendingIsNext /\ ReceivedIsPast /\ Replies!RepliesInOrder
  BY DEF RepliesInv
<1>a. /\ UNCHANGED <<log, cursor, storing, received, collab>>
      /\ sending' = None /\ answer' = None
      /\ \/ Replies!SetStatus(sending, "sent") /\ UNCHANGED todo
         \/ Replies!SetStatus(sending, "failed") /\ UNCHANGED todo
         \/ Replies!SetStatus(sending, "pending") /\ todo' = <<>> /\ answer = "retry"
  BY DEF Replies!Recorded, Replies!MarkOutboundSent, Replies!MarkOutboundAttempt
<1>b. answer # None
  BY ServicesAssumption DEF Replies!Recorded, Replies!MarkOutboundSent, Replies!MarkOutboundAttempt, ServicesAssumption
<1>c. sending # None /\ sending \in Replies!Ids
  BY <1>0, <1>b DEF ReplyTypes
<1> DEFINE M == {i \in 1 .. Len(table) : table[i].id = sending}
<1>1. Got' = Got
  BY <1>a DEF Got
<1>2. DOMAIN table = 1 .. Len(table)
  BY <1>0, TableFacts
<1>3. ASSUME NEW st, Replies!SetStatus(sending, st)
      PROVE  table' = [i \in DOMAIN table |-> IF i \in M THEN [table[i] EXCEPT !.status = st] ELSE table[i]]
  BY <1>2, <1>3 DEF Replies!SetStatus
<1> HIDE DEF M
<1>4. {table[i].id : i \in M \cap (1 .. Len(table))} \subseteq {sending}
  BY DEF M
<1>5. sending \notin {table[i].id : i \in (1 .. Len(table)) \ M}
  BY DEF M
<1>6. ASSUME NEW st \in {"sent", "failed"}, Replies!SetStatus(sending, st), UNCHANGED todo
      PROVE  RepliesInv'
  <2>1. st \in Replies!Statuses /\ st # "pending"
    BY <1>6 DEF Replies!Statuses
  <2>2. /\ table' \in Seq(ReplyRow) /\ Known' = Known /\ TableInOrder'
        /\ Waits' \subseteq Waits /\ sending \notin Waits'
    BY <1>3, <1>5, <1>6, <1>a, <2>1, RowsMarked
  <2>3. Read' = Read
    BY <1>6 DEF Read
  <2>4. ReplyTypes'
    BY <1>0, <1>6, <1>a, <2>2 DEF ReplyTypes
  <2>5. PassInOrder'
    BY <1>0, <1>6, <2>2, <2>3 DEF PassInOrder
  <2>6. SendingIsNext'
    BY <1>a DEF SendingIsNext
  <2>7. ReceivedIsPast'
    BY <1>0, <1>1, <1>a, <2>2, <2>3 DEF ReceivedIsPast, Open
  <2>8. Replies!RepliesInOrder'
    BY <1>0, <1>a DEF Replies!RepliesInOrder
  <2> QED
    BY <2>2, <2>4, <2>5, <2>6, <2>7, <2>8 DEF RepliesInv
<1>7. CASE Replies!SetStatus(sending, "pending") /\ todo' = <<>>
  <2>1. "pending" \in Replies!Statuses
    BY DEF Replies!Statuses
  <2>2. /\ table' \in Seq(ReplyRow) /\ Known' = Known /\ TableInOrder'
        /\ Waits' \subseteq Waits \cup {sending}
    <3>1. UNCHANGED cursor
      BY <1>a
    <3>2. /\ table' \in Seq(ReplyRow) /\ Known' = Known /\ TableInOrder'
          /\ Waits' \subseteq Waits \cup {table[i].id : i \in M \cap (1 .. Len(table))}
      BY <1>3, <1>7, <2>1, <3>1, RowsMarked
    <3> QED
      BY <1>4, <3>2
  <2>3. Read' = {} /\ <<>> \in Seq(Replies!Ids)
    BY <1>7 DEF Read
  <2>4. ReplyTypes'
    BY <1>0, <1>7, <1>a, <2>2, <2>3 DEF ReplyTypes
  <2>5. PassInOrder' /\ SendingIsNext'
    BY <1>7, <1>a, <2>3 DEF PassInOrder, SendingIsNext
  <2>6. ReceivedIsPast'
    BY <1>0, <1>1, <1>a, <1>c, <2>2, <2>3 DEF ReceivedIsPast, Open
  <2>7. Replies!RepliesInOrder'
    BY <1>0, <1>a DEF Replies!RepliesInOrder
  <2> QED
    BY <2>2, <2>4, <2>5, <2>6, <2>7 DEF RepliesInv
<1> QED
  BY <1>6, <1>7, <1>a

\* What a kill leaves is in the table.
LEMMA KillPreserves == RepliesInv /\ Replies!Crash => RepliesInv'
<1> SUFFICES ASSUME RepliesInv, Replies!Crash
             PROVE  RepliesInv'
  OBVIOUS
<1>0. ReplyTypes /\ TableInOrder /\ PassInOrder /\ SendingIsNext /\ ReceivedIsPast /\ Replies!RepliesInOrder
  BY DEF RepliesInv
<1>a. /\ UNCHANGED <<log, cursor, table, collab>>
      /\ storing' = {} /\ todo' = <<>> /\ sending' = None /\ answer' = None
      /\ UNCHANGED received \/ (sending # None /\ Replies!Receive)
  BY DEF Replies!Crash
<1>1. Known' = Known /\ Waits' = Waits /\ Read' = {} /\ <<>> \in Seq(Replies!Ids)
  BY <1>a DEF Known, Waits, Read
<1>2. CASE UNCHANGED received
  <2>1. Got' = Got
    BY <1>2 DEF Got
  <2>2. ReplyTypes' /\ TableInOrder'
    BY <1>0, <1>1, <1>2, <1>a DEF ReplyTypes, TableInOrder
  <2>3. PassInOrder' /\ SendingIsNext' /\ ReceivedIsPast' /\ Replies!RepliesInOrder'
    BY <1>0, <1>1, <1>2, <1>a, <2>1 DEF PassInOrder, SendingIsNext, ReceivedIsPast, Replies!RepliesInOrder, Open
  <2> QED
    BY <2>2, <2>3 DEF RepliesInv
<1>3. CASE sending # None /\ Replies!Receive
  <2>1. /\ received' \in Seq(Replies!Ids) /\ Replies!RepliesInOrder'
        /\ Got' \subseteq Got \cup {sending}
    BY <1>3, ReceivedNext
  <2>2. ReplyTypes' /\ TableInOrder'
    BY <1>0, <1>1, <1>a, <2>1 DEF ReplyTypes, TableInOrder
  <2>3. PassInOrder' /\ SendingIsNext'
    BY <1>1, <1>a DEF PassInOrder, SendingIsNext
  <2>4. ReceivedIsPast'
    BY <1>0, <1>1, <1>3, <1>a, <2>1 DEF ReceivedIsPast, SendingIsNext, Open
  <2> QED
    BY <2>1, <2>2, <2>3, <2>4 DEF RepliesInv
<1> QED
  BY <1>2, <1>3, <1>a

\* The adapter's events and the cursor: what is stored and in flight stays.
LEMMA ReadingPreserves ==
  ASSUME RepliesInv, NEW n \in Streams,
         \/ \E kind \in Replies!Kinds : Replies!Emit(n, kind)
         \/ Replies!EgressSkips(n)
         \/ Replies!EgressFails(n)
         \/ Replies!SaveAdapterCursor(n)
  PROVE  RepliesInv'
<1>0. ReplyTypes /\ TableInOrder
  BY DEF RepliesInv
<1>a. UNCHANGED <<table, todo, sending, answer, received, collab>>
  BY DEF Replies!Emit, Replies!EgressSkips, Replies!EgressFails, Replies!SaveAdapterCursor
<1>1. Known' = Known /\ Waits' = Waits
  BY <1>a DEF Known, Waits
<1>2. PassInOrder' /\ SendingIsNext' /\ ReceivedIsPast' /\ Replies!RepliesInOrder'
  BY <1>1, <1>a, OrderRests
<1>3. \A m \in Streams : cursor[m] \in Nat /\ Len(log[m]) \in Nat
  BY <1>0 DEF ReplyTypes
<1>4. ASSUME NEW kind \in Replies!Kinds, Replies!Emit(n, kind)
      PROVE  ReplyTypes' /\ TableInOrder'
  <2>1. Len(log[n]) + 1 <= MaxEvents
    BY <1>0, <1>4, RoomForEvent DEF Replies!Emit
  <2>2. PICK new : new = Append(log[n], kind)
    OBVIOUS
  <2>3. log' = [log EXCEPT ![n] = new] /\ UNCHANGED <<cursor, storing>>
    BY <1>4, <2>2 DEF Replies!Emit
  <2>4. new \in Seq(Replies!Kinds) /\ Len(new) = Len(log[n]) + 1
    <3>1. log[n] \in Seq(Replies!Kinds)
      BY <1>0 DEF ReplyTypes
    <3> QED
      BY <2>2, <3>1
  <2>5. \A m \in Streams : log'[m] = IF m = n THEN new ELSE log[m]
    BY <1>0, <2>3 DEF ReplyTypes
  <2>6. log' \in [Streams -> Seq(Replies!Kinds)]
    BY <1>0, <2>3, <2>4 DEF ReplyTypes
  <2>7. \A m \in Streams : Len(log'[m]) <= MaxEvents /\ cursor[m] <= Len(log'[m]) /\ Len(log[m]) <= Len(log'[m])
                           /\ Len(log'[m]) \in Nat
    <3> SUFFICES ASSUME NEW m \in Streams
                 PROVE  Len(log'[m]) <= MaxEvents /\ cursor[m] <= Len(log'[m]) /\ Len(log[m]) <= Len(log'[m])
                        /\ Len(log'[m]) \in Nat
      OBVIOUS
    <3>1. cursor[m] \in Nat /\ Len(log[m]) \in Nat /\ cursor[m] <= Len(log[m]) /\ Len(log[m]) <= MaxEvents
      BY <1>0, <1>3 DEF ReplyTypes
    <3>2. CASE m = n
      BY <2>1, <2>4, <2>5, <3>1, <3>2
    <3>3. CASE m # n
      BY <2>5, <3>1, <3>3
    <3> QED
      BY <3>2, <3>3
  <2>8. \A m \in storing : cursor[m] < Len(log'[m])
    BY <1>0, <1>3, <2>7 DEF ReplyTypes
  <2>9. ReplyTypes'
    BY <1>0, <1>a, <2>3, <2>6, <2>7, <2>8 DEF ReplyTypes
  <2> QED
    BY <1>0, <1>1, <1>a, <2>3, <2>9 DEF TableInOrder
<1>5. ASSUME Replies!EgressSkips(n) \/ Replies!EgressFails(n)
      PROVE  ReplyTypes' /\ TableInOrder'
  <2>1. UNCHANGED <<log, cursor>> /\ cursor[n] < Len(log[n]) /\ storing' \in {storing, storing \cup {n}}
    BY <1>5 DEF Replies!EgressSkips, Replies!EgressFails
  <2>3. ReplyTypes'
    BY <1>0, <1>a, <2>1 DEF ReplyTypes
  <2>4. TableInOrder'
    BY <1>0, <1>1, <1>a, <2>1 DEF TableInOrder
  <2> QED
    BY <2>3, <2>4
<1>6. ASSUME Replies!SaveAdapterCursor(n)
      PROVE  ReplyTypes' /\ TableInOrder'
  <2>1. /\ n \in storing /\ storing' = storing \ {n} /\ UNCHANGED log
        /\ cursor' = [cursor EXCEPT ![n] = @ + 1]
    BY <1>6 DEF Replies!SaveAdapterCursor
  <2>2. cursor' \in [Streams -> Nat] /\ \A m \in Streams : cursor'[m] = IF m = n THEN cursor[n] + 1 ELSE cursor[m]
    BY <1>0, <1>3, <2>1 DEF ReplyTypes
  <2>3. \A m \in Streams : cursor'[m] <= Len(log[m]) /\ cursor[m] <= cursor'[m]
    BY <1>0, <1>3, <2>1, <2>2 DEF ReplyTypes
  <2>4. \A m \in storing' : cursor'[m] < Len(log[m])
    BY <1>0, <2>1, <2>2 DEF ReplyTypes
  <2>5. ReplyTypes'
    BY <1>0, <1>a, <2>1, <2>2, <2>3, <2>4 DEF ReplyTypes
  <2>6. \A id \in Known : id[2] <= cursor'[id[1]] + 1
    <3> SUFFICES ASSUME NEW id \in Known
                 PROVE  id[2] <= cursor'[id[1]] + 1
      OBVIOUS
    <3>1. id[1] \in Streams /\ id[2] \in Nat
      BY <1>0, TableFacts, IdFacts
    <3>2. id[2] <= cursor[id[1]] + 1
      BY <1>0 DEF TableInOrder
    <3> QED
      BY <1>3, <2>2, <2>3, <3>1, <3>2
  <2>7. \A id \in Known' : id[2] <= cursor'[id[1]] + 1
    BY <1>1, <2>6
  <2>8. TableInOrder'
    BY <1>0, <1>a, <2>7 DEF TableInOrder
  <2> QED
    BY <2>5, <2>8
<1> QED
  BY <1>2, <1>4, <1>5, <1>6 DEF RepliesInv

LEMMA BlockPreserves ==
  ASSUME RepliesInv, NEW n \in Streams, Replies!BlockCollaboration(n)
  PROVE  RepliesInv'
<1>0. ReplyTypes
  BY DEF RepliesInv
<1> DEFINE M == {i \in 1 .. Len(table) : table[i].id[1] = n /\ table[i].status = "pending"}
<1>1. DOMAIN table = 1 .. Len(table)
  BY <1>0, TableFacts
<1>2. /\ UNCHANGED <<log, cursor, storing, todo, sending, answer, received>> /\ collab' \subseteq collab
      /\ table' = [i \in DOMAIN table |-> IF i \in M THEN [table[i] EXCEPT !.status = "failed"] ELSE table[i]]
  BY <1>1 DEF Replies!BlockCollaboration
<1> HIDE DEF M
<1>3. "failed" \in Replies!Statuses
  BY DEF Replies!Statuses
<1>4. table' \in Seq(ReplyRow) /\ Known' = Known /\ TableInOrder' /\ Waits' \subseteq Waits
  BY <1>2, <1>3, RowsMarked
<1>5. ReplyTypes'
  BY <1>0, <1>2, <1>4 DEF ReplyTypes
<1> QED
  BY <1>2, <1>4, <1>5, OrderRests DEF RepliesInv

LEMMA RepliesNext == RepliesInv /\ [Replies!Next]_replying => RepliesInv'
<1> SUFFICES ASSUME RepliesInv, [Replies!Next]_replying
             PROVE  RepliesInv'
  OBVIOUS
<1>1. ASSUME NEW n \in Streams,
             \/ \E kind \in Replies!Kinds : Replies!Emit(n, kind)
             \/ Replies!EgressFails(n)
             \/ Replies!SaveAdapterCursor(n)
      PROVE  RepliesInv'
  BY <1>1, ReadingPreserves
<1>2. ASSUME NEW n \in Streams, Replies!HandleEvent(n)
      PROVE  RepliesInv'
  BY <1>2, StorePreserves
<1>3. ASSUME NEW n \in Streams, Replies!BlockCollaboration(n)
      PROVE  RepliesInv'
  BY <1>3, BlockPreserves
<1>4. CASE UNCHANGED replying
  <2>1. UNCHANGED <<log, cursor, storing, table, todo, sending, answer, received, collab>>
    BY <1>4 DEF replying
  <2>2. Known' = Known /\ Waits' = Waits
    BY <2>1 DEF Known, Waits
  <2>3. ReplyTypes' /\ TableInOrder'
    BY <2>1, <2>2 DEF RepliesInv, ReplyTypes, TableInOrder
  <2> QED
    BY <2>1, <2>2, <2>3, OrderRests DEF RepliesInv
<1> QED
  BY <1>1, <1>2, <1>3, <1>4, ReadPreserves, SendPreserves, AnswerPreserves, RecordPreservesReplies, KillPreserves
  DEF Replies!Next

LEMMA RepliesSafe == RepliesInv => Replies!TypeOK /\ RepliesInOrder
<1> SUFFICES ASSUME RepliesInv
             PROVE  Replies!TypeOK /\ RepliesInOrder
  OBVIOUS
<1>1. ReplyTypes
  BY DEF RepliesInv
<1>2. \A n \in Streams : log[n] \in Seq(Replies!Kinds) /\ cursor[n] \in 0 .. Len(log[n])
  BY <1>1 DEF ReplyTypes
<1>3. \A i \in DOMAIN table : table[i] \in [id : Replies!Ids, status : Replies!Statuses]
  BY <1>1, TableFacts DEF ReplyRow
<1>4. \A i \in DOMAIN todo : todo[i] \in Replies!Ids
  BY <1>1, QueueFacts
<1>5. Replies!TypeOK
  BY <1>1, <1>2, <1>3, <1>4 DEF Replies!TypeOK, ReplyTypes
<1> QED
  BY <1>5 DEF RepliesInv, RepliesInOrder

-----------------------------------------------------------------------------
(* Heartbeat: the proof.                                                    *)

LEMMA BeatingInit == Beating!Init => BeatingInv
<1> SUFFICES ASSUME Beating!Init
             PROVE  BeatingInv
  OBVIOUS
<1> USE ServicesAssumption DEF Beating!Init, ServicesAssumption
<1>1. userKey = HasUserKey /\ 1 \in Beating!Tokens /\ 0 \in Beating!Tokens /\ 0 \in Beating!Ages
  BY DEF Beating!Tokens, Beating!Ages
<1>2. hb = [pc |-> "waiting", token |-> 0] /\ ev = [pc |-> "waiting", token |-> 0]
  BY DEF Beating!At
<1>3. health \in [status : Beating!Statuses, failures : 0 .. FailureThreshold]
  BY DEF Beating!Statuses
<1>4. /\ hb \in [pc : {"waiting", "beating", "recovering", "publishing"}, token : Beating!Tokens]
      /\ ev \in [pc : {"waiting", "connecting", "streaming", "recovering"}, token : Beating!Tokens]
  BY <1>1, <1>2
<1>5. recovering \in BOOLEAN /\ fresh \in BOOLEAN /\ waiters \subseteq Beating!Loops
  OBVIOUS
<1>6. /\ own \in Beating!Tokens /\ file \in Beating!Tokens /\ valid \in Beating!Tokens /\ minted \in Beating!Tokens
      /\ rotation \in Beating!Tokens \cup {None}
  BY <1>1
<1>7. budget = None /\ good \in Beating!Ages
  BY <1>1
<1>8. pending \in Handles \cup {None} /\ captured \in Handles \cup {None} /\ published \in Handles \cup {None}
  OBVIOUS
<1> QED
  BY <1>3, <1>4, <1>5, <1>6, <1>7, <1>8 DEF BeatingInv, BeatingTypes, BudgetIsYounger

\* The budget after a failure or a success, and the deadline that ends the bridge.
LEMMA FailureCounts ==
  ASSUME BeatingInv, Beating!RecordFailure
  PROVE  /\ budget' \in Beating!Ages /\ good' \in Beating!Ages /\ budget' <= good'
         /\ ~fatal /\ fatal' => good = Timeout /\ good' = Timeout
<1> USE ServicesAssumption DEF ServicesAssumption, BeatingInv, BeatingTypes, BudgetIsYounger
<1> DEFINE since == IF budget = None THEN 0 ELSE budget
<1>1. good \in 0 .. Timeout /\ since \in 0 .. Timeout /\ since <= good
  BY DEF Beating!Ages
<1>2. budget' = since /\ good' = good
  BY DEF Beating!RecordFailure
<1>3. ~fatal /\ fatal' => since >= Timeout
  BY DEF Beating!RecordFailure
<1> HIDE DEF since
<1> QED
  BY <1>1, <1>2, <1>3 DEF Beating!Ages

LEMMA SuccessCounts ==
  ASSUME BeatingInv, Beating!RecordRecovery
  PROVE  budget' = None /\ good' \in Beating!Ages
BY ServicesAssumption DEF ServicesAssumption, Beating!RecordRecovery, Beating!Ages

LEMMA FailedBeat ==
  ASSUME BeatingInv, Beating!HeartbeatFailed
  PROVE  health' \in [status : Beating!Statuses, failures : 0 .. FailureThreshold]
<1> USE ServicesAssumption DEF ServicesAssumption, BeatingInv, BeatingTypes
<1>1. health.failures \in 0 .. FailureThreshold
  OBVIOUS
<1> DEFINE n == IF health.failures < FailureThreshold THEN health.failures + 1 ELSE FailureThreshold
<1>2. n \in 0 .. FailureThreshold
  BY <1>1
<1>3. health' = [status |-> IF n >= FailureThreshold THEN "unhealthy" ELSE "degraded", failures |-> n]
  BY DEF Beating!HeartbeatFailed
<1> HIDE DEF n
<1> QED
  BY <1>2, <1>3 DEF Beating!Statuses

\* The rest of the state that a step may change, beside the budget.
BeatingRest ==
    /\ own \in Beating!Tokens /\ file \in Beating!Tokens /\ valid \in Beating!Tokens /\ minted \in Beating!Tokens
    /\ rotation \in Beating!Tokens \cup {None}
    /\ recovering \in BOOLEAN /\ waiters \subseteq Beating!Loops /\ fresh \in BOOLEAN
    /\ hb \in [pc : {"waiting", "beating", "recovering", "publishing"}, token : Beating!Tokens]
    /\ ev \in [pc : {"waiting", "connecting", "streaming", "recovering"}, token : Beating!Tokens]
    /\ health \in [status : Beating!Statuses, failures : 0 .. FailureThreshold]
    /\ pending \in Handles \cup {None} /\ captured \in Handles \cup {None} /\ published \in Handles \cup {None}

\* Every step leaves the budget younger than the last success, and is fatal only at its deadline.
BudgetKept ==
    /\ budget' \in Beating!Ages \cup {None} /\ good' \in Beating!Ages /\ BudgetIsYounger'
    /\ ~fatal /\ fatal' => good = Timeout /\ good' = Timeout

LEMMA BeatingKept == BeatingRest' /\ BudgetKept => BeatingInv'
BY DEF BeatingRest, BudgetKept, BeatingInv, BeatingTypes

LEMMA BudgetRests ==
  BeatingInv /\ UNCHANGED <<budget, good, fatal>> => BudgetKept
BY DEF BeatingInv, BeatingTypes, BudgetKept, BudgetIsYounger

LEMMA BudgetFails == BeatingInv /\ Beating!RecordFailure => BudgetKept
BY FailureCounts DEF BudgetKept, BudgetIsYounger

LEMMA BudgetEnds == BeatingInv /\ Beating!RecordRecovery /\ UNCHANGED fatal => BudgetKept
BY SuccessCounts DEF BudgetKept, BudgetIsYounger

LEMMA BeatingNext == BeatingInv /\ [Beating!Next]_beating => BeatingInv' /\ BudgetKept
<1> SUFFICES ASSUME BeatingInv, [Beating!Next]_beating
             PROVE  BeatingInv' /\ BudgetKept
  OBVIOUS
<1> USE DEF BeatingInv, BeatingTypes
<1>0. SUFFICES BeatingRest' /\ BudgetKept
  BY BeatingKept
<1>a. ServicesAssumption /\ MaxTokens \in Nat
  BY ServicesAssumption DEF ServicesAssumption
<1>b. /\ Beating!Tokens = 0 .. MaxTokens
      /\ \A t \in Beating!Tokens : t < MaxTokens => t + 1 \in Beating!Tokens
      /\ 0 \in Beating!Tokens
  BY <1>a DEF Beating!Tokens
<1>c. /\ \A pc \in {"waiting", "beating", "recovering", "publishing"} : \A t \in Beating!Tokens :
            [pc |-> pc, token |-> t] \in [pc : {"waiting", "beating", "recovering", "publishing"}, token : Beating!Tokens]
      /\ \A pc \in {"waiting", "connecting", "streaming", "recovering"} : \A t \in Beating!Tokens :
            [pc |-> pc, token |-> t] \in [pc : {"waiting", "connecting", "streaming", "recovering"}, token : Beating!Tokens]
  OBVIOUS
<1>d. /\ \A pc \in {"waiting", "beating", "recovering", "publishing"} :
            Beating!At(pc) \in [pc : {"waiting", "beating", "recovering", "publishing"}, token : Beating!Tokens]
      /\ \A pc \in {"waiting", "connecting", "streaming", "recovering"} :
            Beating!At(pc) \in [pc : {"waiting", "connecting", "streaming", "recovering"}, token : Beating!Tokens]
  BY <1>b, <1>c DEF Beating!At
<1> USE DEF BeatingRest
<1>1. CASE Beating!Rotate \/ Beating!SaveRotated \/ Beating!Revoke
  <2>1. UNCHANGED <<recovering, waiters, fresh, hb, ev, budget, good, health, pending, captured, published, fatal>>
    BY <1>1 DEF Beating!Rotate, Beating!SaveRotated, Beating!Revoke, Beating!recovery, Beating!age, Beating!route
  <2>2. /\ own' \in Beating!Tokens /\ file' \in Beating!Tokens /\ valid' \in Beating!Tokens /\ minted' \in Beating!Tokens
        /\ rotation' \in Beating!Tokens \cup {None}
    BY <1>1, <1>b DEF Beating!Rotate, Beating!SaveRotated, Beating!Revoke
  <2> QED
    BY <2>1, <2>2, BudgetRests
<1>2. CASE Beating!Tick
  <2>1. UNCHANGED <<own, file, valid, minted, rotation, recovering, waiters, hb, ev, health, pending, captured, published, fatal>>
        /\ fresh' = FALSE
    BY <1>2 DEF Beating!Tick, Beating!tokens, Beating!route
  <2>2. Timeout \in Nat /\ None \notin 0 .. Timeout
    BY <1>a DEF ServicesAssumption, Beating!Ages
  <2>3. good' = IF good < Timeout THEN good + 1 ELSE good
    BY <1>2, <2>2 DEF Beating!Tick, Beating!Older, Beating!Ages
  <2>4. budget' = IF budget = None THEN None ELSE IF budget < Timeout THEN budget + 1 ELSE budget
    BY <1>2 DEF Beating!Tick, Beating!Older
  <2>5. good \in 0 .. Timeout /\ good' \in 0 .. Timeout
    BY <2>2, <2>3 DEF Beating!Ages
  <2>6. CASE budget = None
    BY <2>1, <2>4, <2>5, <2>6 DEF BudgetKept, BudgetIsYounger, Beating!Ages
  <2>7. CASE budget # None
    <3>1. budget \in 0 .. Timeout /\ budget <= good
      BY <2>7 DEF Beating!Ages, BudgetIsYounger
    <3>2. budget' \in 0 .. Timeout /\ budget' <= good'
      BY <2>2, <2>3, <2>4, <2>5, <2>7, <3>1
    <3> QED
      BY <2>1, <2>5, <3>2 DEF BudgetKept, BudgetIsYounger, Beating!Ages
  <2> QED
    BY <2>1, <2>6, <2>7
<1>3. ASSUME NEW l \in Beating!Loops, Beating!Recover(l)
      PROVE  BeatingRest' /\ BudgetKept
  <2>1. UNCHANGED <<file, valid, minted, rotation, pending, captured, published>>
    BY <1>3 DEF Beating!Recover, Beating!route
  <2>2. CASE /\ waiters' = waiters \cup {l} /\ UNCHANGED <<own, recovering, fresh, hb, ev, Beating!age, health, fatal>>
    <3>1. UNCHANGED <<budget, good>>
      BY <2>2 DEF Beating!age
    <3> QED
      BY <2>1, <2>2, <3>1, BudgetRests
  <2>3. CASE /\ recovering' = TRUE /\ waiters' = {l} /\ UNCHANGED <<own, fresh, hb, ev, Beating!age, health, fatal>>
    <3>1. UNCHANGED <<budget, good>>
      BY <2>3 DEF Beating!age
    <3> QED
      BY <2>1, <2>3, <3>1, BudgetRests
  <2>4. CASE /\ own' = (IF fresh THEN own ELSE file)
             /\ fresh' = (fresh \/ file # own)
             /\ \/ Beating!RecordRecovery /\ UNCHANGED <<stopped, fatal>>
                \/ Beating!RecordFailure
             /\ hb' = (IF l = "hb" THEN Beating!At("waiting") ELSE hb)
             /\ ev' = (IF l = "ev" THEN Beating!At("waiting") ELSE ev)
             /\ Beating!HeartbeatFailed \/ UNCHANGED health
             /\ UNCHANGED <<recovering, waiters>>
    <3>1. BudgetKept
      BY <2>4, BudgetFails, BudgetEnds
    <3>2. health' \in [status : Beating!Statuses, failures : 0 .. FailureThreshold]
      BY <2>4, FailedBeat
    <3>3. fresh' \in BOOLEAN /\ own' \in Beating!Tokens
      BY <2>4
    <3>4. /\ hb' \in [pc : {"waiting", "beating", "recovering", "publishing"}, token : Beating!Tokens]
          /\ ev' \in [pc : {"waiting", "connecting", "streaming", "recovering"}, token : Beating!Tokens]
      BY <1>d, <2>4
    <3> QED
      BY <2>1, <2>4, <3>1, <3>2, <3>3, <3>4
  <2> QED
    BY <1>3, <2>2, <2>3, <2>4 DEF Beating!Recover, Beating!Back
<1>4. CASE Beating!Registered
  <2>1. recovering' = FALSE /\ waiters' = {} /\ UNCHANGED <<rotation, pending, captured, published>>
    BY <1>4 DEF Beating!Registered, Beating!route
  <2>2. /\ hb' \in [pc : {"waiting", "beating", "recovering", "publishing"}, token : Beating!Tokens]
        /\ ev' \in [pc : {"waiting", "connecting", "streaming", "recovering"}, token : Beating!Tokens]
    BY <1>4, <1>d DEF Beating!Registered
  <2>3. health' \in [status : Beating!Statuses, failures : 0 .. FailureThreshold]
    BY <1>4, FailedBeat DEF Beating!Registered
  <2>4. BudgetKept
    BY <1>4, BudgetFails, BudgetEnds DEF Beating!Registered
  <2>5. minted < MaxTokens => minted + 1 \in Beating!Tokens
    BY <1>b
  <2>6. /\ own' \in Beating!Tokens /\ file' \in Beating!Tokens /\ valid' \in Beating!Tokens /\ minted' \in Beating!Tokens
        /\ fresh' \in BOOLEAN
    BY <1>4, <2>5 DEF Beating!Registered
  <2> QED
    BY <2>1, <2>2, <2>3, <2>4, <2>6
<1>5. CASE \/ Beating!Beat \/ Beating!BeatAgain \/ Beating!BeatRejected
           \/ Beating!Connect \/ Beating!Connected \/ Beating!Disconnected
  <2>1. UNCHANGED <<own, file, valid, minted, rotation, recovering, waiters, fresh, budget, good, health,
                    pending, captured, published, fatal>>
    BY <1>5 DEF Beating!Beat, Beating!BeatAgain, Beating!BeatRejected, Beating!Connect, Beating!Connected,
                Beating!Disconnected, Beating!tokens, Beating!recovery, Beating!age, Beating!route
  <2>2. hb' \in [pc : {"waiting", "beating", "recovering", "publishing"}, token : Beating!Tokens]
    BY <1>5, <1>c, <1>d DEF Beating!Beat, Beating!BeatAgain, Beating!BeatRejected, Beating!Connect, Beating!Connected,
                Beating!Disconnected
  <2>3. ev' \in [pc : {"waiting", "connecting", "streaming", "recovering"}, token : Beating!Tokens]
    BY <1>5, <1>c, <1>d DEF Beating!Beat, Beating!BeatAgain, Beating!BeatRejected, Beating!Connect, Beating!Connected,
                Beating!Disconnected
  <2> QED
    BY <2>1, <2>2, <2>3, BudgetRests
<1>6. ASSUME Beating!AfterBeat
      PROVE  /\ hb' \in [pc : {"waiting", "beating", "recovering", "publishing"}, token : Beating!Tokens]
             /\ captured' \in Handles \cup {None}
  BY <1>6, <1>d DEF Beating!AfterBeat
<1>7. CASE Beating!Beaten
  <2>1. UNCHANGED <<own, file, valid, minted, rotation, recovering, waiters, fresh, ev, pending, published, fatal>>
    BY <1>7 DEF Beating!Beaten, Beating!tokens, Beating!recovery
  <2>2. health' \in [status : Beating!Statuses, failures : 0 .. FailureThreshold]
    <3>1. FailureThreshold \in Nat
      BY <1>a DEF ServicesAssumption
    <3> QED
      BY <1>7, <3>1 DEF Beating!Beaten, Beating!HeartbeatSucceeded, Beating!Statuses
  <2>3. BudgetKept
    BY <1>7, BudgetEnds DEF Beating!Beaten
  <2> QED
    BY <1>6, <1>7, <2>1, <2>2, <2>3 DEF Beating!Beaten
<1>8. CASE Beating!BeatLost
  <2>1. UNCHANGED <<own, file, valid, minted, rotation, recovering, waiters, fresh, ev, budget, good, pending, published, fatal>>
    BY <1>8 DEF Beating!BeatLost, Beating!tokens, Beating!recovery, Beating!age
  <2>2. health' \in [status : Beating!Statuses, failures : 0 .. FailureThreshold]
    BY <1>8, FailedBeat DEF Beating!BeatLost
  <2> QED
    BY <1>6, <1>8, <2>1, <2>2, BudgetRests DEF Beating!BeatLost
<1>9. CASE Beating!RoutePublished \/ Beating!RouteNotPublished
  <2>1. UNCHANGED <<own, file, valid, minted, rotation, recovering, waiters, fresh, ev, budget, good, health, fatal>>
    BY <1>9 DEF Beating!RoutePublished, Beating!RouteNotPublished, Beating!tokens, Beating!recovery, Beating!age
  <2>2. /\ hb' = Beating!At("waiting") /\ captured' = None
        /\ pending' \in Handles \cup {None} /\ published' \in Handles \cup {None}
    BY <1>9 DEF Beating!RoutePublished, Beating!RouteNotPublished
  <2> QED
    BY <1>d, <2>1, <2>2, BudgetRests
<1>10. ASSUME NEW h \in Handles, Beating!RouteAsked(h)
       PROVE  BeatingRest' /\ BudgetKept
  <2>1. UNCHANGED <<own, file, valid, minted, rotation, recovering, waiters, fresh, hb, ev, budget, good, health,
                    captured, published, fatal>> /\ pending' = h
    BY <1>10 DEF Beating!RouteAsked, Beating!tokens, Beating!recovery, Beating!age
  <2> QED
    BY <2>1, BudgetRests
<1>11. CASE Beating!Stop
  <2>1. UNCHANGED <<own, file, valid, minted, rotation, recovering, waiters, fresh, hb, ev, budget, good,
                    pending, captured, published, fatal>>
    BY <1>11 DEF Beating!Stop, Beating!tokens, Beating!recovery, Beating!age, Beating!route
  <2>2. health' \in [status : Beating!Statuses, failures : 0 .. FailureThreshold]
    BY <1>11 DEF Beating!Stop, Beating!Statuses
  <2> QED
    BY <2>1, <2>2, BudgetRests
<1>12. CASE UNCHANGED beating
  BY <1>12, BudgetRests DEF beating
<1> QED
  BY <1>1, <1>2, <1>3, <1>4, <1>5, <1>7, <1>8, <1>9, <1>10, <1>11, <1>12 DEF Beating!Next

LEMMA BeatingSafe == BeatingInv => Beating!TypeOK
BY DEF BeatingInv, BeatingTypes, Beating!TypeOK

-----------------------------------------------------------------------------
(* The services as a whole.                                                 *)

ServicesInv == DelegationInv /\ EventIsHeld /\ RepliesInv /\ BeatingInv

LEMMA ServicesInvariant == Spec => []ServicesInv
<1>1. Init => ServicesInv
  <2>1. Delegating!Init => EventIsHeld
    BY DEF Delegating!Init, Delegating!Callers, Delegating!Idle, EventIsHeld
  <2> QED
    BY <2>1, DelegationInit, RepliesInit, BeatingInit DEF Init, ServicesInv
<1>2. [Next]_vars => /\ [Delegating!Next]_delegating
                     /\ [Replies!Next]_replying
                     /\ [Beating!Next]_beating
  BY DEF Next, vars
<1>3. ServicesInv /\ [Next]_vars => ServicesInv'
  BY <1>2, DelegationNext, EventHeldNext, RepliesNext, BeatingNext DEF ServicesInv
<1> QED
  BY <1>1, <1>3, PTL DEF Spec

\* The state of the bridge's loops has the types the code gives it, whatever is lost, late,
\* refused or killed.
THEOREM ServiceTypes == Spec => []TypeOK
<1>1. ServicesInv => TypeOK
  BY DelegationSafe, RepliesSafe, BeatingSafe DEF ServicesInv, TypeOK
<1> QED
  BY <1>1, ServicesInvariant, PTL

\* A task the spool calls delegated was sent, and no task is sent twice or under two grants,
\* however late the answers and however often it is asked for.
THEOREM DelegationIsSound == Spec => []DelegationSound
<1>1. ServicesInv => DelegationSound
  BY DelegationSafe DEF ServicesInv
<1> QED
  BY <1>1, ServicesInvariant, PTL

\* The control plane gets the replies of a session in the order the runtime gave them, through
\* lost answers, replayed events, ended collaborations and kills.
THEOREM RepliesArriveInOrder == Spec => []RepliesInOrder
<1>1. ServicesInv => RepliesInOrder
  BY RepliesSafe DEF ServicesInv
<1> QED
  BY <1>1, ServicesInvariant, PTL

\* The bridge gives up on its credentials only when nothing has succeeded for the whole timeout,
\* whichever loop started the budget and whichever reset it.
THEOREM FatalIsAlwaysDeserved == Spec => FatalIsDeserved
<1>1. ServicesInv /\ [Next]_vars => [~fatal /\ fatal' => good = Timeout]_(Beating!vars)
  <2> SUFFICES ASSUME ServicesInv, [Next]_vars
               PROVE  ~fatal /\ fatal' => good = Timeout
    OBVIOUS
  <2>1. [Beating!Next]_beating
    BY DEF Next, vars
  <2>2. ~fatal /\ fatal' => good = Timeout /\ good' = Timeout
    BY <2>1, BeatingNext DEF ServicesInv, BudgetKept
  <2> QED
    BY <2>2
<1> QED
  BY <1>1, ServicesInvariant, PTL DEF Spec, FatalIsDeserved, Beating!FatalIsDeserved
===============================================================================
