----------------------------- MODULE Delegation -----------------------------
(***************************************************************************)
(* Tasks handed to a peer's agent.  The bridge keeps a row per task in its *)
(* spool and asks the control plane to delegate it, once for the command   *)
(* that started it and again from two places: a loop of its own and the    *)
(* handler of comm.activated.  The control plane asks for a grant, or      *)
(* sends the task under an active one, and answers a repeated request from *)
(* the row it keeps.  Requests are lost, answers are lost, and a request   *)
(* the bridge has given up may still be processed.                         *)
(***************************************************************************)
EXTENDS Integers, Sequences, FiniteSets

CONSTANTS
    Tasks,        \* clientMessageIds
    Grants,       \* communication sessions the control plane may create
    None,
    Bounds        \* bounds: [requests by commands, losses of requests or answers, crashes of the bridge]

VARIABLES
    rows,    \* pending_delegations: task -> [status, comm]
    late,    \* tasks whose expires_at has passed
    call,    \* caller -> the requests it is making
    inbox,   \* events of the grants the bridge has not passed yet, in order
    cpRows,  \* local_agent_delegations: task -> [comm, sent]
    grants,  \* status of each grant
    msgs,    \* messages the control plane stored: <<task, grant>>
    stray,   \* tasks of requests given up that are still on their way
    requests, losses, crashes \* what is left of the bound of this behaviour

bridge == <<rows, late, call>>
controlPlane == <<cpRows, grants, msgs>>
bounds == <<requests, losses, crashes>>
vars == <<rows, late, call, inbox, cpRows, grants, msgs, stray, requests, losses, crashes>>

Callers == {"command", "loop", "events"}
Pending == [task: Tasks, comm: Grants \cup {None}]
Answers == [status: {"delegated", "grant_requested"}, comm: Grants]
             \cup [status: {"collaboration_requested", "terminal", "retry"}, comm: {None}]

\* A caller with nothing to do; `at` is the row it is asking for, `busy` the handling of an event.
Idle == [busy |-> FALSE, todo |-> {}, at |-> None, answer |-> None]
NoRow == [status |-> "none", comm |-> None]
Refused(code) == [status |-> code, comm |-> None]

TypeOK ==
    /\ rows \in [Tasks -> [status: {"none", "grant_requested", "delegated", "failed"}, comm: Grants \cup {None}]]
    /\ late \subseteq Tasks
    /\ call \in [Callers -> [busy: BOOLEAN, todo: SUBSET Pending, at: Pending \cup {None}, answer: Answers \cup {None}]]
    /\ inbox \in Seq([type: {"activated", "ended"}, grant: Grants])
    /\ cpRows \in [Tasks -> [comm: Grants \cup {None}, sent: BOOLEAN]]
    /\ grants \in [Grants -> {"unused", "pending", "active", "ended"}]
    /\ msgs \subseteq Tasks \X Grants
    /\ stray \subseteq Tasks

Init ==
    /\ rows = [t \in Tasks |-> NoRow]
    /\ late = {}
    /\ call = [c \in Callers |-> Idle]
    /\ inbox = <<>>
    /\ cpRows = [t \in Tasks |-> [comm |-> None, sent |-> FALSE]]
    /\ grants = [g \in Grants |-> "unused"]
    /\ msgs = {}
    /\ stray = {}
    /\ \E b \in Bounds : requests = b.requests /\ losses = b.losses /\ crashes = b.crashes

-----------------------------------------------------------------------------
(* The control plane. *)

\* The task is sent under grant g, unless the message is refused.
SendInvite(t, g, answer) ==
    \/ /\ grants[g] = "active"
       /\ msgs' = msgs \cup {<<t, g>>}
       /\ cpRows' = [cpRows EXCEPT ![t] = [comm |-> g, sent |-> TRUE]]
       /\ answer = [status |-> "delegated", comm |-> g]
       /\ UNCHANGED grants
    \/ /\ answer \in {Refused("terminal"), Refused("retry")}
       /\ UNCHANGED controlPlane

\* A repeated request is answered from the row.
ResumeExisting(t, answer) ==
    LET g == cpRows[t].comm IN
    \/ /\ cpRows[t].sent
       /\ answer = [status |-> "delegated", comm |-> g]
       /\ UNCHANGED controlPlane
    \/ /\ ~cpRows[t].sent /\ grants[g] = "active"
       /\ SendInvite(t, g, answer)
    \/ /\ ~cpRows[t].sent /\ grants[g] = "pending"
       /\ answer = [status |-> "grant_requested", comm |-> g]
       /\ UNCHANGED controlPlane
    \/ /\ ~cpRows[t].sent /\ grants[g] = "ended"
       /\ answer = Refused("retry")              \* 409
       /\ UNCHANGED controlPlane

\* A first request uses an active grant or asks for one.
DelegateNew(t, answer) ==
    \/ \E g \in Grants : grants[g] = "active" /\ SendInvite(t, g, answer)
    \/ /\ \A g \in Grants : grants[g] # "active"
       /\ \E g \in Grants :
            /\ grants[g] = "unused"
            /\ grants' = [grants EXCEPT ![g] = "pending"]
            /\ cpRows' = [cpRows EXCEPT ![t] = [comm |-> g, sent |-> FALSE]]
            /\ answer = [status |-> "grant_requested", comm |-> g]
            /\ UNCHANGED msgs
    \/ /\ answer \in {Refused("terminal"), Refused("retry")}
       /\ UNCHANGED controlPlane

\* As if the row were not looked up.
DelegateAnew(t, answer) == DelegateNew(t, answer)

Delegate(t, answer) ==
    IF cpRows[t].comm # None THEN ResumeExisting(t, answer) ELSE DelegateNew(t, answer)

\* The other party accepts: the requester's bridge is told.
Approve(g) ==
    /\ grants[g] = "pending"
    /\ grants' = [grants EXCEPT ![g] = "active"]
    /\ inbox' = Append(inbox, [type |-> "activated", grant |-> g])
    /\ UNCHANGED <<bridge, cpRows, msgs, stray, bounds>>

\* It declines (of which the bridge handles no event), or an active grant is revoked or expires.
End(g) ==
    /\ grants[g] \in {"pending", "active"}
    /\ grants' = [grants EXCEPT ![g] = "ended"]
    /\ inbox' = IF grants[g] = "active" THEN Append(inbox, [type |-> "ended", grant |-> g]) ELSE inbox
    /\ UNCHANGED <<bridge, cpRows, msgs, stray, bounds>>

-----------------------------------------------------------------------------
(* Requests of the bridge. *)

\* requestRuntimeDelegation: a command asks before there is any row.
Request(t) ==
    /\ requests > 0
    /\ call["command"] = Idle
    /\ call' = [call EXCEPT !["command"].at = [task |-> t, comm |-> None]]
    /\ requests' = requests - 1
    /\ UNCHANGED <<rows, late, inbox, controlPlane, stray, losses, crashes>>

\* The rows to retry, of grant g or of all, as they are now.
ListPending(comms) ==
    {[task |-> t, comm |-> rows[t].comm] :
        t \in {u \in Tasks : rows[u].status = "grant_requested" /\ rows[u].comm \in comms}}

\* The delegation loop reads the rows.
StartRetries ==
    /\ call["loop"] = Idle
    /\ ListPending(Grants \cup {None}) # {}
    /\ call' = [call EXCEPT !["loop"].todo = ListPending(Grants \cup {None})]
    /\ UNCHANGED <<rows, late, inbox, controlPlane, stray, bounds>>

\* markDelegationsFailed: only rows that wait, all those of the grant.
FailWaiting(g) ==
    [t \in Tasks |-> IF rows[t].comm = g /\ rows[t].status = "grant_requested"
                     THEN [rows[t] EXCEPT !.status = "failed"] ELSE rows[t]]

\* A row past its deadline fails if its grant is known; otherwise only an attempt is counted.
Expired(c, p) ==
    /\ call[c].at = None /\ p \in call[c].todo
    /\ p.task \in late
    /\ rows' = IF p.comm # None THEN FailWaiting(p.comm) ELSE rows
    /\ call' = [call EXCEPT ![c].todo = @ \ {p}]
    /\ UNCHANGED <<late, inbox, controlPlane, stray, bounds>>

Ask(c, p) ==
    /\ call[c].at = None /\ p \in call[c].todo
    /\ p.task \notin late
    /\ call' = [call EXCEPT ![c].todo = @ \ {p}, ![c].at = p]
    /\ UNCHANGED <<rows, late, inbox, controlPlane, stray, bounds>>

\* The request reaches the control plane; a hosted one may also answer that it asked for a collaboration.
Process(c) ==
    /\ call[c].at # None /\ call[c].answer = None
    /\ \E a \in Answers :
         /\ call' = [call EXCEPT ![c].answer = a]
         /\ \/ Delegate(call[c].at.task, a)
            \/ a = Refused("collaboration_requested") /\ cpRows[call[c].at.task].comm = None /\ UNCHANGED controlPlane
    /\ UNCHANGED <<rows, late, inbox, stray, bounds>>

\* It is lost or times out, before it was processed or after.
Lose(c) ==
    /\ losses > 0
    /\ call[c].at # None /\ call[c].answer # Refused("retry")
    /\ call' = [call EXCEPT ![c].answer = Refused("retry")]
    /\ stray' \in IF call[c].answer = None THEN {stray, stray \cup {call[c].at.task}} ELSE {stray}
    /\ losses' = losses - 1
    /\ UNCHANGED <<rows, late, inbox, controlPlane, requests, crashes>>

ProcessStray(t) ==
    /\ t \in stray
    /\ stray' = stray \ {t}
    /\ \E a \in Answers : Delegate(t, a)
    /\ UNCHANGED <<bridge, inbox, bounds>>

-----------------------------------------------------------------------------
(* What the answers do to the spool. *)

\* storePendingDelegation: an upsert that takes the new status and keeps a grant already known.
Stored(t, status, g) ==
    [rows EXCEPT ![t] = [status |-> status, comm |-> IF g = None THEN @.comm ELSE g]]

\* As if the row took the status of the answer, one the table does not know included.
StatusAsAnswered(a) == a.status
StatusOf(a) == IF a.status = "delegated" THEN "delegated" ELSE "grant_requested"

Answered(c, p, a) ==
    rows' = IF a.status \notin {"terminal", "retry"} THEN Stored(p.task, StatusOf(a), a.comm)
            ELSE IF c # "command" /\ a.status = "terminal" /\ p.comm # None THEN FailWaiting(p.comm)
            ELSE rows

\* A command stores a new deadline with the row.
Record(c) ==
    /\ call[c].answer # None
    /\ Answered(c, call[c].at, call[c].answer)
    /\ late' = IF c = "command" /\ call[c].answer.status \notin {"terminal", "retry"}
               THEN late \ {call[c].at.task} ELSE late
    /\ call' = [call EXCEPT ![c].at = None, ![c].answer = None]
    /\ UNCHANGED <<inbox, controlPlane, stray, bounds>>

\* comm.activated: the rows of the grant are retried before the cursor moves on.
Activated ==
    /\ inbox # <<>> /\ Head(inbox).type = "activated"
    /\ call["events"] = Idle
    /\ call' = [call EXCEPT !["events"].busy = TRUE, !["events"].todo = ListPending({Head(inbox).grant})]
    /\ UNCHANGED <<rows, late, inbox, controlPlane, stray, bounds>>

\* The event loop has been through the rows and saves its cursor.
ActivationDone ==
    /\ LET e == call["events"] IN e.busy /\ e.todo = {} /\ e.at = None
    /\ call' = [call EXCEPT !["events"] = Idle]
    /\ inbox' = Tail(inbox)
    /\ UNCHANGED <<rows, late, controlPlane, stray, bounds>>

\* comm.revoked, comm.expired: if the adapter's release throws, the rows are left alone.
GrantEnded ==
    /\ inbox # <<>> /\ Head(inbox).type = "ended"
    /\ call["events"] = Idle
    /\ rows' \in {FailWaiting(Head(inbox).grant), rows}
    /\ inbox' = Tail(inbox)
    /\ UNCHANGED <<late, call, controlPlane, stray, bounds>>

\* The deadline of a row passes that waits or is about to be retried (no other is compared with it).
Deadline(t) ==
    /\ t \notin late
    /\ \/ rows[t].status = "grant_requested"
       \/ \E c \in Callers : \E p \in call[c].todo : p.task = t
    /\ late' = late \cup {t}
    /\ UNCHANGED <<rows, call, inbox, controlPlane, stray, bounds>>

\* The bridge is killed: an event that was being handled is replayed.
Crash ==
    /\ crashes > 0
    /\ crashes' = crashes - 1
    /\ call' = [c \in Callers |-> Idle]
    /\ stray' = stray \cup {call[c].at.task : c \in {d \in Callers : call[d].at # None /\ call[d].answer = None}}
    /\ UNCHANGED <<rows, late, inbox, controlPlane, requests, losses>>

Step(c) == \/ \E p \in call[c].todo : Expired(c, p) \/ Ask(c, p)
           \/ Process(c) \/ Record(c)

Next ==
    \/ \E t \in Tasks : Request(t) \/ ProcessStray(t) \/ Deadline(t)
    \/ StartRetries \/ Activated \/ ActivationDone \/ GrantEnded \/ Crash
    \/ \E c \in Callers : Step(c) \/ Lose(c)
    \/ \E g \in Grants : Approve(g) \/ End(g)

Spec == Init /\ [][Next]_vars

\* The loops go on, and time passes.
Fairness ==
    /\ WF_vars(StartRetries) /\ WF_vars(Activated) /\ WF_vars(ActivationDone) /\ WF_vars(GrantEnded)
    /\ \A c \in Callers : WF_vars(Step(c))
    /\ \A t \in Tasks : WF_vars(Deadline(t))

FairSpec == Spec /\ Fairness

-----------------------------------------------------------------------------
(* Properties. *)

\* What the spool calls delegated was sent, under the grant it names, whatever answer came
\* late (recordDelegationResult overwrites the row with every answer).
DelegatedWasSent ==
    \A t \in Tasks : rows[t].status = "delegated" => <<t, rows[t].comm>> \in msgs

\* However often and from wherever a task is retried, it is sent once and under one grant, and
\* at most one grant was asked for on its behalf (resumeExisting).
SentOnce ==
    \A t \in Tasks : \A m, n \in {x \in msgs : x[1] = t} : m = n

DelegationSound == DelegatedWasSent /\ SentOnce

\* A task whose grant is known does not wait for ever: it is sent, or fails at its deadline,
\* when the grant ends, and even when the release of the ended grant throws.
Waiting == {t \in Tasks : rows[t].status = "grant_requested" /\ rows[t].comm # None}
DelegationsSettle == []<>(Waiting = {})

=============================================================================
