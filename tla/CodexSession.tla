---------------------------- MODULE CodexSession ----------------------------
(***************************************************************************)
(* One managed session of the Codex adapter                                 *)
(* (src/adapters/codex/codex-adapter.ts) and the driver that runs its turns *)
(* (app-server-driver.ts, driver.ts): deliveries, turns, resets, the        *)
(* rebuild for a continuation, restarts.                                    *)
(*                                                                         *)
(* deliverToSession has one await, for the turn to start.  Closing a turn   *)
(* ends its stream at once (AsyncMessageQueue.close), so whoever closes one *)
(* and awaits its consumer goes on before anything else happens.            *)
(***************************************************************************)
EXTENDS Integers, Sequences, FiniteSets

CONSTANTS
    Grants,      \* communication sessions, all with the same sender
    None,        \* undefined
    FullAgent,   \* the capability surface is full-agent
    MaxTurns,    \* bound: turns started
    MaxChanges,  \* bound: changes of the policy
    MaxCrashes   \* bound: restarts of the bridge

VARIABLES
    s,        \* the ManagedSession in memory; active is a position in turns, or 0
    db,       \* its row in managed_sessions
    turns,    \* the turns started so far
    events,   \* session_events: what became of the turns, in order
    policy,   \* what the policy gives the sender: a project or, unread or ambiguous too, none
    chk,      \* continuation store: the grant of a checkpoint that is 'resuming'
    resuming, \* the recovery has rebuilt the session and resumes next
    resumed,  \* the turn that resumed the checkpoint, or 0
    changes,  \* bound
    crashes   \* bound

vars == <<s, db, turns, events, policy, chk, resuming, resumed, changes, crashes>>
continuation == <<chk, resuming, resumed>>
bounds == <<changes, crashes>>

Kinds == {"task", "chat", "context"}
Accesses == {"none", "selected"}

Row(sess) == [state |-> sess.state, bound |-> sess.bound, thread |-> sess.thread]
Unbound == [state |-> "idle", bound |-> None, thread |-> 0, sender |-> FALSE, active |-> 0]

\* A thread is a number; 0 is none, and 1 one that an earlier run left.
Rows == {Row(Unbound)} \cup
        {[state |-> state, bound |-> b, thread |-> 1] : state \in {"idle", "busy"}, b \in Grants \cup {None}}

\* loadOrCreateSessions and the constructor: no turn survives a restart, a thread
\* that nobody is bound to is discarded, and a full-agent one with its surface.
Loaded(row) ==
    [Unbound EXCEPT !.bound = row.bound,
                    !.thread = IF FullAgent \/ row.bound = None THEN 0 ELSE row.thread]

Init ==
    /\ \E row \in Rows :
        /\ s = Loaded(row)
        /\ db = Row(Loaded(row))
        /\ chk \in {None, row.bound}
        \* The turn of the earlier run that made the thread.
        /\ turns = IF row.thread # 0 /\ row.bound # None
                   THEN <<[grant |-> row.bound, kind |-> "chat", thread |-> 1, from |-> 0,
                           ack |-> "acked", life |-> "over", silent |-> TRUE]>>
                   ELSE <<>>
    /\ events = <<>>
    /\ policy \in Accesses
    /\ resuming = FALSE /\ resumed = 0
    /\ changes = 0 /\ crashes = 0

-----------------------------------------------------------------------------
(* The end of a turn.                                                        *)

Report(type, t) == IF turns[t].kind = "context" THEN events ELSE Append(events, [type |-> type, turn |-> t])

\* The consumer has ended; what waits for the turn to start is rejected.
Over(t, silent) ==
    [turns EXCEPT ![t].life = "over", ![t].silent = silent,
                  ![t].ack = IF @ = "pending" THEN "refused" ELSE @]

\* Mutant of Settles: the turn is not forgotten with its checkpoint.
SettlesStore(t) ==
    IF t # 0 /\ t = resumed THEN chk' = None /\ UNCHANGED resumed ELSE UNCHANGED <<chk, resumed>>

\* A turn that never started gives its checkpoint up, resume_failed, and so
\* does one that fails.
Settles(t) ==
    IF t # 0 /\ t = resumed THEN chk' = None /\ resumed' = 0 ELSE UNCHANGED <<chk, resumed>>

\* failTurn.
Failed(t) == Report("turn_failed", t)

-----------------------------------------------------------------------------
(* deliverToSession                                                          *)

\* The answers queued_busy and permission_required change nothing.
Admits(g) == s.state # "busy" /\ s.active = 0 /\ s.bound \in {None, g}

\* project_selection_required, project_access_not_found, project_access_required.
NeedsProject(kind) == kind = "task" /\ policy # "selected"

Bound(g) == [s EXCEPT !.bound = g, !.sender = TRUE]

\* The session is bound before the project is checked, and stays so.
DeliverRefused(g, kind) ==
    /\ ~resuming
    /\ Admits(g) /\ NeedsProject(kind)
    /\ s' = Bound(g) /\ db' = Row(s')
    /\ UNCHANGED <<turns, events, policy, continuation, bounds>>

Deliver(g, kind) ==
    /\ resuming => kind = "task" /\ chk = g
    /\ Admits(g) /\ ~NeedsProject(kind)
    /\ Len(turns) < MaxTurns
    /\ turns' = Append(turns, [grant |-> g, kind |-> kind, thread |-> 0, from |-> s.thread,
                               ack |-> "pending", life |-> "spawned", silent |-> FALSE])
    /\ s' = [Bound(g) EXCEPT !.active = Len(turns')]
    /\ db' = Row(s')
    /\ resumed' = IF resuming THEN Len(turns') ELSE resumed
    /\ resuming' = FALSE
    /\ UNCHANGED <<events, policy, chk, bounds>>

\* Mutant of Abandoned: the turn is left running.
AbandonedOpen(t) == [turns EXCEPT ![t].ack = "refused"]

\* turnAckTimeoutMs: the turn is closed and its consumer reports a failure.
Abandoned(t) == Over(t, FALSE)

Idle(t) == [s EXCEPT !.state = "idle", !.active = 0]

AckTimeout(t) ==
    /\ turns[t].ack = "pending"
    /\ turns' = Abandoned(t)
    /\ s' = Idle(t) /\ db' = Row(s')
    /\ events' = Failed(t)
    /\ Settles(t)
    /\ UNCHANGED <<policy, resuming, bounds>>

-----------------------------------------------------------------------------
(* handleTurnEvent and consumeTurn.                                          *)

\* thread/start gives a new thread, thread/resume the one it was asked for.
Threads == {s.thread, db.thread} \cup {turns[t].thread : t \in DOMAIN turns}
NewThread == CHOOSE id \in 1..Cardinality(Threads) + 1 : id \notin Threads

ThreadStarted(t) ==
    /\ turns[t].life = "spawned"
    /\ LET id == IF turns[t].from # 0 THEN turns[t].from ELSE NewThread
       IN  /\ turns' = [turns EXCEPT ![t].life = "threaded", ![t].thread = id]
           /\ s' = [s EXCEPT !.thread = id]
    /\ db' = Row(s')
    /\ UNCHANGED <<events, policy, continuation, bounds>>

TurnStarted(t) ==
    /\ turns[t].life = "threaded"
    /\ turns' = [turns EXCEPT ![t].life = "started",
                              ![t].ack = IF @ = "pending" THEN "acked" ELSE @]
    /\ s' = [s EXCEPT !.state = "busy"]
    /\ db' = Row(s')
    /\ events' = Report("turn_started", t)
    /\ UNCHANGED <<policy, continuation, bounds>>

\* turn.completed, with an agent message or without.
TurnCompleted(t, text) ==
    /\ turns[t].life = "started"
    /\ turns' = Over(t, FALSE)
    /\ s' = Idle(t) /\ db' = Row(s')
    /\ events' = IF text THEN Report("reply", t) ELSE Failed(t)
    /\ Settles(t)
    /\ UNCHANGED <<policy, resuming, bounds>>

\* turn.failed, a process that exits or does not start, the turn's time limit.
TurnFails(t) ==
    /\ turns[t].life # "over"
    /\ turns' = Over(t, FALSE)
    /\ s' = Idle(t) /\ db' = Row(s')
    /\ events' = Failed(t)
    /\ Settles(t)
    /\ UNCHANGED <<policy, resuming, bounds>>

-----------------------------------------------------------------------------
(* resetSession: a grant ended or another one begins, or the policy changed. *)

\* Mutant of AfterReset: the thread survives.
AfterResetKept == [Unbound EXCEPT !.thread = s.thread]

AfterReset == Unbound

Reset ==
    /\ IF s.active = 0
       THEN UNCHANGED <<turns, events>>
       ELSE turns' = Over(s.active, FALSE) /\ events' = Failed(s.active)
    /\ s' = AfterReset /\ db' = Row(s')
    /\ Settles(s.active)
    /\ UNCHANGED resuming

\* releaseCommunicationSession.
Release(g) == s.bound = g /\ Reset /\ UNCHANGED <<policy, bounds>>

\* prepareCommunicationSession.
Prepare(g) ==
    /\ s.bound \notin {None, g} /\ s.state # "busy" /\ s.active = 0
    /\ Reset
    /\ UNCHANGED <<policy, bounds>>

\* A relationship policy is written, then invalidateRelationshipSessions; a
\* trusted-tool policy is written only.
PolicyUpdate(access, invalidates) ==
    /\ access # policy /\ changes < MaxChanges
    /\ policy' = access /\ changes' = changes + 1
    /\ IF invalidates /\ s.sender
       THEN Reset
       ELSE UNCHANGED <<s, db, turns, events, continuation>>
    /\ UNCHANGED crashes

-----------------------------------------------------------------------------
(* Continuations: quiesceContinuation, rebuildContinuation, then a delivery.  *)

Rebuild(g) ==
    /\ chk = None /\ s.bound = g
    /\ turns' = IF s.active = 0 THEN turns ELSE Over(s.active, TRUE)
    /\ IF policy = "selected"
       THEN /\ s' = [Idle(0) EXCEPT !.thread = 0]
            /\ chk' = g /\ resuming' = TRUE
       ELSE s' = Idle(0) /\ UNCHANGED <<chk, resuming>>
    /\ db' = Row(s')
    /\ UNCHANGED <<events, policy, resumed, bounds>>

\* A checkpoint that an earlier run left 'resuming' is resumed without a rebuild.
Recover ==
    /\ chk # None /\ resumed = 0
    /\ s.bound = chk /\ policy = "selected"
    /\ resuming' = TRUE
    /\ UNCHANGED <<s, db, turns, events, policy, chk, resumed, bounds>>

\* The session answers the resumption with something else than runtime_acked.
ResumeRefused ==
    /\ resuming /\ ~Admits(chk)
    /\ resuming' = FALSE /\ chk' = None
    /\ UNCHANGED <<s, db, turns, events, policy, resumed, bounds>>

\* Stopped with close(), or killed: the turns end without an event.
Restart ==
    /\ crashes < MaxCrashes
    /\ crashes' = crashes + 1
    /\ turns' = [t \in DOMAIN turns |->
                    IF turns[t].life = "over" THEN turns[t]
                    ELSE [turns[t] EXCEPT !.life = "over", !.silent = TRUE,
                                          !.ack = IF @ = "pending" THEN "refused" ELSE @]]
    /\ s' = Loaded(db) /\ db' = Row(s')
    /\ resuming' = FALSE /\ resumed' = 0
    /\ UNCHANGED <<events, policy, chk, changes>>

Deliveries == \E g \in Grants, kind \in Kinds : Deliver(g, kind) \/ DeliverRefused(g, kind)

Next ==
    \/ Deliveries
    \/ ResumeRefused
    \/ /\ ~resuming
       /\ \/ \E t \in DOMAIN turns :
                 AckTimeout(t) \/ ThreadStarted(t) \/ TurnStarted(t) \/ TurnFails(t)
          \/ \E t \in DOMAIN turns, text \in BOOLEAN : TurnCompleted(t, text)
          \/ \E g \in Grants : Release(g) \/ Prepare(g) \/ Rebuild(g)
          \/ \E access \in Accesses, invalidates \in BOOLEAN : PolicyUpdate(access, invalidates)
          \/ Recover \/ Restart

Spec == Init /\ [][Next]_vars

-----------------------------------------------------------------------------
\* The session, its row and the turns have the shapes the code gives them.
TypeOK ==
    /\ s.state \in {"idle", "busy"} /\ s.bound \in Grants \cup {None}
    /\ s.active \in 0..Len(turns) /\ s.sender \in BOOLEAN
    /\ db = Row(s)
    /\ chk \in Grants \cup {None} /\ resumed \in 0..Len(turns) /\ (resumed # 0 => chk # None)

Fed(id) == {turns[t].grant : t \in {u \in DOMAIN turns : turns[u].thread = id}}

\* A thread serves one communication session, across resets, rebuilds, policy
\* changes and restarts: the adapter implements ConversationBinding.
Binding == INSTANCE ConversationBinding
    WITH Conversations <- 1..MaxTurns + 1, owners <- [id \in 1..MaxTurns + 1 |-> Fed(id)]
ImplementsBinding == Binding!Spec

\* The turn in flight is of the grant the session is bound to, and only then is
\* the session busy.
TurnIsOfTheBinding ==
    /\ s.active # 0 => turns[s.active].grant = s.bound /\ turns[s.active].life # "over"
    /\ s.state = "busy" => s.active # 0
    /\ \A t \in DOMAIN turns : turns[t].life # "over" => t = s.active

\* A reply is of a turn whose start was acknowledged to the injector: one that
\* was given up is not answered after all.
RepliesAreOfAckedTurns ==
    \A i \in DOMAIN events : events[i].type = "reply" => turns[events[i].turn].ack = "acked"

Terminal(t) == {i \in DOMAIN events : events[i].turn = t /\ events[i].type # "turn_started"}

\* A turn that ended is reported once, unless the reply was for context only,
\* the session was quiesced, or the bridge stopped.
TurnsAreReportedOnce ==
    \A t \in DOMAIN turns :
        Cardinality(Terminal(t)) =
            IF turns[t].life = "over" /\ turns[t].kind # "context" /\ ~turns[t].silent THEN 1 ELSE 0
=============================================================================
