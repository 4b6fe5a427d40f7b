--------------------------- MODULE ClaudeSession ---------------------------
(***************************************************************************)
(* One managed session of the Claude Code adapter                           *)
(* (src/adapters/claude-code/claude-code-adapter.ts): deliveries, the       *)
(* release and invalidation of the session, the rebuild for a continuation, *)
(* and the SDK's stream of events.                                          *)
(*                                                                         *)
(* A step is the code from one `await` to the next.  Three callers share    *)
(* the session: the injector and the continuation recovery, which deliver,  *)
(* and the bridge's event loop, which resets it.  The SDK process is        *)
(* external: it replays each input (the echo), answers it later, and ends   *)
(* when it is closed, or when it likes.                                     *)
(***************************************************************************)
EXTENDS Integers, Sequences, FiniteSets

CONSTANTS
    Grants,       \* communication sessions, all with the same sender
    Boundaries,   \* sandbox boundary keys
    None,         \* undefined
    Overlap,      \* the injector and the recovery may be in the session at a time
    MaxTurns,     \* bound: turns pushed
    MaxQueries,   \* bound: SDK processes launched
    MaxChanges,   \* bound: changes of the policy files
    MaxCrashes    \* bound: restarts of the bridge

VARIABLES
    s,        \* the ManagedSession in memory
    db,       \* its row in managed_sessions
    call,     \* caller -> the deliverToSession it is in
    loop,     \* the reset the event loop is in
    awaiting, \* who awaits the end of a stream, in the order they began to
    procs,    \* the SDK processes launched so far; a query is a position here
    policy,   \* the boundary that the policy files give the sender
    ended,    \* grants that ended
    released, \* ended grants whose release was handled
    turns,    \* the grants of the turns pushed so far
    chk,      \* continuation store: the grant of a checkpoint that is 'resuming'
    resumed,  \* #resumedThisProcess holds that checkpoint
    changes,  \* bound
    crashes,  \* bound
    answers   \* answers: answers given to a turn they are not of

world == <<policy, ended, released, changes, crashes>>
vars == <<s, db, call, loop, awaiting, procs, turns, chk, resumed, world, answers>>
checkpoint == <<chk, resumed>>

Callers == {"injector", "recovery"}
Idle == [at |-> "idle", grant |-> None, on |-> 0, turn |-> 0]
NoLoop == [at |-> "idle", grant |-> None, on |-> 0]

Queries == DOMAIN procs

Cold(id, bound) ==
    [state |-> "idle", bound |-> bound, sandbox |-> None, init |-> FALSE, ctx |-> id,
     accepting |-> FALSE, resetting |-> FALSE, query |-> 0, pending |-> {}, turns |-> <<>>]
Row(sess) == [state |-> sess.state, bound |-> sess.bound, init |-> sess.init, ctx |-> sess.ctx]

Discards(row) == row.init /\ row.bound = None

\* loadOrCreateSessions: a conversation that nobody is bound to is discarded;
\* anything else is as it was stored.
Loaded(row, id) ==
    IF Discards(row)
    THEN Cold(id, None)
    ELSE [Cold(row.ctx, row.bound) EXCEPT !.state = row.state, !.init = row.init]

\* What an earlier run may have left: nothing, or a session bound to a grant.
Rows ==
    {Row(Cold(0, None))} \cup
    {[state |-> state, bound |-> g, init |-> TRUE, ctx |-> 0] :
        state \in {"idle", "busy", "closed"}, g \in Grants}

\* The process of the earlier run that served a stored conversation.
Stored(row) ==
    [ctx |-> row.ctx, box |-> None, resume |-> FALSE, life |-> "ended", closing |-> TRUE,
     inbox |-> <<>>, work |-> <<>>, fed |-> {row.bound}]

Init ==
    /\ db \in Rows
    /\ s = Loaded(db, 0)
    /\ chk \in {None, db.bound}
    /\ resumed = FALSE
    /\ call = [c \in Callers |-> Idle]
    /\ loop = NoLoop
    /\ procs = IF db.init THEN <<Stored(db)>> ELSE <<>>
    /\ policy \in Boundaries
    /\ ended = {} /\ released = {}
    /\ turns = <<>>
    /\ changes = 0 /\ crashes = 0
    /\ awaiting = <<>>
    /\ answers = {}

-----------------------------------------------------------------------------
(* Processes.                                                                *)

\* abort, queue.close and query.close.
Closed(q) == [p \in Queries |-> IF p = q THEN [procs[p] EXCEPT !.closing = TRUE] ELSE procs[p]]

Ended(q) == q # 0 => procs[q].life = "ended"

\* The awaits of one stream's end are answered in their order.
Awaited(a) == IF a = "loop" THEN loop.on ELSE call[a].on
Without(a) == SelectSeq(awaiting, LAMBDA b : b # a)
MayGoOn(a) ==
    \E i \in DOMAIN awaiting :
        awaiting[i] = a /\ Ended(Awaited(a)) /\ \A j \in 1..i-1 : ~Ended(Awaited(awaiting[j]))

\* launchSession up to its await: a stored conversation is resumed.
Launched(sess) ==
    Append(procs, [ctx |-> sess.ctx, box |-> policy, resume |-> sess.init, life |-> "starting",
                   closing |-> FALSE, inbox |-> <<>>, work |-> <<>>, fed |-> {}])
CanLaunch == Len(procs) < MaxQueries

\* randomUUID: an id that nothing has.
NewId ==
    LET used == {s.ctx, db.ctx} \cup {procs[q].ctx : q \in Queries}
    IN  CHOOSE id \in 0..Cardinality(used) : id \notin used

Wait(c, at, g, on) ==
    call' = [call EXCEPT ![c] = [at |-> at, grant |-> g, on |-> on, turn |-> 0]]
Return(c) == call' = [call EXCEPT ![c] = Idle]

\* A call of the recovery that ends without an acknowledgement: resume_failed.
Settles ==
    /\ chk' = IF call["recovery"].at # "idle" /\ call'["recovery"].at = "idle" THEN None ELSE chk
    /\ UNCHANGED resumed

-----------------------------------------------------------------------------
(* deliverToSession                                                          *)

\* The answers session_not_found, queued_busy and permission_required change nothing.
Admits(g) ==
    /\ s.state = "idle" /\ ~s.accepting /\ s.pending = {} /\ s.turns = <<>>
    /\ s.bound \in {None, g}

\* Binds the session to the grant and pushes the turn.  A queue that was closed
\* rejects it; one that no process reads keeps the caller waiting.
Push(c, sess, g) ==
    LET t == Len(turns) + 1
        bound == IF sess.bound = None THEN g ELSE sess.bound
        q == sess.query
        on == [sess EXCEPT !.bound = bound]
    IN  /\ t <= MaxTurns
        /\ db' = [db EXCEPT !.bound = IF sess.bound = None THEN g ELSE @]
        /\ IF q # 0 /\ procs[q].closing
           THEN /\ s' = [on EXCEPT !.accepting = FALSE]
                /\ Return(c)
                /\ UNCHANGED <<procs, turns>>
           ELSE /\ s' = [on EXCEPT !.accepting = TRUE, !.pending = @ \cup {t}]
                /\ turns' = Append(turns, g)
                /\ call' = [call EXCEPT ![c] =
                        [at |-> IF q = 0 THEN "push" ELSE "ack", grant |-> g, on |-> q, turn |-> t]]
                /\ procs' = [p \in Queries |->
                        IF p = q THEN [procs[p] EXCEPT !.inbox = Append(@, t), !.fed = @ \cup {g}]
                        ELSE procs[p]]

\* Mutant of NeedsRelaunch: a warm process is used whatever its boundary.
NeedsRelaunchIfCold == s.sandbox = None

NeedsRelaunch == s.sandbox # policy

\* FALSE looks at the behaviours in which the two callers take turns.
Alone(c) == Overlap \/ \A d \in Callers \ {c} : call[d].at = "idle"

\* A message for a grant may come at any time; recovery resumes the checkpoint
\* it has rebuilt the session for, or that an earlier run left.
Delivers(c, g) ==
    \/ c = "injector" /\ call[c].at = "idle" /\ Alone(c)
    \/ c = "recovery" /\ chk = g
       /\ (call[c].at = "resume" \/ (call[c].at = "idle" /\ ~resumed /\ Alone(c)))

DeliverCold(c, g) ==
    /\ Delivers(c, g) /\ Admits(g)
    /\ s.query = 0 /\ s.bound = g
    /\ CanLaunch
    /\ procs' = Launched(s)
    /\ s' = [s EXCEPT !.query = Len(procs')]
    /\ Wait(c, "launch", g, Len(procs'))
    /\ UNCHANGED <<db, loop, awaiting, turns, checkpoint, answers, world>>

\* relaunchForSender up to its first await.
DeliverElsewhere(c, g) ==
    /\ Delivers(c, g) /\ Admits(g)
    /\ ~(s.query = 0 /\ s.bound = g)
    /\ NeedsRelaunch
    /\ procs' = Closed(s.query)
    /\ s' = [s EXCEPT !.resetting = TRUE]
    /\ Wait(c, "drain", g, s.query)
    /\ awaiting' = Append(awaiting, c)
    /\ UNCHANGED <<db, loop, turns, checkpoint, answers, world>>

DeliverWarm(c, g) ==
    /\ Delivers(c, g) /\ Admits(g)
    /\ ~(s.query = 0 /\ s.bound = g)
    /\ ~NeedsRelaunch
    /\ Push(c, s, g)
    /\ chk' = IF c = "recovery" /\ call'[c].at = "idle" THEN None ELSE chk
    /\ UNCHANGED resumed
    /\ UNCHANGED <<loop, awaiting, answers, world>>

\* relaunchForSender once the old consumer has ended: a new conversation.
Relaunch(c) ==
    /\ call[c].at = "drain" /\ MayGoOn(c)
    /\ CanLaunch
    /\ LET cold == [s EXCEPT !.ctx = NewId, !.init = FALSE, !.state = "idle"]
       IN  /\ procs' = Launched(cold)
           /\ s' = [cold EXCEPT !.query = Len(procs')]
           /\ db' = [db EXCEPT !.ctx = NewId, !.init = FALSE, !.state = "idle"]
    /\ Wait(c, "relaunch", call[c].grant, Len(procs'))
    /\ awaiting' = Without(c)
    /\ UNCHANGED <<loop, turns, checkpoint, answers, world>>

\* The process is ready: launchSession records it and the delivery goes on.
Ready(c) ==
    /\ call[c].on # 0
    /\ procs[call[c].on].life = "starting" /\ ~procs[call[c].on].closing

WithProcess(c) ==
    [s EXCEPT !.init = TRUE, !.state = "idle", !.sandbox = procs[call[c].on].box,
              !.resetting = IF call[c].at = "relaunch" THEN FALSE ELSE @]

Up(q, all) == [all EXCEPT ![q].life = "up"]

DeliverReady(c) ==
    /\ call[c].at \in {"launch", "relaunch"} /\ Ready(c)
    /\ LET sess == WithProcess(c)
           q == call[c].on
           t == Len(turns) + 1
           bound == IF sess.bound = None THEN call[c].grant ELSE sess.bound
       IN  IF sess.query = 0
           THEN /\ s' = sess
                /\ procs' = Up(q, procs)
                /\ db' = [db EXCEPT !.init = TRUE, !.state = "idle"]
                /\ Return(c)
                /\ UNCHANGED turns
           ELSE /\ t <= MaxTurns
                /\ s' = [sess EXCEPT !.bound = bound, !.accepting = TRUE, !.pending = @ \cup {t}]
                /\ db' = [db EXCEPT !.init = TRUE, !.state = "idle",
                                    !.bound = IF sess.bound = None THEN bound ELSE @]
                /\ turns' = Append(turns, call[c].grant)
                /\ procs' = Up(q, [procs EXCEPT ![sess.query].inbox = Append(@, t),
                                                ![sess.query].fed = @ \cup {call[c].grant}])
                /\ call' = [call EXCEPT ![c].at = "ack", ![c].on = sess.query, ![c].turn = t]
    /\ Settles
    /\ UNCHANGED <<loop, awaiting, answers, world>>

\* The process ended or was closed before it was ready: runtime_unavailable.
LaunchFails(c) ==
    /\ call[c].at \in {"launch", "relaunch", "rebuild_launch"}
    /\ procs[call[c].on].life = "ended" \/ procs[call[c].on].closing
    /\ s' = IF call[c].at = "relaunch" THEN [s EXCEPT !.resetting = FALSE] ELSE s
    /\ Return(c)
    /\ Settles
    /\ UNCHANGED <<db, loop, awaiting, procs, turns, answers, world>>

\* turnAckTimeoutMs.
AckTimeout(c) ==
    /\ call[c].at = "ack"
    /\ s' = [s EXCEPT !.pending = @ \ {call[c].turn}, !.accepting = FALSE]
    /\ Return(c)
    /\ Settles
    /\ UNCHANGED <<db, loop, awaiting, procs, turns, answers, world>>

-----------------------------------------------------------------------------
(* Resets.                                                                   *)

\* What resetSession and quiesceContinuation do before they await the consumer.
Interrupted == [s EXCEPT !.resetting = TRUE, !.pending = {}, !.turns = <<>>, !.accepting = FALSE]

\* The deliveries whose acknowledgement is rejected.
Rejected ==
    [c \in Callers |->
        IF call[c].at = "push" \/ (call[c].at = "ack" /\ call[c].turn \in s.pending)
        THEN Idle ELSE call[c]]

BeginReset(g) ==
    /\ loop.at = "idle"
    /\ s' = Interrupted
    /\ procs' = Closed(s.query)
    /\ call' = Rejected
    /\ loop' = [at |-> "drain", grant |-> g, on |-> s.query]
    /\ awaiting' = Append(awaiting, "loop")
    /\ Settles
    /\ UNCHANGED <<db, turns, answers>>

NoReset == UNCHANGED <<s, db, call, loop, awaiting, procs, turns, checkpoint, answers>>

\* releaseCommunicationSession, on the event that a grant ended.
Release(g) ==
    /\ loop.at = "idle" /\ g \in ended \ released
    /\ IF s.bound = g
       THEN BeginReset(g) /\ UNCHANGED released
       ELSE NoReset /\ released' = released \cup {g}
    /\ UNCHANGED <<policy, ended, changes, crashes>>

\* prepareCommunicationSession, on the event that a grant was activated.
Prepare(g) ==
    /\ loop.at = "idle" /\ g \notin ended
    /\ s.bound \notin {None, g}
    /\ s.state # "busy" /\ ~s.accepting /\ s.pending = {} /\ s.turns = <<>>
    /\ BeginReset(None)
    /\ UNCHANGED world

\* A policy event: the file is written, then invalidateRelationshipSessions.
\* A trusted-tool policy is written with no invalidation.
PolicyUpdate(key, invalidates) ==
    /\ loop.at = "idle" /\ key # policy /\ changes < MaxChanges
    /\ policy' = key
    /\ changes' = changes + 1
    /\ IF invalidates /\ s.sandbox # None THEN BeginReset(None) ELSE NoReset
    /\ UNCHANGED <<ended, released, crashes>>

AfterReset(id) == Cold(id, None)

FinishReset ==
    /\ loop.at = "drain" /\ MayGoOn("loop")
    /\ s' = AfterReset(NewId)
    /\ db' = Row(s')
    /\ loop' = NoLoop
    /\ awaiting' = Without("loop")
    /\ released' = released \cup ({loop.grant} \ {None})
    /\ UNCHANGED <<call, procs, turns, checkpoint, answers, policy, ended, changes, crashes>>

-----------------------------------------------------------------------------
(* Continuations: quiesce, rebuild, resume (then a delivery).                *)

Quiesce(g) ==
    /\ call["recovery"].at = "idle" /\ chk = None /\ Alone("recovery")
    /\ s.state # "closed" /\ s.bound = g
    /\ s' = Interrupted
    /\ procs' = Closed(s.query)
    /\ call' = [Rejected EXCEPT !["recovery"] = [Idle EXCEPT !.at = "quiesce", !.grant = g, !.on = s.query]]
    /\ awaiting' = Append(awaiting, "recovery")
    /\ UNCHANGED <<db, loop, turns, checkpoint, answers, world>>

\* The binding survives a quiescence.
FinishQuiesce ==
    /\ call["recovery"].at = "quiesce" /\ MayGoOn("recovery")
    /\ s' = Cold(NewId, s.bound)
    /\ db' = [db EXCEPT !.ctx = NewId, !.init = FALSE, !.state = "idle"]
    /\ Wait("recovery", "rebuild", call["recovery"].grant, 0)
    /\ awaiting' = Without("recovery")
    /\ UNCHANGED <<loop, procs, turns, checkpoint, answers, world>>

Rebuild ==
    /\ call["recovery"].at = "rebuild"
    /\ IF s.state # "closed" /\ s.bound = call["recovery"].grant /\ s.query = 0 /\ ~s.init
       THEN /\ CanLaunch
            /\ procs' = Launched(s)
            /\ s' = [s EXCEPT !.query = Len(procs')]
            /\ Wait("recovery", "rebuild_launch", s.bound, Len(procs'))
       ELSE /\ Return("recovery")
            /\ UNCHANGED <<s, procs>>
    /\ Settles
    /\ UNCHANGED <<db, loop, awaiting, turns, answers, world>>

RebuildReady ==
    /\ call["recovery"].at = "rebuild_launch" /\ Ready("recovery")
    /\ s' = WithProcess("recovery")
    /\ db' = [db EXCEPT !.init = TRUE, !.state = "idle"]
    /\ procs' = Up(call["recovery"].on, procs)
    /\ Wait("recovery", "resume", call["recovery"].grant, 0)
    /\ chk' = call["recovery"].grant /\ resumed' = FALSE
    /\ UNCHANGED <<loop, awaiting, turns, answers, world>>

\* The session answers the resumption with something else than runtime_acked.
ResumeRefused ==
    /\ call["recovery"].at = "idle" /\ ~resumed
    /\ chk # None /\ ~Admits(chk)
    /\ chk' = None
    /\ UNCHANGED <<resumed, s, db, call, loop, awaiting, procs, turns, answers, world>>

\* The reply or the failure of the resumed turn is handled.
ContinuationEnds ==
    /\ resumed /\ chk' = None /\ resumed' = FALSE
    /\ UNCHANGED <<s, db, call, loop, awaiting, procs, turns, answers, world>>

-----------------------------------------------------------------------------
(* handleSdkEvent and consumeSession.                                        *)

Running(q) == q \in Queries /\ procs[q].life = "up"

Heeded(t) == t \in s.pending

\* The SDK replays an input.  One that nobody waits for any more runs all the same.
Echo(q) ==
    /\ Running(q) /\ procs[q].inbox # <<>>
    /\ LET t == Head(procs[q].inbox)
       IN  /\ procs' = [procs EXCEPT ![q].inbox = Tail(@), ![q].work = Append(@, t)]
           /\ IF Heeded(t)
              THEN /\ s' = [s EXCEPT !.pending = @ \ {t}, !.turns = Append(@, t),
                                     !.state = "busy", !.accepting = FALSE]
                   /\ db' = [db EXCEPT !.state = "busy"]
                   /\ call' = [c \in Callers |-> IF call[c].turn = t THEN Idle ELSE call[c]]
              ELSE UNCHANGED <<s, db, call>>
    /\ resumed' = (resumed \/ call'["recovery"] # call["recovery"])
    /\ UNCHANGED <<chk, loop, awaiting, turns, answers, world>>

\* An answer is taken to be that of the turn at the head of the queue.
Result(q) ==
    /\ Running(q) /\ procs[q].work # <<>>
    /\ procs' = [procs EXCEPT ![q].work = Tail(@)]
    /\ IF s.turns = <<>>
       THEN s' = [s EXCEPT !.state = "idle"] /\ UNCHANGED answers
       ELSE /\ s' = [s EXCEPT !.turns = Tail(@),
                              !.state = IF Len(s.turns) > 1 THEN "busy" ELSE "idle"]
            /\ answers' = answers \cup ({[to |-> Head(s.turns), of |-> Head(procs[q].work)]}
                                         \ {[to |-> t, of |-> t] : t \in DOMAIN turns})
    /\ db' = [db EXCEPT !.state = s'.state]
    /\ UNCHANGED <<call, loop, awaiting, turns, checkpoint, world>>

\* The stream ends: quietly, or with an error, which rejects what is pending.
StreamEnds(q, error) ==
    /\ q \in Queries /\ procs[q].life # "ended"
    /\ procs' = [procs EXCEPT ![q].life = "ended", ![q].inbox = <<>>, ![q].work = <<>>]
    /\ LET closes == error \/ ~s.resetting
           sess == IF error THEN [s EXCEPT !.pending = {}, !.accepting = FALSE] ELSE s
       IN  /\ s' = IF closes THEN [sess EXCEPT !.state = "closed"] ELSE sess
           /\ db' = IF closes THEN [db EXCEPT !.state = "closed"] ELSE db
           /\ call' = IF error
                      THEN [c \in Callers |->
                                IF call[c].at = "ack" /\ call[c].turn \in s.pending THEN Idle ELSE call[c]]
                      ELSE call
    /\ Settles
    /\ UNCHANGED <<loop, awaiting, turns, answers, world>>

-----------------------------------------------------------------------------
(* The world: grants end, the bridge stops or dies and is started again.      *)

EndGrant(g) ==
    /\ g \notin ended
    /\ ended' = ended \cup {g}
    /\ UNCHANGED <<s, db, call, loop, awaiting, procs, turns, checkpoint, policy, released,
                   changes, crashes, answers>>

\* Stopped with close(), or killed: the row says the same.
Restart ==
    /\ crashes < MaxCrashes
    /\ crashes' = crashes + 1
    /\ s' = Loaded(db, NewId)
    /\ resumed' = FALSE
    /\ db' = Row(s')
    /\ procs' = [q \in Queries |-> [procs[q] EXCEPT !.life = "ended", !.closing = TRUE,
                                                       !.inbox = <<>>, !.work = <<>>]]
    /\ call' = [c \in Callers |-> Idle]
    /\ loop' = NoLoop
    /\ awaiting' = <<>>
    /\ UNCHANGED <<policy, ended, released, turns, chk, changes, answers>>

\* What an await of something already settled leads to runs before anything else
\* the process does.
Continues(c) ==
    \/ call[c].at \in {"drain", "quiesce"} /\ Ended(call[c].on)
    \/ call[c].at \in {"rebuild", "resume"}
Continuing == (loop.at = "drain" /\ Ended(loop.on)) \/ \E c \in Callers : Continues(c)

Deliver == \E c \in Callers, g \in Grants :
    DeliverCold(c, g) \/ DeliverElsewhere(c, g) \/ DeliverWarm(c, g)

Continue ==
    \/ \E c \in Callers : Relaunch(c)
    \/ FinishReset \/ FinishQuiesce \/ Rebuild
    \/ /\ call["recovery"].at = "resume"
       /\ \E g \in Grants : DeliverElsewhere("recovery", g) \/ DeliverWarm("recovery", g)

Next ==
    \/ Continue
    \/ /\ ~Continuing
       /\ \/ Deliver \/ ResumeRefused \/ RebuildReady \/ ContinuationEnds
          \/ \E c \in Callers : DeliverReady(c) \/ LaunchFails(c) \/ AckTimeout(c)
          \/ \E g \in Grants : Release(g) \/ Prepare(g) \/ Quiesce(g) \/ EndGrant(g)
          \/ \E key \in Boundaries, invalidates \in BOOLEAN : PolicyUpdate(key, invalidates)
          \/ \E q \in Queries : Echo(q) \/ Result(q)
          \/ \E q \in Queries, error \in BOOLEAN : StreamEnds(q, error)
          \/ Restart

Spec == Init /\ [][Next]_vars

-----------------------------------------------------------------------------
States == {"idle", "busy", "closed"}

\* The rows and the callers have the shapes the code gives them.
TypeOK ==
    /\ s.state \in States /\ db.state \in States
    /\ s.bound \in Grants \cup {None} /\ db.bound \in Grants \cup {None}
    /\ s.sandbox \in Boundaries \cup {None}
    /\ s.query \in 0..Len(procs) /\ s.pending \subseteq DOMAIN turns
    /\ \A c \in Callers : call[c].on \in 0..Len(procs) /\ call[c].turn \in 0..Len(turns)

Fed(id) == UNION {procs[q].fed : q \in {p \in Queries : procs[p].ctx = id}}

\* A provider conversation is only ever given turns of one grant, whatever is
\* reset, relaunched, rebuilt or restarted in between: the adapter implements
\* ConversationBinding.
Binding == INSTANCE ConversationBinding
    WITH Conversations <- 0..MaxQueries + 1, owners <- [id \in 0..MaxQueries + 1 |-> Fed(id)]
ImplementsBinding == Binding!Spec

\* An answer is never taken for that of a turn of another grant, not even that
\* of a turn whose acknowledgement timed out.
AnswersStayInTheirGrant == \A a \in answers : turns[a.to] = turns[a.of]

\* A process that is already up is given a turn only when it has the boundary
\* that the policy files give the sender at that moment.  (After a launch that
\* failed the session still has the boundary of the process before; a turn may
\* then be pushed to the process that ended, which never runs it.)
WarmTurnsFitThePolicy ==
    [][\A c \in Callers :
          (/\ call[c].at \in {"idle", "resume"} /\ call'[c].at = "ack"
           /\ procs[call'[c].on].life # "ended")
              => procs[call'[c].on].box = policy]_vars
=============================================================================
