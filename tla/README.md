# A verification project for the Aicoo local agent

The Aicoo local agent lets a person's coding agent receive messages from other
people's agents. A *control plane* keeps endpoints, grants and messages; a
*bridge* on each machine streams the events addressed to it, spools the messages
and injects them into a runtime (Claude Code or Codex) through an *adapter*. A
separate, smaller program, the *DM agent*, answers a person's direct messages.

This directory holds TLA+ models of the parts that are hard to get right, TLC
configurations that check them on small instances, and TLAPS proofs of some of
their properties. `PROJECT.json` lists the runs, the theorems, the source lines
behind every definition, and for every checked property a mutation of the model
that violates it.

Run a configuration with `tlc -config X.cfg M`, where `M` is the module that
section 3 names for it, and check a proof module with `tlapm M.tla`.

## 1. The system

### Control plane (`src/src/control-plane`)

State: one SQLite database with endpoints, runtime sessions, default routes,
target offers, communication sessions, messages, deliveries, inbox items and a
per-endpoint event log. Every service method runs without an `await` on one
synchronous connection, so a method is atomic. Deadlines are noticed lazily:
`expireIfNeeded` runs when somebody looks a session up.

A grant is requested, then accepted, declined, or lapses. Acceptance freezes the
route (endpoint and session) that all its messages take. An accepted grant is
revoked or expires, and each of these closes the deliveries still open.

Correct when: at most one live grant occupies a runtime session; messages take
the frozen route; numbering is dense; a client id names one message; an ended
grant leaves nothing open; the log tells every party what happened.

### Bridge (`src/src/bridge`)

State: a durable spool (messages, attempts to report, cursors, session mapping,
grant cache, outbound replies, pending delegations) and, in memory, the map from
server to native handles, the pending default route and the loops.

Eight kinds of loop share a thread and interleave at every `await`: the event
stream, the injector, the heartbeat, pending delegations, outbound replies,
adapter events, tool usage reports and continuation recovery. They meet in the spool, with no
transaction across an `await`.

Correct when: an accepted turn is never queued again; messages of a session are
injected in order; an ended grant stops delivery; the cursor skips nothing; what
is reported happened; every spooled message is settled; the stream never wedges.

### Adapters (`src/src/adapters`)

State: per managed session, in memory and in a row of a table, its state, the
communication session it is bound to and the provider conversation it resumes;
for Claude also a running SDK process with an input queue, the acknowledgements
that are awaited and the sandbox boundary the process was started with; for Codex
the turn in flight. Operations: deliver, prepare, release, invalidate, quiesce,
rebuild, resume, restart, and the handlers of the runtime's stream.
Correct when: a provider conversation is only ever given turns of one grant; an
answer is attributed to its own turn; a running process is used only under the
boundary that the policies give at that moment; a turn that ended is reported
once.

### Continuations, approvals, policies (`src/src/shared`, `src/src/security`)

A tool call outside its session's boundary becomes a durable checkpoint:
approved, session rebuilt, attested, resumed, completed. The waiting call, the
recovery loop and the adapter's event loop share the checkpoints. Policies are
files, rewritten as a whole by the bridge and by the command line, and updated
by events that carry revisions. Every tool call is decided by the grants as they
are now and by the access captured when its session was launched.
Correct when: a continuation resumes only with what the owner approved and once
in a process; a revocation is final; no session keeps what an update took away; a
call never gets the sum of what two grants give.

### Background services of the bridge

Delegations (a row per task, retried by two callers, answered by the control
plane's `delegate`), outbound replies (adapter events under a saved cursor, then a
table that one loop sends), and the heartbeat with the event stream, which share
one device token, one recovery and one budget of time.
Correct when: a task is sent once and under one grant; replies of a session
arrive in order; nothing waits for ever; the bridge gives up on its credentials
when, and only when, nothing has succeeded for the whole timeout.

### DM agent (`src/dm-agent`)

One process per state directory: two reply loops (a named peer, or visitors on
share links) with cursors and failure counts; turns of a runtime, each
conversation with a session of its own; a gate before every tool call, which
refuses, allows, or asks the owner in the terminal and through a file; an idle
clock; an outbox of decision rows; a lock; a restart when the service cannot be
reached. Correct when: a question is answered once or given up after its
attempts; nothing off limits is allowed and nothing else without the owner; no
turn hangs; no row is lost; one agent runs and restarts no more often than its
limits; no visitor's turn sees another's session.

### What makes these parts hard

* Answers that are stale when used: validation, then an `await`, then delivery.
* Two loops writing the same spool row, the last writer winning.
* Crashes between two local transactions, and between a remote effect and its record.
* Requests that fail for the caller and are processed all the same, possibly later.
* Lazy expiry: a row says "active" long after its deadline.
* Retries bounded by counters that not every path increments.

`PROJECT.json` lists each hazard at the line where it bites, with the properties
that cover it, or the reason why none does.

## 2. The modules

| module | models |
|---|---|
| `DeliveryTable` | the status column of `deliveries` and the guarded UPDATEs that move it; used by `ControlPlane` and `BridgeDelivery` |
| `ControlPlane` | endpoints, sessions, routes, offers, grants, messages, deliveries, event log |
| `DeliveryLifecycle` | abstract: what the control plane promises about grants and deliveries |
| `BridgeDelivery` | one bridge: event loop, injector, spool, runtime, unreliable connection, crashes |
| `Delegation` | tasks handed to a peer's agent, in the spool and in the control plane |
| `OutboundReplies` | runtime events, adapter cursors, the table of replies and the loop that sends them |
| `Heartbeat` | device token, its recovery, the budget, the default route, the health record |
| `ClaudeSession`, `CodexSession` | one managed session of either adapter |
| `ConversationBinding` | abstract: what both adapters promise about provider conversations |
| `Continuation` | checkpoints of tool calls outside the boundary, their recovery and their completion |
| `PolicyStore` | the file of trusted-tool policies and its two writers |
| `RelationshipUpdates` | the relationship policy file and the sessions its updates reset |
| `ProjectAccess` | what grants allow: at a launch, for an action, in a snapshot (operators only) |
| `ToolDecision` | the decision of a tool call while grants change |
| `DmAgent` | the reply loops of the DM agent with its state file |
| `DmGate` | its approval gate, grants, pending files and idle clock |
| `DmHost` | its lock and its self-restart |
| `DmOutbox` | its outbox of decision rows |
| `DmTurn` | its turns and the sessions they resume |
| `SequenceRows`, `SequenceLemmas` | what is left of a table's rows, and the facts about it that the proofs use |
| `ControlPlaneProofs`, `BridgeDeliveryProofs`, `BridgeSpoolProofs`, `ServicesProofs`, `AdaptersProofs`, `AccessProofs`, `DmProofs` | theorems |
| `MCControlPlane`, `MCBridgeDelivery`, `MCServices`, `MCAdapters`, `MCAccess`, `MCDm` | instances for TLC |

`MCServices`, `MCAdapters`, `MCAccess` and `MCDm` hold several modules each. `part`,
chosen in `Init`, says which of them runs in a behaviour; the others keep their
first value, so that no state is multiplied by the states of another part. Where
two parts meet in the code (a policy file and the decision that reads it, a gate
and the turn that calls it), each module leaves open what it gets from the other:
any grant may change at any time, any call may be made.

### ControlPlane

One action per service method: `Register`, `RegisterSession`, `UpdateSession`
(also `closeSession`), `SetDefaultRoute`, `ClearDefaultRoute`, `CreateOffer`,
`RevokeOffer`, `Request`, `Accept`, `Decline`, `Revoke`, `Send`, `SendInbox`,
`MarkDispatched`, `Acknowledge`. A method that looks a session up expires it
first when it is due: the result is the action `ExpireIfNeeded`, and the other
actions on that session require that it is not due. `Accept` first expires the
lapsed grants on its route (`StaleOn`), as the code does. `message[m]` joins a row of `messages`
with its row of `deliveries`. Time is a counter bounded by `MaxTime`; the
lifetimes are constants. Audit rows, labels, presence, payloads and hashes are
left out: nothing in the model reads them.

### BridgeDelivery

A step of the bridge is the code from one `await` to the next. `pc` names what
the injector awaits (`flush_validate`, `inject_deliver`, `turn_ack`, ...), `evPc`
what the event loop awaits. A request to the control plane is served in a step of
its own (`Serve...`); then the caller sees the answer, or a failure
(`RequestFails`, `EventAcknowledgeFails`) whether or not it was served. An
abandoned acknowledgement joins `late` and may be processed at any later time.

`runOnce` works on three snapshots (`reports`, `received`, `injectable`), as in
the code; the event loop changes the rows underneath. The runtime refuses, or
queues the turn (`PushTurn`) and then accepts it (`AcceptTurn`) or times out
(`TurnTimeout`). `Crash` may happen between any two steps, `CrashRecording`
between the two transactions that record an accepted turn. `Restart` finds the
session under its old handle or, when its update failed, not (`known`).

`pushed`, `accepted` and `overdue` are history variables; no guard
reads them except the bound `MaxPush`.

The model has one bridge and one target session. The grant cache is left out (the
bridge writes it and never reads it). Delivery hooks and telemetry have no
effect on the rest. The clocks of bridge and control plane agree.

### DmAgent

`pc` is the `await` the loop is parked on: the poll, the turn, the send of an
answer or of a failure report. `SendLost` is a failure after which the hosted
service may or may not have stored the reply; `withRetry` makes `SendAttempts`
requests. `mode` is chosen at the start from the constant `Mode`. In mode
`"peer"` replies carry an idempotency key, which the hosted
service is taken to honour (`Stored`, external to this repository); in mode
`"guest"` they carry none. `Stop` is the first signal, `Die` a second signal or a
kill. The state file survives both. `failed` and `baseline` are history.

### Delegation, OutboundReplies, Heartbeat

`Delegation`: a caller (`retryPendingDelegations` of the loop, the same of the
activation handler, a command of the local helper) works through the rows it has
listed, one request at a time; the control plane's `delegate` is the step that
asks for a grant, sends under one, or answers from the row it has. A request or
its answer may be lost, a request that was given up may be served later
(`stray`), and the answer overwrites whatever the row says by then.

`OutboundReplies`: one reader per managed session handles the event after its
cursor (store, then save the cursor: a kill in between replays it); one loop
sends what is pending in the order of the table and breaks off at a send that has
to be repeated. The bridge's hook before a message leaves may fail.

`Heartbeat`: tokens are numbers, `valid` is the one the control plane accepts.
Both loops enter the single-flight recovery, which reads the saved token or
registers again. `good` is history: the time since anything succeeded.

### ClaudeSession, CodexSession, ConversationBinding

A step is the code from one `await` to the next. In `ClaudeSession` three callers
are in the session: the injector, the continuation recovery and the event loop
(`loop`), which resets it. The SDK process is external: it echoes an input,
answers it later, and ends when its input is closed or when it likes. `procs`
holds the processes, `turns` what was pushed, `answers` which turn an answer was
taken for. `Overlap` says whether injector and recovery may deliver at the same
time, see section 6. In `CodexSession` closing a turn ends its stream at once, so
a reset is one step. `ConversationBinding` is the abstract specification: a
provider conversation gets its owner once. The mapping takes as a conversation's
owners the grants of the turns it was given.

### Continuation

`waiter[c]` is the waiting call, `step[c]` the recovery of the checkpoint
(quiesce, rebuild, attest, resume), `events` what the adapter has to report,
`stopped` the point between storing a reply and completing its checkpoint. The
control plane's approval and what it activates (`asked`) are external: covering
the call, narrower, or something else; it may be revoked or never arrive.

### PolicyStore, RelationshipUpdates, ProjectAccess, ToolDecision

`PolicyStore`: two writers read the file, compute a new document, and write it
(`writing`); a document that was computed before the other process's rename is
`stale`, and `raced` remembers that one was renamed into place, which the code
does not prevent. `kept` has the policies that an event found as it gives them:
the code keeps the record and does not record the revision. `run` numbers the
launches of the bridge, since a policy may be bound to one. `RelationshipUpdates`: the handler writes the file, resets the sessions of
that collaborator, then acknowledges the MCP grants (`handling`); sessions are
launched and end meanwhile. `ProjectAccess` has operators only: `AccessFor` (the
folders and the preset of a launch), `Authorize`, and `SnapshotAllows`. A path is
a sequence of names. `ToolDecision` runs them: a session is launched, the owner
changes grants, a call is decided by both.

### DmGate, DmHost, DmOutbox, DmTurn

`DmGate`: a call is what the gate tells apart (the tool, the place it reaches,
what a grant for it is about), a slot is an open question with its file. The
runtime (Claude or Codex), the capabilities and whether the visitor is a guest
are chosen in `Init` from `Scenes`, with the calls of the behaviour. `decided`
is the last decision; `agreed` what the owner said yes to; `strayed` remembers a
question that outlived its turn. `DmHost`: the lock is read, then written, with
other processes in between; time is a counter. `DmOutbox`: `waiting` is the
memory, `saved` the file, `torn` a half-written last line. `DmTurn`: a session
holds what was said in it (`content`), may be lost by the runtime, and a turn
that was refused a resumption runs once more without it.

## 3. The runs

| run | module | bounds | shows |
|---|---|---|---|
| `ControlPlaneGrants` | `MCControlPlane` | 2 principals, 2 sessions, 1 offer, 2 grants, 1 message, 2 ticks | `OneLiveGrantPerRoute`: acceptances by offer and by default route, with lapsed grants in the way, never leave two live grants on a session; `NoOpenDeliveryUnderEndedGrant`; refinement of `DeliveryLifecycle` (`ImplementsLifecycle`) |
| `ControlPlaneMessages` | `MCControlPlane` | 3 sessions, 1 grant, 2 messages, 2 client ids, 1 tick | `MessagesStayOnFrozenRoutes`, `SequencesAreDense`, `OneMessagePerClientId`, `LogIsTruthful` |
| `BridgeOneMessage` | `MCBridgeDelivery` | 1 message, 2 attempts, 1 crash, a completed collaboration, every end of the grant | `ReportsAreTruthful`, `SpoolFollowsControlPlane`, `NothingSkipped`, `EndedGrantHasNoStuckRow`, `AcceptedTurnIsNeverReplayed` |
| `BridgeOrder` | `MCBridgeDelivery` | 2 messages, 1 attempt, 1 crash, the session stays open, the grant ends by revocation only | `AtMostOneOverduePush`, `InjectionInOrder` |
| `BridgeSettles` | `MCBridgeDelivery` | fairness, 2 messages, the first with a handler that throws, 2 attempts, no crash | `SpooledIsSettled`, `StreamIsDrained` |
| `BridgeServices` | `MCServices` | fairness; 2 tasks and 2 grants with two requests, or one with a loss and a crash; 2 sessions, 3 events, 1 fault; 3 tokens, 1 fault, a timeout of one tick | `DelegationSound`, `RepliesInOrder`, `FatalIsDeserved`, `ServicesSettle` |
| `AdapterSessions` | `MCAdapters` | 2 grants, 2 boundaries, 2 turns, 2 processes, 1 policy change, 1 restart | `Bindings` (both adapters implement `ConversationBinding`), `Answers`, `ClaudeBoundary` |
| `AccessControl` | `MCAccess` | two nested folders, 2 policies, 1 change; a hosted and a local policy, 2 events, 2 uses, 2 faults; 2 calls, 1 restart, 1 fault; 2 sessions, 2 collaborators, 2 updates, 1 restart, 1 fault | `AccessIsExact`, `PoliciesAreSound`, `ContinuationIsSound`, `NothingRevokedIsKept` |
| `DmLoops` | `MCDm` | fairness; both loops, 2 questions, 2 attempts, 2 requests per reply, 1 exit; 6 scenes, 2 questions at a time, 3 calls, 2 turns; 2 processes, 6 ticks, 3 launches; 3 rows, a backlog of 2, 1 fault, 1 kill; 2 visitors, 4 sessions, 1 loss | `PassedQuestionsAreSettled`, `AttemptsAreBounded`, `OneReplyPerQuestion`, `LoopCatchesUp`, `GateHolds`, `HostSound`, `HostSettles` |

`ControlPlaneGrants`, `BridgeOneMessage` and the last four runs also check their
`TypeOK`. Some properties join the properties of several modules, each stated and explained
in its own module:

| property | is |
|---|---|
| `DelegationSound` | `DelegatedWasSent`, `SentOnce` |
| `ServicesSettle` | `DelegationsSettle`, `RepliesSettle`, `DeadCredentialsAreFatal` |
| `Answers` | `AnswersStayInTheirGrant`; `TurnIsOfTheBinding`, `RepliesAreOfAckedTurns`, `TurnsAreReportedOnce` |
| `AccessIsExact` | `NoRightsMix`, `SelectionIsExact` |
| `PoliciesAreSound` | `RevocationIsFinal`, `UsesAreAccounted` |
| `ContinuationIsSound` | `ResumedAsApproved`, `ResumedOncePerProcess`, `CompletedHasAnswer`, `MovesOn` |
| `GateHolds` | `WallsHold`, `AllowedByOwner`, `GuestLeavesNothing`, `ClockWaitsForOwner`, `CancelledMeansNo` |
| `HostSound` | `OneAgent`, `RestartsAreLimited`; `RowsAreAccounted`, `RowsWaitInOrder`; `SessionsAreIsolated`, `AnswerIsRemembered` |
| `HostSettles` | `DmGate!TurnsEnd`, `OutboxDrains`, `DmTurn!TurnsEnd` |

Three runs state what a document, a comment or a test says of the program, and TLC
refutes it.

| run | module | statement | what happens |
|---|---|---|---|
| `BridgePendingForever` | `MCBridgeDelivery` | injector.test.ts:51, a rejection is reported so that nobody waits forever | a rejection met while a report is flushed is not reported |
| `DmPeerSkips` | `DmAgent` | dm-agent/src/cli.js:771, "leave the cursor; try this one again" | the `break` leads to line 783, which moves the cursor past the question |
| `ClaudeKeepsRevokedGrant` | `MCAccess` | docs/RELATIONSHIP-POLICY.md:139-141, an active session cannot retain revoked capability | a session that is being launched is not yet attributed to its collaborator, so the update passes it over |

### Why the bounds are enough for what is asked

Two grants are what a conflict over a route needs, and a third session is what a
moved route needs. Two client ids and two messages give a duplicate, a
distinct message and a reply in the other direction. With one message the
injector's whole cycle is explored with retries; two are needed for order, and the
properties speak of pairs. Two attempts give one retry and the limit; one crash
reaches every point of the cycle, and a second one finds the same durable
states again. The proofs below do not depend on these bounds.

A session of an adapter meets the next grant, the next turn and the next process
with two of each, and one restart finds every stored row. Two tasks share a grant
or have one each; three events of two sessions give one session two replies
behind the other's. Two updates of a relationship, and two events of a trusted-tool policy, give a
grant and its removal; a third event of a policy adds the one exception of
`StaysRevoked` (section 6), with which the property was checked for three as well. Two nested folders give every relation of two
grants that the code tells apart. Two visitors and a lost session are what a
mix-up needs; a backlog of two overflows with three rows; two processes compete
for a lock, and six ticks hold a whole rate window.

`VIEW WithoutLog` in `ControlPlaneGrants` leaves the event log out of the
state: no guard reads it. `AnnAsksBob` fixes who asks whom, `SYMMETRY` exchanges
messages and grants (safety runs only). `SessionStaysOpen` and `NobodyLapses` are
state constraints of `BridgeOrder`; the other bridge runs do without. Deadlock is
not checked where messages, crashes, calls or questions are bounded and their
users may simply stop, which is every run but those of the control plane.

### Fairness

`BridgeDelivery!Fairness`: the loops are `while` loops that only stop with the
process, so each is weakly fair; the process is restarted by its supervisor or its
owner; every awaited call ends because requests, turn acceptance and adapter resets
have timeouts; and from some point on the control plane answers (`Connected`),
since a retry loop promises nothing while the network is down for ever. Nothing
is assumed of users, of the clock or of what the runtime answers.

`SpooledIsSettled` says that a spooled row reaches a settled status, not that it
keeps it: `markResult` may overwrite a blocked row, which is then settled again.
After a crash it is false as it stands, because a row left at `injecting` is in
none of the lists until the grant ends; `EndedGrantHasNoStuckRow` says that the
end of the grant clears it. `StreamIsDrained` says "infinitely often, everything
is handled"; as the log of the model is finite, that is every event of it. The
other properties of the form `[]<>` are meant in the same way.

`MCServices!Spec`: the same for the loops of `Delegation`, `OutboundReplies` and
`Heartbeat`; deadlines pass because the clock runs; losses are bounded, so that a
retry is answered in the end, and nothing is assumed of which answer it gets.

`DmAgent!FairSpec` and `MCDm!DmSpec`: the loop, its turns and its sends end (they
have timeouts), a stopped agent is started again, timers fire, and a poll of the
outbox is answered. Which way a turn ends is left open: with every turn failing,
the loop still catches up. Neither the owner nor a runtime has to do anything:
`DmGate!Fairness` has only the timers of the questions and the idle clock.

## 4. The proofs

Seven proof modules prove, for every value of the constants, the safety that the runs
show on small instances, with 38 theorems and the lemmas they rest on; `PROJECT.json` lists the theorems. Each safety property follows
from an invariant that is inductive, `Init => IInv`, `IInv /\ [Next]_vars =>
IInv'`, with a lemma per action or group of actions.

### Control plane (`ControlPlaneProofs`)

Any number of principals, endpoints, sessions, offers, grants and messages, any
lifetimes: `RouteExclusive`, `EndedGrantsAreSettled`, `RoutesAreFrozen`,
`NumberingIsDense`, `SendIsIdempotent`, `ControlPlaneTypes`, `LogTruthful` and
`LifecycleImplemented`.

The first five follow from `ControlPlaneInvariant`, whose `IInv` adds two parts to
the five: `RowsOK` (the types of the rows: "live" compares deadlines with the
clock, and `Accept` clears a route by such comparisons) and
`MessagesKnowTheirGrant` (the grant of a message is neither absent nor pending).
The second is what makes the others inductive together: `Request` may not reuse
the grant of existing messages, or their numbering and targets would belong to
another grant, and `Accept`, which writes the route, may not change the route of a
grant that has messages. `NextSequence` is shown to be one more than the number of
messages the grant has, from density and the finiteness of `Msg`.

`LogTruthful` needs `LInv` on top: what is on a log was caused by a grant that was
activated (`ActivationsAreTold`), an end on a log is for good (`EndsAreFinal`), and
what is dispatched is a known message of that grant. The events that `Accept` and
the ends of grants append are described by `Extends`, what a log gains, so that the
recursive function behind them is looked at once. `LifecycleImplemented` is the
refinement of `DeliveryLifecycle`: the mapped initial state is its initial state,
and each action maps to one of its steps or to a stutter, by `IInv`.

Assumptions: owners and hosts are functions, times are naturals, `Msg` is finite
(for the maximum in `NextSequence`), `None` is not an element of the other sets.

### Bridge (`BridgeDeliveryProofs`, `BridgeSpoolProofs`)

Any messages, sessions, crashes, attempts and pushes. `NoReplay`: no row the
injector holds, in its list or in hand, is in a state from which the event loop
makes it injectable; the row in hand is not injectable once `markInjecting` has
run; and the row of an accepted message is in none of those states, in no list,
and not in hand before another push. It is needed because `markResult` overwrites
rows: the claim holds not by a guard on the push but because no path leads an
accepted row back.

* `TruthfulReports`, `SpoolFollows`: `DeliveriesLead` (whatever a row, a list, a
  report or the event in hand says, the control plane's row is as far) and
  `ReportsHold` (every report, stored, in a snapshot, in flight or given up, is
  true: an acknowledgement is of an accepted turn, a final failure of one that is
  given up). The strengthening speaks of the given-up requests, since the control
  plane may process them at any later time.
* `NothingIsSkipped`, `InOrder`: the log is in the order of the sequence numbers,
  every row has its dispatch at or before the event being handled, the list has
  one message of a session, and what is on it or in hand was put there after the
  earlier ones were resolved, which they stay.
* `NoStuckRow`, `OneOverdueAtMost`: a handled end is final, and a validation that
  came before it can be used for one message of the session.
* `BridgeTypes`.

Assumptions: `MessageAssumption` (a message is of one grant, with a number that is
its own there) and naturals as bounds.

### Background services (`ServicesProofs`)

`DelegationIsSound` rests on the answers: one that says "delegated" is backed by a
stored message from the moment the control plane gives it, so that it may be
recorded late, lost, or overwrite a newer row. `RepliesArriveInOrder`: neither what
is in flight nor what is about to be sent has a reply of its session before it that
could still be sent. `FatalIsAlwaysDeserved`: the budget is never older than the
last success. `ServiceTypes`. Assumptions: `ServicesAssumption`, `None` distinct
from what it stands beside, finitely many streams, naturals as bounds.

### Adapters (`AdaptersProofs`)

Any grants, boundaries, turns, processes, policy changes and restarts:
`AdapterTypes`, `AnswersAreTruthful`, `WarmTurnsFit` and `BindingsImplemented`, the
refinement of `ConversationBinding` by both adapters.

* Claude: the processes of a conversation were given turns of one grant, those of
  the session's conversation of the session's (`ConversationsAreSeparate`); the
  turns that wait in the session or in a process are of the grants they should be
  (`TurnsAreOfTheGrant`); and a process that still runs is the session's or was
  given nothing (`OthersAreUnfed`), so that no answer of an abandoned one can be
  taken for that of another grant. What makes these inductive are the rules of whoever
  awaits something: `CallerRules` (between its awaits a caller finds the process it
  left, or none), `LoopRules` (a reset that awaits the end of a process), and
  `BoundaryIsKnown`. A step either pushes no turn (`NoTurn`) or pushes one of one
  grant (`Turn`), which is all that the refinement and the boundary need to know.
* Codex: `TurnIsOfTheBinding`, `ThreadsAreSeparate` (a thread has one grant, the
  session's thread the session's), `LifeRules` (what is known of a start that is
  pending, acknowledged or refused) and `ReportsAreUnique`. Every end of a turn is
  described by `AllOver` and `Rests`, so that they are dealt with in one lemma.

Assumptions: `AdaptersAssumption` (`None` is no grant and no boundary, the bounds are
naturals), and `~Overlap` for all four: the injector and the continuation recovery
are not in the session at once. With `Overlap` the statements are false for Claude
(section 6); the lemmas about Codex do not use it.

### What collaborators may do (`AccessProofs`)

* `NothingRevokedKept`: the file holds what the newest acknowledged update of a peer
  or a later one gave, and every session that no reset has missed holds what the
  file grants, but for those of the peer about to be reset.
* `ContinuationAlwaysSound`: where an execution is, what was injected and what the
  owner has answered all follow from the state of the checkpoint, and every step of
  every loop moves that state on or leaves it.
* `AccessAlwaysExact`: what was captured at a launch allows a tool exactly in the
  folders of the grants that allow it (`SnapshotIsGranted`), so that a path that
  passes both checks passes one grant of the launch by itself (`RightsAreNotMixed`),
  and while the grants stay, whatever a grant allows passes both
  (`NothingIsRefused`). This one is for the folders and policy ids `MCAccess` gives.

* `PoliciesAlwaysSound`, for any hosted and local policies, presets, events, uses,
  crashes, lost and refused reports, and both processes that write the file. A
  revocation can come undone, or a use be lost, in any step that replaces the whole
  file, and the step that does it is not the one that went wrong. `StoringInv`
  therefore says of every document that a process is about to write what it says of
  the file, as long as no process has overwritten the other (`~raced`): what it
  accounts for (`Accounted`), that it is a step from the file in which nothing goes,
  no revision goes back and nothing becomes active but by a newer event
  (`WriteIsStep`), and that uses are on the first active record of a policy only
  (`RecordsAreRegular`), the one that the reports look at. The event handled last is
  in the file (`HandledIsDigested`), so that a revocation is at a revision of the past
  (`EndedIsPast`) and the guard on revisions refuses every replay of an older event;
  local policies, which have no revisions, never leave the file (`LocalStays`). What a
  report tells of is current (`ReportIsCurrent`) and what the control plane answered
  is so (`AnswerIsTrue`), so that pending uses may be removed on the answer.
* `AccessTypes`: the types of all four parts.

Assumptions: `AccessAssumption`, again that `None` and the turns are distinct and
the bounds naturals, and that no policy is both hosted and local: the control plane
and the command line each give a policy an id of their own.

### DM agent (`DmProofs`)

`PassedAreSettled`, `AttemptsBounded`, `OneReply` and `LoopTypesHold` for any
limits and any number of questions: the counts of failures in the state file are
exact for the questions still ahead, so that the count goes past the limit only by
the process that ends while it gives up. `HostIsSound` joins three parts: the lock
(whoever is up wrote it last, or somebody was overtaken between its look and its
write), the restarts (those the file remembers are all that lie in the window, and
they are apart), the outbox (every row is confirmed, refused, waiting, saved, torn,
or beyond the backlog), the sessions of turns. `GateAlwaysHolds`: what is kept was
agreed to, every open question is of the call that is being decided, and the clock
counts the questions of its turn. Assumptions: the four of `MCDm`; the gap between
two restarts is not longer than the window in which they are counted.

### Sequences, and what a proof may use

`SequenceLemmas` proves what the tables and queues need: the elements and the order
of what `Kept` leaves of a sequence, the first element removed, a least number of a
set, and induction over the naturals stated for a set (`SetInduction`), which the
provers can instantiate. Finite sets and cardinalities come from the library.

### What the proofs corrected

Four statements that TLC had passed were false in general, and some models could not
be reasoned about:

* `DmHost`: a process that found the lock, was overtaken by one that wrote it and
  ended, and then wrote the same lock again was not seen as a race; `overtaken` now
  says it.
* `DmOutbox`: the bound on what waits did not count the backlog of a failed write.
* `PolicyStore`: `StaysRevoked` held with two events only. With three, an event that
  gives what the file already has is kept without its revision, and its replay revives
  the policy; that is the exception `kept`, described in section 6. A write
  that another process's had made outdated counted as no race when the file had come
  back to the same content; it is now marked `stale`.
* `ClaudeSession`: `WarmTurnsFitThePolicy` spoke of every warm push. After a relaunch
  that failed the session still has the boundary of the process before, and a turn
  can be pushed to the process that ended (claude-code-adapter.ts:418), which takes more
  processes than the run has; the property is about processes that have not ended.
* `Continuation`: two CASEs had overlapping arms, where TLC takes the first.
* `DmAgent`, `OutboundReplies`, `PolicyStore`: recursion over sequences replaced by
  sets and `Kept`.

### Model-checked only

Everything with fairness (`~>`, `[]<>`), which the provers here cannot treat:
`SpooledIsSettled`, `StreamIsDrained`, `ServicesSettle`, `LoopCatchesUp`,
`HostSettles`. Every invariant and every action property that a passing run checks
has a theorem. The three statements that runs refute are false.

## 5. What is left

The modules of the plan are written and their safety properties proved. The
liveness properties stay with TLC; section 7 names what has no model.

## 6. What the code does otherwise than one might expect

Met while modelling; the models follow the code. The three statements that runs
of section 3 refute are not repeated here.

Control plane. `revoke` answers 409 for a pending grant, which SPEC.md:50 lets
either party revoke.

Delivery. A row that the bridge blocks between the validation and the delivery is
delivered all the same (README.md:33-35); a pass that blocks a row and then
injects it from its snapshot does not count the attempt (injector.test.ts:84).

Background services. An event that asks for another default route while one is
being published is forgotten (bridge.ts:719). A heartbeat in flight at `stop`
writes its health after "stopped". A loop that recovers after the budget was
spent resets it. When the token of a new registration could not be saved, the
next recovery goes back to the older saved one. A late answer sets a delegation
back to `grant_requested`, which the next retry repairs; a row whose grant is
unknown never fails at its deadline; a 409 of an ended grant is retried until the
deadline. A reply of a collaboration that ended is sent if it was already listed.
A hook that throws before every reply stops the adapter stream of its session.

Claude adapter. With `Overlap` set to TRUE, that is when the continuation
recovery delivers while the injector is in the same session, a conversation can
serve two grants, a process can be left running, and a push can wait for a reader
that does not come; the passing run has `Overlap = FALSE`, and the theorems assume it. A delivery that was awaiting
when its grant was released binds the session to it again
(docs/RELATIONSHIP-POLICY.md:135-137). A resumption that the runtime refuses is
tried again and again with the same conversation (HANDOVER.md:115). An answer that
comes after its acknowledgement timed out is taken for that of the next turn, of
the same grant. After a relaunch
that failed the session keeps the boundary key of the process before, and accepts a
turn for the process that has ended. After a restart a session may stay "busy" or "closed".

Codex adapter. A turn that was given up after the acknowledgement timeout is
reported failed although the injector tries again. After a restart the
collaborator of a persisted thread is unknown, so that an update passes it over.
A session stays bound after a delivery that was refused for want of a project.

Continuations. Only the waiting call compares the preset, the recovery does not.
A crash between the creation of a checkpoint and its approval, and a policy that
never arrives, leave the checkpoint waiting for ever. The original turn's reply
completes a checkpoint that is being resumed (SPEC.md:168-171), and both replies
are sent. A resumption after a restart is not attested again. Quiescing a second
continuation ends the resumed turn of the first.

Policies. A revocation touches the first record of a policy only. An identical
policy at a higher revision is kept and its revision not recorded
(trusted-tool-policy.ts:145), so that a replay of the event after a local revocation
revives it. Bridge and command line write the file without a lock. An
update whose reset of sessions throws is not repeated. Acknowledgements of MCP
grants that wait are kept in memory only. A revoked trusted tool resets no
session, since every call asks again. A selection by id together with a folder
gives the folder the relationship's rights. The boundary is not looked at again
after the owner has answered.

DM agent. An answer to a guest whose response was lost is posted again
(state.js:7). A grant revoked by the command line while the agent runs comes back
with the agent's next save. A guest's calls are memoized for two minutes across
turns (policy.js:132), and Codex remembers shell grants for guests. Codex has no
budget of questions outside the folders, and its timer does not wait for the
owner. Two calls that a grant would cover both ask, and the later answer counts.
A question that outlives its turn resumes the clock of the next. An `approve` that comes too late
recreates the file and reports success. Two agents that start together may both
take the lock; a replacement that fails leaves an agent without one. An agent
that met an older service once uploads no row until it is restarted. A torn last line takes the next row
with it. Claude's error results answer with the last text; Codex runs any failed
resumption a second time.

## 7. Not modelled

Secret redaction, sandbox profiles and command parsing (text, no state), HTTP
routing and authentication, audit rows, the command line, onboarding and set-up
(sequential input and output; what they share with the bridge is modelled where
it is shared), the watchdog thread and the resource monitor (they measure time
and memory and end the process, which the models do at any moment), telemetry,
the fake adapter, symbolic links, the protocols of the two runtimes below their
events. Message content and its limits appear nowhere.
