---------------------------- MODULE Continuation ----------------------------
(***************************************************************************)
(* A tool call outside the boundary of its session.  The call waits for    *)
(* the owner (awaitToolApproval) over a durable checkpoint; an approved    *)
(* checkpoint has the session quiesced, rebuilt with the wider boundary,   *)
(* attested and resumed with the original task (ContinuationRecovery,      *)
(* SessionRebuildCoordinator), until the reply of the runtime completes    *)
(* it.  The waiting call, the recovery and the event loop of the adapter   *)
(* share the checkpoints; the process may stop between any two steps.      *)
(* One session, one task with several such calls.                          *)
(***************************************************************************)
EXTENDS Integers, Sequences, FiniteSets

CONSTANTS
    Calls, None,
    MaxCrashes, \* bounds the restarts
    MaxFaults   \* bounds failed requests, changed grants, revocations and tasks that come between

VARIABLES
    asked,      \* the control plane's approval of each call, and what it activates
    policies,   \* the calls whose approved policy is in the local file
    grants,     \* changes with every other grant of the collaborator: what a manifest's hash depends on
    checkpoint, \* c2c_continuations
    events,     \* the runtime events after the saved adapter cursor
    stored,     \* the turns whose reply is in the outbox
    bound,      \* the session is bound to the communication session of the task
    waiter,     \* the tool callback of each call
    step,       \* where each execute() is
    resumed,    \* #resumedThisProcess
    turn,       \* the turn the runtime runs: the original one, a resumed call's, another task's
    boundary,   \* what the runtime was launched with: nothing, the original grants, a call's
    stopped,    \* the event at the head is stored and not yet joined to its checkpoint
    injected,   \* how often this process has resumed each call
    crashes, faults

durable == <<asked, policies, grants, checkpoint, events, stored, bound>>
vars == <<durable, waiter, step, resumed, turn, boundary, stopped, injected, crashes, faults>>

Activations == {"covers", "narrow", "elsewhere", "none"}
Recoverable == {"approved_pending_activation", "rebuilding_session", "resuming"}
Terminal == {"completed", "denied", "approval_expired", "approval_delivery_failed", "activation_failed", "resume_failed"}
States == Recoverable \cup Terminal \cup {"awaiting_approval"}
Turns == {"original", "other"} \cup Calls
NotAsked == [status |-> "none", activation |-> "none", manifest |-> 0]

TypeOK ==
    /\ asked \in [Calls -> [status: {"none", "pending", "allow", "deny", "expired"},
                            activation: Activations, manifest: 0 .. MaxFaults]]
    /\ policies \subseteq Calls /\ resumed \subseteq Calls /\ stored \subseteq Turns
    /\ grants \in 0 .. MaxFaults /\ faults \in 0 .. MaxFaults /\ crashes \in 0 .. MaxCrashes
    /\ \A c \in Calls : checkpoint[c] # None =>
         checkpoint[c] \in [state: States, approvalId: BOOLEAN, expected: 0 .. MaxFaults]
    /\ events \in Seq([by: Turns, type: {"reply", "turn_failed"}])
    /\ bound \in BOOLEAN /\ stopped \in BOOLEAN
    /\ waiter \in [Calls -> {"idle", "asking", "waiting"}]
    /\ step \in [Calls -> {"idle", "quiesce", "rebuild", "resume"}]
    /\ turn \in Turns \cup {None} /\ boundary \in {"original", None} \cup Calls
    /\ injected \in [Calls -> Nat]

Init ==
    /\ asked = [c \in Calls |-> NotAsked] /\ policies = {} /\ grants = 0
    /\ checkpoint = [c \in Calls |-> None] /\ events = <<>> /\ stored = {} /\ bound = TRUE
    /\ waiter = [c \in Calls |-> "idle"] /\ step = [c \in Calls |-> "idle"] /\ resumed = {}
    /\ turn = "original" /\ boundary = "original" /\ stopped = FALSE
    /\ injected = [c \in Calls |-> 0] /\ crashes = 0 /\ faults = 0

StateOf(c) == IF checkpoint[c] = None THEN None ELSE checkpoint[c].state

\* A mark that throws in the wrong state leaves the checkpoint; its callers catch that.
Marked(cp, c, from, to) ==
    IF cp[c] # None /\ cp[c].state \in from THEN [cp EXCEPT ![c].state = to] ELSE cp

Fault == faults < MaxFaults /\ faults' = faults + 1

-----------------------------------------------------------------------------
(* The control plane and the owner (external). *)

external == <<grants, checkpoint, events, stored, bound, waiter, step, resumed, turn, boundary, stopped, injected, crashes>>

\* trusted_tool_policy.upserted for an approval: the bridge stores the policy and attests the
\* manifest it would launch with; the acknowledgement makes the approval activatable.
PolicyArrives(c, activation) ==
    /\ asked[c].status = "pending" /\ StateOf(c) # None
    /\ activation \in {"covers", "narrow"}
    /\ policies' = policies \cup {c}
    /\ asked' = [asked EXCEPT ![c] = [status |-> "allow", activation |-> activation, manifest |-> grants]]
    /\ UNCHANGED <<external, faults>>

\* The approval ends in another way: denied, expired, or allowed without a usable activation.
ApprovalEnds(c, status, activation) ==
    /\ asked[c].status = "pending"
    /\ status = "allow" => activation \in {"elsewhere", "none"}
    /\ status # "allow" => activation = "none"
    /\ asked' = [asked EXCEPT ![c] = [status |-> status, activation |-> activation, manifest |-> grants]]
    /\ UNCHANGED <<policies, external, faults>>

RevokePolicy(c) ==
    /\ Fault /\ c \in policies /\ policies' = policies \ {c}
    /\ UNCHANGED <<asked, external>>

ChangeGrants ==
    /\ Fault /\ grants' = grants + 1
    /\ UNCHANGED <<asked, policies, checkpoint, events, stored, bound, waiter, step, resumed, turn, boundary,
                   stopped, injected, crashes>>

-----------------------------------------------------------------------------
(* The waiting call: BoundaryExpansionCoordinator.request over awaitToolApproval. *)

waiting == <<policies, grants, events, stored, bound, step, resumed, turn, boundary, stopped, injected, crashes>>

Request(c) ==
    /\ turn = "original" /\ waiter[c] = "idle" /\ checkpoint[c] = None
    /\ checkpoint' = [checkpoint EXCEPT
         ![c] = [state |-> "awaiting_approval", approvalId |-> FALSE, expected |-> 0]]
    /\ waiter' = [waiter EXCEPT ![c] = "asking"]
    /\ UNCHANGED <<asked, waiting, faults>>

Requested(c) ==
    /\ waiter[c] = "asking"
    /\ asked' = [asked EXCEPT ![c].status = "pending"]
    /\ checkpoint' = [checkpoint EXCEPT ![c].approvalId = TRUE]
    /\ waiter' = [waiter EXCEPT ![c] = "waiting"]
    /\ UNCHANGED <<waiting, faults>>

\* The request or its answer is lost: the call is denied, whatever the control plane knows.
RequestFails(c) ==
    /\ Fault /\ waiter[c] = "asking"
    /\ \E s \in {"none", "pending"} : asked' = [asked EXCEPT ![c].status = s]
    /\ checkpoint' = Marked(checkpoint, c, {"awaiting_approval"}, "approval_delivery_failed")
    /\ waiter' = [waiter EXCEPT ![c] = "idle"]
    /\ UNCHANGED waiting

Approved(c) == [checkpoint EXCEPT ![c].state = "approved_pending_activation", ![c].expected = asked[c].manifest]

\* What the answer makes of a checkpoint that awaits it.
Decided(c) ==
    CASE asked[c].status = "deny" -> Marked(checkpoint, c, {"awaiting_approval"}, "denied")
      [] asked[c].status = "expired" -> Marked(checkpoint, c, {"awaiting_approval"}, "approval_expired")
      [] asked[c].status = "allow" /\ asked[c].activation = "none" ->
             Marked(checkpoint, c, {"awaiting_approval"}, "approval_delivery_failed")
      [] asked[c].status = "allow" /\ asked[c].activation \in {"narrow", "elsewhere"} ->
             IF StateOf(c) = "awaiting_approval" THEN [Approved(c) EXCEPT ![c].state = "activation_failed"]
             ELSE Marked(checkpoint, c, {"approved_pending_activation"}, "activation_failed")
      [] OTHER -> IF StateOf(c) = "awaiting_approval" THEN Approved(c) ELSE checkpoint

Poll(c) ==
    /\ waiter[c] = "waiting" /\ asked[c].status # "pending"
    /\ checkpoint' = Decided(c)
    /\ waiter' = [waiter EXCEPT ![c] = "idle"]
    /\ UNCHANGED <<asked, waiting, faults>>

TimeOut(c) ==
    /\ waiter[c] = "waiting"
    /\ checkpoint' = Marked(checkpoint, c, {"awaiting_approval"}, "approval_expired")
    /\ waiter' = [waiter EXCEPT ![c] = "idle"]
    /\ UNCHANGED <<asked, waiting, faults>>

-----------------------------------------------------------------------------
(* ContinuationRecovery.recover, run by its loop, by the start and by every policy that arrives. *)

\* recoverAwaitingDecisions: as the waiting call decides, but for the preset, which it does not compare.
RecoverDecision(c) ==
    /\ StateOf(c) = "awaiting_approval" /\ checkpoint[c].approvalId /\ asked[c].status # "pending"
    /\ checkpoint' =
         CASE asked[c].status = "deny" -> Marked(checkpoint, c, {"awaiting_approval"}, "denied")
           [] asked[c].status = "allow" /\ asked[c].activation \in {"covers", "narrow"} -> Approved(c)
           [] asked[c].status = "allow" /\ asked[c].activation \in {"elsewhere", "none"} ->
                  Marked(checkpoint, c, {"awaiting_approval"}, "approval_delivery_failed")
           [] OTHER -> Marked(checkpoint, c, {"awaiting_approval"}, "approval_expired")
    /\ UNCHANGED <<asked, waiting, waiter, faults>>

CanActivate(c) == bound /\ c \in policies

Activate(c) ==
    /\ StateOf(c) \in Recoverable /\ step[c] = "idle" /\ c \notin resumed
    /\ CanActivate(c)
    /\ checkpoint' = Marked(checkpoint, c, {"approved_pending_activation"}, "rebuilding_session")
    /\ step' = [step EXCEPT ![c] = IF StateOf(c) = "resuming" THEN "resume" ELSE "quiesce"]
    /\ UNCHANGED <<asked, policies, grants, events, stored, bound, waiter, resumed, turn, boundary, stopped,
                   injected, crashes, faults>>

Executing(c, at) == step[c] = at /\ UNCHANGED <<asked, policies, grants, events, stored, waiter, stopped, crashes, faults>>

\* The turn is suppressed and the provider process closed, unless the session was released.
Quiesce(c) ==
    /\ Executing(c, "quiesce")
    /\ IF bound
       THEN /\ turn' = None /\ boundary' = None
            /\ step' = [step EXCEPT ![c] = "rebuild"]
            /\ UNCHANGED checkpoint
       ELSE /\ checkpoint' = Marked(checkpoint, c, {"rebuilding_session"}, "activation_failed")
            /\ step' = [step EXCEPT ![c] = "idle"]
            /\ UNCHANGED <<turn, boundary>>
    /\ UNCHANGED <<bound, resumed, injected>>

\* rebuildContinuation and markAttested: another task may have started the session meanwhile.
Rebuild(c) ==
    /\ Executing(c, "rebuild")
    /\ LET launched == bound /\ boundary = None /\ c \in policies
           attested == launched /\ checkpoint[c].expected = grants
       IN /\ boundary' = IF launched THEN c ELSE boundary
          /\ checkpoint' = Marked(checkpoint, c, {"rebuilding_session"},
                                  IF attested THEN "resuming" ELSE "activation_failed")
          /\ step' = [step EXCEPT ![c] = IF attested THEN "resume" ELSE "idle"]
    /\ UNCHANGED <<bound, resumed, turn, injected>>

\* As if a resumed call ran in whatever the session was launched with.
LaunchedAsIs(b, c) == IF b = None THEN c ELSE b
\* deliverToSession: a boundary of another task has the session launched again.
Launched(b, c) == c

\* resumeContinuation: accepted if the session is free, binding it again if it was released.
Resume(c) ==
    /\ Executing(c, "resume")
    /\ step' = [step EXCEPT ![c] = "idle"]
    /\ IF turn = None /\ c \in policies
       THEN /\ turn' = c /\ boundary' = Launched(boundary, c) /\ bound' = TRUE
            /\ injected' = [injected EXCEPT ![c] = @ + 1]
            /\ resumed' = resumed \cup {c}
            /\ UNCHANGED checkpoint
       ELSE /\ checkpoint' = Marked(checkpoint, c, {"resuming"}, "resume_failed")
            /\ UNCHANGED <<bound, turn, boundary, injected, resumed>>

\* The acknowledgement is lost: the turn runs, the checkpoint has failed.
ResumeUnacknowledged(c) ==
    /\ Fault /\ step[c] = "resume" /\ turn = None /\ c \in policies
    /\ step' = [step EXCEPT ![c] = "idle"]
    /\ turn' = c /\ boundary' = Launched(boundary, c) /\ bound' = TRUE
    /\ injected' = [injected EXCEPT ![c] = @ + 1]
    /\ checkpoint' = Marked(checkpoint, c, {"resuming"}, "resume_failed")
    /\ UNCHANGED <<asked, policies, grants, events, stored, waiter, resumed, stopped, crashes>>

-----------------------------------------------------------------------------
(* The runtime, and the adapter's event loop. *)

runtime == <<asked, policies, grants, checkpoint, stored, waiter, step, resumed, stopped, injected, crashes>>

\* A turn ends when none of its calls waits; the events of another task are not told apart here.
TurnEnds(type) ==
    /\ turn # None
    /\ turn = "original" => \A c \in Calls : waiter[c] = "idle"
    /\ events' = IF turn = "other" THEN events ELSE Append(events, [by |-> turn, type |-> type])
    /\ turn' = None
    /\ UNCHANGED <<bound, boundary, faults, runtime>>

\* Another task of the same grant takes the free session.
OtherTask ==
    /\ Fault /\ turn = None /\ bound
    /\ turn' = "other" /\ boundary' = "original"
    /\ UNCHANGED <<events, bound, runtime>>

\* The grant ends: the session is reset and unbound.
Release ==
    /\ Fault /\ bound
    /\ bound' = FALSE /\ turn' = None /\ boundary' = None
    /\ UNCHANGED <<events, runtime>>

handling == <<asked, policies, grants, bound, waiter, step, turn, boundary, injected, crashes, faults>>

\* storeOutboundReply: once per runtime event.
StoreReply ==
    /\ events # <<>> /\ Head(events).type = "reply" /\ ~stopped
    /\ stored' = stored \cup {Head(events).by}
    /\ stopped' = TRUE
    /\ UNCHANGED <<checkpoint, events, resumed, handling>>

\* findResuming: a resuming checkpoint of this session and message, whichever turn it waits for.
Join(c, to) ==
    /\ StateOf(c) = "resuming"
    /\ checkpoint' = Marked(checkpoint, c, {"resuming"}, to)
    /\ resumed' = resumed \ {c}

\* handleRuntimeEvent, and then the cursor.
HandleEvent ==
    /\ events # <<>> /\ (Head(events).type = "reply" => stopped)
    /\ \/ \E c \in Calls : Join(c, IF Head(events).type = "reply" THEN "completed" ELSE "resume_failed")
       \/ (\A c \in Calls : StateOf(c) # "resuming") /\ UNCHANGED <<checkpoint, resumed>>
    /\ events' = Tail(events) /\ stopped' = FALSE
    /\ UNCHANGED <<stored, handling>>

-----------------------------------------------------------------------------
(* The process stops; the next one reads what is durable. *)

Crash ==
    /\ crashes < MaxCrashes /\ crashes' = crashes + 1
    /\ waiter' = [c \in Calls |-> "idle"] /\ step' = [c \in Calls |-> "idle"] /\ resumed' = {}
    /\ turn' = None /\ boundary' = None /\ stopped' = FALSE
    /\ injected' = [c \in Calls |-> 0]
    /\ UNCHANGED <<durable, faults>>

Next ==
    \/ \E c \in Calls :
         \/ \E activation \in Activations :
              \/ PolicyArrives(c, activation)
              \/ \E status \in {"allow", "deny", "expired"} : ApprovalEnds(c, status, activation)
         \/ RevokePolicy(c)
         \/ Request(c) \/ Requested(c) \/ RequestFails(c) \/ Poll(c) \/ TimeOut(c)
         \/ RecoverDecision(c) \/ Activate(c) \/ Quiesce(c) \/ Rebuild(c) \/ Resume(c) \/ ResumeUnacknowledged(c)
    \/ \E type \in {"reply", "turn_failed"} : TurnEnds(type)
    \/ ChangeGrants \/ OtherTask \/ Release \/ StoreReply \/ HandleEvent \/ Crash

Spec == Init /\ [][Next]_vars

-----------------------------------------------------------------------------
(* Properties. *)

\* A resumed turn was allowed by the owner, with a folder that covers the call; and it runs in a
\* session launched with that call's policy, never in one that another task or another call left.
ResumedAsApproved ==
    \A c \in Calls :
        /\ turn = c => boundary = c
        /\ turn = c \/ StateOf(c) \in Recoverable \cup {"completed", "resume_failed"} =>
             asked[c].status = "allow" /\ asked[c].activation \in {"covers", "narrow"}

\* Between two restarts a continuation is handed to the runtime once, though the loop, the start
\* and every policy that arrives run the recovery.
ResumedOncePerProcess == \A c \in Calls : injected[c] <= 1

\* A completed continuation has an answer to deliver, wherever the process stopped.
CompletedHasAnswer == \A c \in Calls : StateOf(c) = "completed" => stored # {}

\* A continuation moves on, never back: in particular what was denied, expired or failed is never resumed.
Rank(s) ==
    CASE s = None -> 0 [] s = "awaiting_approval" -> 1 [] s = "approved_pending_activation" -> 2
      [] s = "rebuilding_session" -> 3 [] s = "resuming" -> 4 [] OTHER -> 5
NeverBack == \A c \in Calls : StateOf(c)' # StateOf(c) => Rank(StateOf(c)') > Rank(StateOf(c))
MovesOn == [][NeverBack]_vars
=============================================================================
