------------------------------ MODULE MCAccess ------------------------------
(***************************************************************************)
(* What collaborators may do and how it changes, one aspect in a           *)
(* behaviour: `part` is chosen in Init and the variables of the others     *)
(* keep their first value.                                                 *)
(***************************************************************************)
EXTENDS Integers, Sequences, FiniteSets

CONSTANTS Hosted, Local, Presets, Calls, Sessions, Codex, Peers, None, Parts,
          MaxChanges, MaxEvents, MaxUses, MaxPolicyFaults, MaxTaskCrashes, MaxTaskFaults,
          MaxUpdates, MaxRestarts, MaxAckFaults

VARIABLES part,
          grants, session, outdated, call, changes,
          doc, writing, log, cursor, handled, run, report, hosted, deleted, ended, kept, raced, policyFaults,
          asked, policies, manifest, checkpoint, events, stored, bound, waiter, step, resumed, turn,
          boundary, stopped, injected, taskCrashes, taskFaults,
          updates, file, applied, handling, sessions, pending, acked, restarts, ackFaults

deciding == <<grants, session, outdated, call, changes>>
storing == <<doc, writing, log, cursor, handled, run, report, hosted, deleted, ended, kept, raced, policyFaults>>
continuing == <<asked, policies, manifest, checkpoint, events, stored, bound, waiter, step, resumed, turn,
                boundary, stopped, injected, taskCrashes, taskFaults>>
updating == <<updates, file, applied, handling, sessions, pending, acked, restarts, ackFaults>>

\* Two folders, one in the other; two policies; the task's working directory.
Deciding == INSTANCE ToolDecision WITH
    Folders <- {<<"a">>, <<"a", "c">>}, PolicyIds <- {<<"p1">>, <<"p2">>}, Cwd <- <<"w">>

Storing == INSTANCE PolicyStore WITH faults <- policyFaults, MaxFaults <- MaxPolicyFaults

Continuing == INSTANCE Continuation WITH
    grants <- manifest, crashes <- taskCrashes, faults <- taskFaults,
    MaxCrashes <- MaxTaskCrashes, MaxFaults <- MaxTaskFaults

Updating == INSTANCE RelationshipUpdates WITH
    log <- updates, cursor <- applied, session <- sessions, run <- restarts, faults <- ackFaults,
    MaxCrashes <- MaxRestarts, MaxFaults <- MaxAckFaults, Contents <- {"none", "mcp"}, Default <- "none"

\* None is no call, no path, no checkpoint and nothing of a policy, a call is none of the other
\* turns; the control plane's policies are not the command line's; the bounds are numbers.
AccessAssumption ==
    /\ {None, "original", "other"} \cap Calls = {} /\ None \notin {"original", "other"}
    /\ None \notin Continuing!States /\ None \notin Seq({"a", "c", "w"} \cup Deciding!Names) /\ None \notin Deciding!Relationships
    /\ None \notin [state: Continuing!States, approvalId: BOOLEAN, expected: 0 .. MaxTaskFaults]
    /\ Hosted \cap Local = {} /\ None \notin 0 .. MaxEvents /\ None \notin {"accepted", "gone"}
    /\ None \notin [stale : BOOLEAN, new : Storing!Documents]
    /\ {MaxChanges, MaxUpdates, MaxRestarts, MaxAckFaults, MaxTaskCrashes, MaxTaskFaults} \subseteq Nat
    /\ {MaxEvents, MaxUses, MaxPolicyFaults} \subseteq Nat
    /\ Parts \subseteq {"deciding", "storing", "continuing", "updating"}

ASSUME AccessAssumption

Init == /\ part \in Parts
        /\ Deciding!Init /\ (part # "deciding" => grants = [relationship |-> None, policies |-> {}])
        /\ Storing!Init /\ Continuing!Init /\ Updating!Init

Next == /\ \/ part = "deciding" /\ Deciding!Next /\ UNCHANGED <<storing, continuing, updating>>
           \/ part = "storing" /\ Storing!Next /\ UNCHANGED <<deciding, continuing, updating>>
           \/ part = "continuing" /\ Continuing!Next /\ UNCHANGED <<deciding, storing, updating>>
           \/ part = "updating" /\ Updating!Next /\ UNCHANGED <<deciding, storing, continuing>>
        /\ UNCHANGED part

vars == <<part, deciding, storing, continuing, updating>>

Spec == Init /\ [][Next]_vars

-----------------------------------------------------------------------------
\* Types of every part's state.
TypeOK == CASE part = "deciding" -> Deciding!TypeOK [] part = "storing" -> Storing!TypeOK
            [] part = "continuing" -> Continuing!TypeOK [] part = "updating" -> Updating!TypeOK

\* See ToolDecision: a call gets what one grant gives, and a task what it selected.
AccessIsExact == part = "deciding" => Deciding!AccessIsExact

\* See PolicyStore: a revoked policy stays revoked until a newer event, and no use is lost on
\* its way to the control plane.
PoliciesAreSound ==
    /\ [][part = "storing" => Storing!StaysRevoked]_vars
    /\ [](part = "storing" => Storing!UsesAreAccounted)

\* See Continuation: what runs again was approved, once in a process, and completed with an
\* answer; what was denied, expired or failed is never taken up again.
ContinuationIsSound ==
    [][/\ Continuing!ResumedAsApproved' /\ Continuing!ResumedOncePerProcess'
       /\ Continuing!CompletedHasAnswer' /\ Continuing!NeverBack]_vars

\* See RelationshipUpdates: no session keeps what was revoked once the update is handled.
NothingRevokedIsKept == Updating!NothingRevokedIsKept

\* See RelationshipUpdates: not even one that was being launched.
NoSessionKeepsRevoked == Updating!NoSessionKeepsRevoked
=============================================================================
