----------------------------- MODULE MCServices -----------------------------
(***************************************************************************)
(* The bridge's background loops, one of them in a behaviour: `part` is    *)
(* chosen in Init and the variables of the others keep their first value.  *)
(***************************************************************************)
EXTENDS Integers, Sequences, FiniteSets

CONSTANTS Tasks, Grants, Streams, Handles, None,
          HasUserKey, Timeout, FailureThreshold, MaxTokens, MaxTokenFaults, MaxEvents, MaxReplyFaults

VARIABLES part,
          rows, late, call, inbox, cpRows, grants, msgs, stray, requests, losses, crashes,
          log, cursor, storing, table, todo, sending, answer, received, collab, replyFaults,
          own, file, valid, minted, userKey, rotation, recovering, waiters, fresh, hb, ev,
          budget, reported, good, health, pending, captured, published, stopped, fatal, tokenFaults

delegating == <<rows, late, call, inbox, cpRows, grants, msgs, stray, requests, losses, crashes>>
replying == <<log, cursor, storing, table, todo, sending, answer, received, collab, replyFaults>>
beating == <<own, file, valid, minted, userKey, rotation, recovering, waiters, fresh, hb, ev,
             budget, reported, good, health, pending, captured, published, stopped, fatal, tokenFaults>>

\* Two requests when nothing fails; one with a lost request or answer and a crash.
Bounds == {[requests |-> 2, losses |-> 0, crashes |-> 0], [requests |-> 1, losses |-> 1, crashes |-> 1]}

Delegating == INSTANCE Delegation
Replies == INSTANCE OutboundReplies WITH faults <- replyFaults, MaxFaults <- MaxReplyFaults
Beating == INSTANCE Heartbeat WITH faults <- tokenFaults, MaxFaults <- MaxTokenFaults

Init == /\ part \in {"delegations", "replies", "heartbeat"}
        /\ Delegating!Init /\ (part # "delegations" => requests = 1)
        /\ Replies!Init /\ Beating!Init

InDelegating == part = "delegations"
InReplies == part = "replies"
InBeating == part = "heartbeat"

Next == /\ \/ InDelegating /\ Delegating!Next /\ UNCHANGED <<replying, beating>>
           \/ InReplies /\ Replies!Next /\ UNCHANGED <<delegating, beating>>
           \/ InBeating /\ Beating!Next /\ UNCHANGED <<delegating, replying>>
        /\ UNCHANGED part

vars == <<part, delegating, replying, beating>>

\* None is the absence of a grant, a reply or an answer; the bounds and the limits are numbers, and
\* the bridge starts with a token.
ServicesAssumption ==
    /\ None \notin Grants /\ None \notin Replies!Ids /\ None \notin {"ok", "terminal", "retry"}
    /\ None \notin Beating!Ages
    /\ IsFiniteSet(Streams) /\ MaxEvents \in Nat
    /\ Timeout \in Nat /\ FailureThreshold \in Nat /\ MaxTokens \in Nat \ {0}

ASSUME ServicesAssumption

\* The fairness each module states, for the part that runs.
FairDelegating ==
    /\ WF_delegating(InDelegating /\ Delegating!StartRetries)
    /\ WF_delegating(InDelegating /\ Delegating!Activated)
    /\ WF_delegating(InDelegating /\ Delegating!ActivationDone)
    /\ WF_delegating(InDelegating /\ Delegating!GrantEnded)
    /\ \A c \in Delegating!Callers : WF_delegating(InDelegating /\ Delegating!Step(c))
    /\ \A t \in Tasks : WF_delegating(InDelegating /\ Delegating!Deadline(t))

FairReplies ==
    /\ \A n \in Streams : /\ WF_replying(InReplies /\ Replies!HandleEvent(n))
                        /\ WF_replying(InReplies /\ Replies!SaveAdapterCursor(n))
    /\ WF_replying(InReplies /\ Replies!ListPending)
    /\ WF_replying(InReplies /\ Replies!SendNext)
    /\ WF_replying(InReplies /\ Replies!Accepted)
    /\ WF_replying(InReplies /\ Replies!Recorded)

FairBeating ==
    /\ WF_beating(InBeating /\ Beating!Tick)
    /\ WF_beating(InBeating /\ Beating!SaveRotated)
    /\ WF_beating(InBeating /\ Beating!Registered)
    /\ \A l \in Beating!Loops : WF_beating(InBeating /\ Beating!Recover(l))
    /\ WF_beating(InBeating /\ Beating!Beat)
    /\ WF_beating(InBeating /\ Beating!Beaten)
    /\ WF_beating(InBeating /\ Beating!BeatRejected)
    /\ WF_beating(InBeating /\ Beating!Connect)
    /\ WF_beating(InBeating /\ Beating!Connected)
    /\ WF_beating(InBeating /\ Beating!RoutePublished)

Spec == Init /\ [][Next]_vars /\ FairDelegating /\ FairReplies /\ FairBeating

-----------------------------------------------------------------------------
\* Types of every loop's state.
TypeOK == Delegating!TypeOK /\ Replies!TypeOK /\ Beating!TypeOK

\* See Delegation: what is called delegated was sent, and once.
DelegationSound == Delegating!DelegationSound

\* See OutboundReplies: a session's replies arrive in the order of its turns.
RepliesInOrder == Replies!RepliesInOrder

\* See Delegation, OutboundReplies and Heartbeat: no task and no reply waits for ever, and dead
\* credentials end the bridge.  One formula, since within the bounds of a behaviour nothing new
\* comes for ever: what has settled again and again has settled for good.
ServicesSettle ==
    []<>(Delegating!Waiting = {} /\ Replies!Handed \subseteq Replies!Done /\ (Beating!Dead => stopped))

\* See Heartbeat: the bridge gives up on its credentials only when it must.
FatalIsDeserved == Beating!FatalIsDeserved
=============================================================================
