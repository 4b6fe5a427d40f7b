------------------------ MODULE RelationshipUpdates ------------------------
(***************************************************************************)
(* The owner changes what a collaborator's device may use (tools, folder,  *)
(* MCP servers).  The bridge handles the control plane's events one after  *)
(* the other: it writes the policy file, resets the sessions launched for  *)
(* that device if the file changed, and acknowledges the MCP grants; while *)
(* it waits, sessions start and stop.                                      *)
(***************************************************************************)
EXTENDS Integers, Sequences, FiniteSets

CONSTANTS
    Sessions, Peers, None,
    Contents,   \* what a policy may grant a peer
    Default,    \* nothing, which a cleared file grants
    Codex,      \* the sessions of Codex: attributed to their peer when launched, Claude Code's afterwards
    MaxUpdates, MaxCrashes, MaxFaults

VARIABLES
    log,      \* relationship_policy.updated events, by revision
    file,     \* the relationship policy
    cursor,   \* the last event handled
    handling, \* where the handler of the next event is
    session,  \* for whom each session was launched, with which content of the file, whether the adapter
              \* knows that already, and whether a reset of the peer's sessions has missed it
    pending,  \* #pendingRelationshipMcpAcks
    acked,    \* the revisions the control plane knows to be applied
    run, faults

vars == <<log, file, cursor, handling, session, pending, acked, run, faults>>

Revisions == 1 .. MaxUpdates

TypeOK ==
    /\ log \in Seq([peer: Peers, content: Contents, run: {None} \cup 0 .. MaxCrashes]) /\ Len(log) <= MaxUpdates
    /\ file \in [Peers -> Contents] /\ cursor \in 0 .. Len(log)
    /\ handling \in {"idle", "invalidate", "acknowledge"}
    /\ session \in [Sessions -> {None} \cup [peer: Peers, holds: Contents, marked: BOOLEAN, missed: BOOLEAN]]
    /\ pending \subseteq Revisions /\ acked \subseteq Revisions
    /\ run \in 0 .. MaxCrashes /\ faults \in 0 .. MaxFaults

Init ==
    /\ log = <<>> /\ file = [p \in Peers |-> Default] /\ cursor = 0 /\ handling = "idle"
    /\ session = [s \in Sessions |-> None] /\ pending = {} /\ acked = {} /\ run = 0 /\ faults = 0

\* The control plane: an update for every run of the bridge, or for this one only.
Update(p, content, only) ==
    /\ Len(log) < MaxUpdates
    /\ log' = Append(log, [peer |-> p, content |-> content, run |-> IF only THEN run ELSE None])
    /\ UNCHANGED <<file, cursor, handling, session, pending, acked, run, faults>>

Next1 == log[cursor + 1]

Changed(p, content) == file[p] # content

\* Validated as a whole, then written; an update of an earlier run is skipped.
Apply ==
    /\ handling = "idle" /\ cursor < Len(log)
    /\ IF Next1.run \notin {None, run}
       THEN cursor' = cursor + 1 /\ UNCHANGED <<file, handling>>
       ELSE /\ file' = [file EXCEPT ![Next1.peer] = Next1.content]
            /\ handling' = IF Changed(Next1.peer, Next1.content) THEN "invalidate" ELSE "acknowledge"
            /\ UNCHANGED cursor
    /\ UNCHANGED <<log, session, pending, acked, run, faults>>

Of(s, p) == session[s] # None /\ session[s].peer = p /\ session[s].marked

\* invalidateRelationshipSessions: every session attributed to the device is reset.
Invalidate ==
    /\ handling = "invalidate" /\ handling' = "acknowledge"
    /\ session' = [s \in Sessions |->
         IF session[s] = None \/ session[s].peer # Next1.peer THEN session[s]
         ELSE IF Of(s, Next1.peer) THEN None ELSE [session[s] EXCEPT !.missed = TRUE]]
    /\ UNCHANGED <<log, file, cursor, pending, acked, run, faults>>

\* As if the acknowledgement were sent as soon as the file is written.
AcknowledgeFirst ==
    /\ handling # "idle"
    /\ pending' = pending \cup {cursor + 1}
    /\ handling' = IF handling = "invalidate" THEN "invalidate" ELSE "idle"
    /\ cursor' = IF handling = "invalidate" THEN cursor ELSE cursor + 1
    /\ UNCHANGED <<log, file, session, acked, run, faults>>

\* The acknowledgement is queued; the handler ends and the cursor is saved.
Acknowledge ==
    /\ handling = "acknowledge" /\ handling' = "idle"
    /\ pending' = pending \cup {cursor + 1} /\ cursor' = cursor + 1
    /\ UNCHANGED <<log, file, session, acked, run, faults>>

\* At once and at every heartbeat; a failed one stays pending.
Flush(r) ==
    /\ r \in pending
    /\ \/ pending' = pending \ {r} /\ acked' = acked \cup {r} /\ UNCHANGED faults
       \/ faults < MaxFaults /\ faults' = faults + 1 /\ acked' = acked \cup {r} /\ UNCHANGED pending
    /\ UNCHANGED <<log, file, cursor, handling, session, run>>

\* A delivery launches a free session with what the file grants its peer.
Launch(s, p) ==
    /\ session[s] = None
    /\ session' = [session EXCEPT ![s] = [peer |-> p, holds |-> file[p], marked |-> s \in Codex, missed |-> FALSE]]
    /\ UNCHANGED <<log, file, cursor, handling, pending, acked, run, faults>>

\* Claude Code: sandboxPrincipalId and sandboxDeviceId are set when the launch has ended.
LaunchEnds(s) ==
    /\ session[s] # None /\ ~session[s].marked
    /\ session' = [session EXCEPT ![s].marked = TRUE]
    /\ UNCHANGED <<log, file, cursor, handling, pending, acked, run, faults>>

Stop(s) ==
    /\ session[s] # None /\ session[s].marked
    /\ session' = [session EXCEPT ![s] = None]
    /\ UNCHANGED <<log, file, cursor, handling, pending, acked, run, faults>>

\* The bridge stops and starts: a policy file it generated is cleared, one of the owner's is kept;
\* the event is read again, and its write may then change nothing, but no session is left either.
Crash ==
    /\ run < MaxCrashes /\ run' = run + 1
    /\ \/ UNCHANGED file
       \/ file' = [p \in Peers |-> Default]
    /\ handling' = "idle" /\ session' = [s \in Sessions |-> None] /\ pending' = {}
    /\ UNCHANGED <<log, cursor, acked, faults>>

Next ==
    \/ \E p \in Peers, content \in Contents, only \in BOOLEAN : Update(p, content, only)
    \/ Apply \/ Invalidate \/ Acknowledge \/ Crash
    \/ \E r \in Revisions : Flush(r)
    \/ \E s \in Sessions : Stop(s) \/ LaunchEnds(s) \/ \E p \in Peers : Launch(s, p)

Spec == Init /\ [][Next]_vars

-----------------------------------------------------------------------------
(* Properties. *)

\* The session holds nothing, or what the file grants and a revision acknowledged or later gave.
Holds(s) ==
    session[s].holds # Default =>
        /\ handling # "invalidate" => session[s].holds = file[session[s].peer]
        /\ \A r \in acked : log[r].peer = session[s].peer =>
             \E k \in r .. Len(log) : log[k].peer = session[s].peer /\ session[s].holds = log[k].content

\* Once an update has been handled no session holds what the file no longer grants, and the
\* control plane hears of a revision only when every session of its peer holds what it or a
\* later one granted; sessions that were being launched during the reset are excepted.
NothingRevokedIsKept == \A s \in Sessions : session[s] # None /\ ~session[s].missed => Holds(s)

\* Without exception (docs/RELATIONSHIP-POLICY.md: an active session cannot retain revoked capability).
NoSessionKeepsRevoked == \A s \in Sessions : session[s] # None => Holds(s)

=============================================================================
