---------------------------- MODULE ToolDecision ----------------------------
(***************************************************************************)
(* A tool call of a collaborator's task.  A session is launched with the   *)
(* access the grants give at that moment; the owner changes the grants     *)
(* while the task runs; each call is decided by the boundary of the grants *)
(* as they are now, by the access captured at the launch, and, inside      *)
(* both, by the owner.  Claude Code decides in a hook before every tool,   *)
(* Codex when its server asks (resolveToolDecision, #approvalRoute).       *)
(***************************************************************************)
EXTENDS ProjectAccess

CONSTANT MaxChanges \* bounds how often the owner changes the grants

VARIABLES
    grants,   \* the relationship's grant and the trusted-tool policies, as loaded at every decision
    session,  \* the running task: its message, the access it was launched with, the grants then
    outdated, \* the session must be reset: the relationship of its collaborator was updated
    call,     \* how the last tool call was decided
    changes

vars == <<grants, session, outdated, call, changes>>

Outcomes == {"asks_owner", "accepted", "denied", "expansion"}
GrantSets == [relationship: Relationships \cup {None}, policies: PolicySets]

TypeOK ==
    /\ grants \in GrantSets
    /\ session # None => session.message \in Selections /\ session.launched \in GrantSets
    /\ outdated \in BOOLEAN /\ call \in Outcomes \cup {None} /\ changes \in 0 .. MaxChanges

Init ==
    /\ grants \in GrantSets
    /\ session = None /\ outdated = FALSE /\ call = None /\ changes = 0

\* deliverToSession: the task is refused unless it selects what is granted.
Launch(m) ==
    /\ session = None
    /\ AccessFor(grants, m).status = "selected"
    /\ session' = [message |-> m, access |-> AccessFor(grants, m), launched |-> grants]
    /\ UNCHANGED <<grants, outdated, call, changes>>

\* relationship_policy.updated: the file is written first, the sessions are reset afterwards.
UpdateRelationship(r) ==
    /\ changes < MaxChanges /\ changes' = changes + 1
    /\ grants' = [grants EXCEPT !.relationship = r]
    /\ outdated' = (session # None)
    /\ UNCHANGED <<session, call>>

Invalidate ==
    /\ outdated
    /\ outdated' = FALSE /\ session' = None /\ call' = None
    /\ UNCHANGED <<grants, changes>>

\* trusted_tool_policy.upserted: a new record; no session is reset.
GrantPolicy(p) ==
    /\ changes < MaxChanges /\ changes' = changes + 1
    /\ p.id \notin {q.id : q \in grants.policies}
    /\ grants' = [grants EXCEPT !.policies = @ \cup {p}]
    /\ UNCHANGED <<session, outdated, call>>

\* trusted_tool_policy.revoked: no session is reset either.
RevokePolicy(id) ==
    /\ changes < MaxChanges /\ changes' = changes + 1
    /\ id \in {p.id : p \in grants.policies}
    /\ grants' = [grants EXCEPT !.policies = {p \in @ : p.id # id}]
    /\ UNCHANGED <<session, outdated, call>>

-----------------------------------------------------------------------------
(* One call. *)

\* As if only the access captured at the launch counted.
LaunchDecides(g, now, s, action) ==
    LET path == Resolve(s.access.folders, action.target)
    IN IF SnapshotAllows(s.access, action.tool, path) THEN [allowed |-> TRUE, path |-> path] ELSE Denied

\* authorizeBoundary by the grants now, then projectAccessAllowsAction on the path it resolved.
InsideBoundary(g, now, s, action) ==
    LET boundary == Authorize(g, now, action, FALSE)
    IN IF boundary.allowed /\ SnapshotAllows(s.access, action.tool, boundary.path) THEN boundary ELSE Denied

\* Tools without a path: a read needs a launched boundary, everything else one that may edit.
WithoutPath(s, action) ==
    s.access.preset \in (IF action.tool = "WebFetch" THEN {"read", "edit"} ELSE {"edit"})

Decide(g, now, s, action) ==
    IF action.tool \notin Supported
    THEN IF WithoutPath(s, action) THEN "asks_owner" ELSE "denied"
    ELSE IF InsideBoundary(g, now, s, action).allowed THEN "asks_owner" ELSE "expansion"

\* A shell command of a session that only reads needs no further decision (Codex).
DecideShell(g, now, s) ==
    LET tool == IF s.access.preset = "read" THEN "Read" ELSE "Write"
        cwd == [tool |-> tool, target |-> [folder |-> CHOOSE f \in s.access.folders : TRUE, name |-> "notes"]]
    IN IF ~InsideBoundary(g, now, s, cwd).allowed THEN "denied"
       ELSE IF tool = "Read" THEN "accepted" ELSE "asks_owner"

Now == AccessFor(grants, session.message)

CallTool ==
    /\ session # None
    /\ LET now == Now IN call' \in {Decide(grants, now, session, action) : action \in Actions}
    /\ UNCHANGED <<grants, session, outdated, changes>>

CallShell ==
    /\ session # None
    /\ call' = DecideShell(grants, Now, session)
    /\ UNCHANGED <<grants, session, outdated, changes>>

Done ==
    /\ session # None
    /\ session' = None /\ outdated' = FALSE /\ call' = None
    /\ UNCHANGED <<grants, changes>>

Next ==
    \/ \E m \in Selections : Launch(m)
    \/ \E r \in Relationships \cup {None} : UpdateRelationship(r)
    \/ \E p \in Policies : GrantPolicy(p)
    \/ \E id \in PolicyIds : RevokePolicy(id)
    \/ Invalidate \/ CallTool \/ CallShell \/ Done

Spec == Init /\ [][Next]_vars

-----------------------------------------------------------------------------
(* Properties. *)

Absolute(action) == action.target.folder # None

\* The two checks never add up to more than one grant gave: a call that reaches the owner is in
\* a folder granted now, and one grant of the time of the launch allowed this tool on this path
\* by itself; and while nothing has changed since the launch they refuse nothing (for an
\* absolute path) that the grants allow.
NoRightsMix ==
    session # None =>
        LET now == Now
            launched == AccessFor(session.launched, session.message)
        IN \A action \in Actions :
            LET decided == InsideBoundary(grants, now, session, action)
                at == [action EXCEPT !.target = [folder |-> Front(decided.path), name |-> Last(decided.path)]]
            IN /\ decided.allowed =>
                    /\ InSome(Available(grants), decided.path)
                    /\ Authorize(session.launched, launched, at, TRUE).allowed
               /\ Absolute(action) /\ grants = session.launched
                    /\ Authorize(grants, now, action, TRUE).allowed => decided.allowed

\* A task that selects one policy by its id is launched with that policy's folder and rights,
\* though other grants of the same collaborator cover the same folder with more.
SelectionIsExact ==
    session # None =>
        \A p \in session.launched.policies :
            session.message = [kind |-> "explicit", names |-> {p.id}] =>
                /\ session.access.folders = {p.folder} /\ session.access.preset = p.preset
                /\ session.access.writable = (IF p.preset = "edit" THEN {p.folder} ELSE {})

AccessIsExact == NoRightsMix /\ SelectionIsExact

=============================================================================
