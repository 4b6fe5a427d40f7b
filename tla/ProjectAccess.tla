---------------------------- MODULE ProjectAccess ----------------------------
(***************************************************************************)
(* What the grants of a collaborator allow on this machine: the folders    *)
(* and the preset a session is launched with for a message (accessFor),    *)
(* whether they allow one action (authorize, authorizeBoundary), and       *)
(* whether the access captured at a launch does (projectAccessAllows-      *)
(* Action).  Paths are sequences of names; following links is left out.    *)
(***************************************************************************)
EXTENDS Integers, Sequences, FiniteSets, SequencesExt

CONSTANTS
    Folders,   \* folders that may be granted
    PolicyIds, \* ids of trusted-tool policies
    Cwd,       \* where the bridge runs
    None

ReadTools == {"Read"}
WriteTools == {"Write", "GitCommit"}
PresetTools == [none |-> {}, read |-> ReadTools, edit |-> ReadTools \cup WriteTools]
Supported == ReadTools \cup WriteTools
Tools == Supported \cup {"WebFetch"}

\* The selection of a task: by ids or absolute folders, by a text that names folders, or none.
Selectors == PolicyIds \cup Folders \cup {<<"unknown">>}
Selections == [kind: {"explicit"}, names: {n \in SUBSET Selectors : Cardinality(n) \in 1 .. 2}]
                \cup [kind: {"objective"}, names: SUBSET Folders]

Relationships == [tools: {PresetTools["read"], PresetTools["edit"]}, folders: {f \in SUBSET Folders : f # {}}]
Policies == [id: PolicyIds, folder: Folders, preset: {"read", "edit"}]
PolicySets == {s \in SUBSET Policies : \A p, q \in s : p.id = q.id => p = q}

\* Where an action points to: an absolute path, or one relative to whatever it is resolved against.
Names == {"notes", ".env", "Makefile"}
Targets == [folder: Folders \cup {None}, name: Names]
Actions == [tool: Tools, target: Targets]

-----------------------------------------------------------------------------
(* relationship-access.ts *)

AllowsTool(preset, tool) == tool \in PresetTools[preset]

Strongest(presets) == IF "edit" \in presets THEN "edit" ELSE IF "read" \in presets THEN "read" ELSE "none"

PresetForTools(tools) ==
    IF tools \cap WriteTools # {} THEN "edit" ELSE IF tools \cap ReadTools # {} THEN "read" ELSE "none"

-----------------------------------------------------------------------------
(* accessFor *)

NoAccess(status) ==
    [status |-> status, preset |-> "none", folders |-> {}, writable |-> {}, ids |-> {}, paths |-> {}, explicit |-> FALSE]

RelationshipFolders(g) == IF g.relationship = None THEN {} ELSE g.relationship.folders
Available(g) == RelationshipFolders(g) \cup {p.folder : p \in g.policies}

\* objectivePreflightProjects: only where there is a choice; every name is unique here.
Preflight(g, m) == IF Cardinality(Available(g)) < 2 THEN {} ELSE m.names \cap Available(g)

Requested(g, m) == IF m.kind = "explicit" THEN m.names ELSE Preflight(g, m)

SelectedIds(g, m) == Requested(g, m) \cap {p.id : p \in g.policies}
SelectedPaths(g, m) == Requested(g, m) \cap Available(g)
FoldersOfIds(g, ids) == {p.folder : p \in {q \in g.policies : q.id \in ids}}

\* The part of the grants a selection stands for.
Chooses(a, r) == ~a.explicit \/ r \cap a.paths # {}
ChosenRelationship(g, a) ==
    g.relationship # None /\ \E f \in g.relationship.folders \cap a.folders : Chooses(a, {f})

ChosenPolicies(g, a) ==
    {p \in g.policies : p.folder \in a.folders /\ (p.id \in a.ids \/ Chooses(a, {p.folder}))}

Selected(g, a) ==
    LET policies == ChosenPolicies(g, a)
        tools == IF ChosenRelationship(g, a) THEN g.relationship.tools ELSE {}
    IN [a EXCEPT
          !.preset = Strongest({PresetForTools(tools)} \cup {p.preset : p \in policies}),
          !.writable = a.folders \cap
              ((IF "Write" \in tools THEN g.relationship.folders ELSE {})
                 \cup {p.folder : p \in {q \in policies : q.preset = "edit"}})]

AccessFor(g, m) ==
    LET requested == Requested(g, m)
        ids == SelectedIds(g, m)
        paths == SelectedPaths(g, m)
        folders == IF requested = {} THEN Available(g) ELSE paths \cup FoldersOfIds(g, ids)
    IN IF requested \ (ids \cup paths) # {} THEN NoAccess("not_found")
       ELSE IF Cardinality(folders) > 1 /\ requested = {} THEN NoAccess("selection_required")
       ELSE IF folders = {} THEN NoAccess("none")
       ELSE Selected(g, [NoAccess("selected") EXCEPT
                !.folders = folders, !.ids = ids, !.paths = paths, !.explicit = requested # {}])

-----------------------------------------------------------------------------
(* authorize, authorizeBoundary *)

Within(folder, path) == IsPrefix(folder, path)
InSome(folders, path) == \E f \in folders : Within(f, path)

\* dangerousPathDecision: credentials for every tool, what runs by itself for the tools that write files.
Dangerous(tool, path) ==
    \/ Last(path) = ".env"
    \/ Last(path) = "Makefile" /\ tool = "Write"

\* resolveRelationshipPath: against the working directory if that is granted, else the first folder.
Resolve(folders, target) ==
    IF target.folder # None THEN Append(target.folder, target.name)
    ELSE IF InSome(folders, Append(Cwd, target.name)) \/ folders = {} THEN Append(Cwd, target.name)
    ELSE Append(SetToSeq(folders)[1], target.name)

Denied == [allowed |-> FALSE, path |-> <<>>]

\* a: what accessFor gives for the message under g.
Authorize(g, a, action, requireToolGrant) ==
    LET Granting(p) == ~requireToolGrant \/ AllowsTool(p.preset, action.tool)
        own == IF ChosenRelationship(g, a) /\ (~requireToolGrant \/ action.tool \in g.relationship.tools)
               THEN g.relationship.folders \cap a.folders ELSE {}
        folders == own \cup {p.folder : p \in {q \in ChosenPolicies(g, a) : Granting(q)}}
        path == Resolve(folders, action.target)
    IN IF /\ a.status = "selected" /\ action.tool \in Supported
          /\ folders # {} /\ ~Dangerous(action.tool, path) /\ InSome(folders, path)
       THEN [allowed |-> TRUE, path |-> path] ELSE Denied

\* projectAccessAllowsAction: the access captured at launch, on the canonical path.
SnapshotAllows(access, tool, path) ==
    access.status = "selected" /\ InSome(IF tool \in WriteTools THEN access.writable ELSE access.folders, path)

=============================================================================
