----------------------------- MODULE MCAdapters -----------------------------
(***************************************************************************)
(* The two runtime adapters, one of them in a behaviour: `part` is chosen   *)
(* in Init and the variables of the other one keep a value.                *)
(***************************************************************************)
EXTENDS Integers, Sequences, FiniteSets

CONSTANTS Grants, Boundaries, None, Overlap, FullAgent, Parts,
          MaxTurns, MaxQueries, MaxChanges, MaxCrashes

VARIABLES part, s, db, policy, chk, resumed, changes, crashes,
          call, loop, awaiting, procs, ended, released, turns, answers,
          codexTurns, events, resuming

claudeOnly == <<call, loop, awaiting, procs, ended, released, turns, answers>>
codexOnly == <<codexTurns, events, resuming>>

Claude == INSTANCE ClaudeSession
Codex == INSTANCE CodexSession WITH turns <- codexTurns

\* None is no grant and no boundary; the bounds are numbers.
AdaptersAssumption ==
    /\ None \notin Grants /\ None \notin Boundaries
    /\ {MaxTurns, MaxQueries, MaxChanges, MaxCrashes} \subseteq Nat

ASSUME AdaptersAssumption

NoClaude == /\ call = [c \in Claude!Callers |-> Claude!Idle] /\ loop = None /\ awaiting = <<>> /\ procs = <<>>
            /\ ended = {} /\ released = {} /\ turns = <<>> /\ answers = {}
NoCodex == codexTurns = <<>> /\ events = <<>> /\ resuming = FALSE

Init == \/ part = "claude" /\ Claude!Init /\ NoCodex
        \/ part = "codex" /\ Codex!Init /\ NoClaude

Next == /\ part \in Parts
        /\ \/ part = "claude" /\ Claude!Next /\ UNCHANGED codexOnly
           \/ part = "codex" /\ Codex!Next /\ UNCHANGED claudeOnly
        /\ UNCHANGED part

vars == <<part, s, db, policy, chk, resumed, changes, crashes, claudeOnly, codexOnly>>

Spec == Init /\ [][Next]_vars

-----------------------------------------------------------------------------
\* Types of either adapter's state.
TypeOK ==
    /\ part = "claude" => Claude!TypeOK
    /\ part = "codex" => Codex!TypeOK

\* ClaudeSession and CodexSession implement ConversationBinding.
Bindings == Claude!ImplementsBinding /\ Codex!ImplementsBinding

\* See ClaudeSession: a warm process is used only under the boundary of the policies.
ClaudeBoundary == Claude!WarmTurnsFitThePolicy

\* See ClaudeSession: no answer goes to a turn of another grant.  See CodexSession: the turn in
\* flight is the binding's, what was given up is not answered after all, and every turn that
\* ended is reported once.
Answers ==
    /\ part = "claude" => Claude!AnswersStayInTheirGrant
    /\ part = "codex" => Codex!TurnIsOfTheBinding
    /\ Codex!RepliesAreOfAckedTurns /\ Codex!TurnsAreReportedOnce
=============================================================================
