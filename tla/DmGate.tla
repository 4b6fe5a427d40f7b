------------------------------- MODULE DmGate -------------------------------
(***************************************************************************)
(* How the DM agent decides what a turn may do on the owner's machine:      *)
(* LocalDmAgent.decide for Claude and CodexResponder.decideApproval for     *)
(* Codex, with the ApprovalBroker that asks the owner, the grants it        *)
(* remembers, and the IdleClock that ends a stalled turn.                   *)
(*                                                                         *)
(* A call is what the gate tells apart: the tool, the place it reaches, and *)
(* what a standing grant for it would be about.  A slot is one question     *)
(* with its pending-approval file; ids are never reused, so a slot whose    *)
(* file was left behind serves again only after the next start sweeps it.   *)
(***************************************************************************)
EXTENDS Integers, FiniteSets

CONSTANTS
    Scenes,                   \* <<policy, calls>>: a policy is [runtime, caps, guest,
                              \* autoRead], a call is [tool, place, about]
    Slots,                    \* numbers of the questions that may be open at a time
    MAX_ESCALATIONS_PER_TURN, \* out-of-folder questions per turn
    MaxTurns,                 \* bound: turns
    MaxCalls,                 \* bound: calls of a behaviour
    MaxCommands,              \* bound: `approve` and `grants --revoke` commands
    MaxStops                  \* bound: times the process is stopped or killed

VARIABLES
    policy,      \* what the owner allows this relationship
    wanted,      \* the calls this behaviour makes
    turn,        \* turns begun so far
    running,     \* a turn is in flight
    calls,       \* calls made so far
    escalations, \* out-of-folder questions of this turn (Claude)
    armed,       \* the clock that ends the turn is ticking
    open,        \* IdleClock: questions it believes are open
    slot,        \* the question each slot holds
    decided,     \* the decision just returned to the runtime, if any
    file,        \* their pending-approval files
    cli,         \* `approve` commands that have read the file and not yet written it
    memo,        \* decisions kept for a couple of minutes, by call (Claude)
    grants,      \* standing decisions, in memory
    stored,      \* ... and in the state file
    stopping,    \* Ctrl-C
    agreed,      \* history: what the owner has agreed yes to
    strayed,     \* history: a question of an earlier turn was closed in this one
    commands, stops

asking == <<slot, file, cli>>
setup == <<policy, wanted>>
clock == <<armed, open>>
answers == <<memo, grants, stored, agreed>>
vars == <<setup, turn, running, calls, escalations, clock, asking, decided, answers, stopping, strayed, commands, stops>>

Free == [open |-> FALSE]
Nothing == [allow |-> FALSE]
Calls == UNION {scene[2] : scene \in Scenes}
Keys == {c.about : c \in Calls}
Claude == policy.runtime = "claude"

Init ==
    /\ \E scene \in Scenes : policy = scene[1] /\ wanted = scene[2]
    /\ turn = 0 /\ running = FALSE /\ calls = 0 /\ escalations = 0
    /\ armed = FALSE /\ open = 0
    /\ slot = [s \in Slots |-> Free] /\ decided = Nothing
    /\ file = [s \in Slots |-> "none"]
    /\ cli = [s \in Slots |-> "none"]
    /\ memo = [c \in Calls |-> "none"]
    /\ grants = [k \in Keys |-> "none"]
    /\ stored = grants
    /\ stopping = FALSE
    /\ agreed = {} /\ strayed = FALSE
    /\ commands = 0 /\ stops = 0

-----------------------------------------------------------------------------
(* What the policy says of a call.                                           *)

Capability(c) == CASE c.tool = "Skill" -> "skills" [] c.tool = "Bash" -> "bash"
                   [] c.tool = "Write" -> "write" [] OTHER -> "none"

Enabled(c) == Capability(c) \in policy.caps

\* Credential stores; and for writing, whatever gets executed later.
Walled(c) == c.place = "walled" \/ (c.tool = "Write" /\ c.place = "hooks")

\* A file tool that leaves the shared folders.
OutsideFile(c) == c.tool \in {"Read", "Write"} /\ c.place = "outside"

\* A command the owner declared, word for word.
Declared(c) == c.tool = "run_command" /\ c.place = "declared"

CommandRefused(c) == c.tool = "run_command" /\ ~Declared(c)

\* Out of the folders there are only so many questions in a turn.
OutsideRefused(c) == OutsideFile(c) /\ escalations >= MAX_ESCALATIONS_PER_TURN

\* #evaluate: what is refused without asking.
RefusedByClaude(c) ==
    \/ c.tool = "other"
    \/ CommandRefused(c)
    \/ Walled(c)
    \/ c.tool \in {"Skill", "Bash", "Write"} /\ ~Enabled(c)
    \/ c.tool = "Write" /\ c.place = "unnamed"
    \/ c.tool = "Read" /\ c.place = "traversal"
    \/ OutsideRefused(c)

\* #decideFileChange: it has to name its files.
ChangeRefusedByCodex(c) == c.tool = "Write" /\ (~Enabled(c) \/ Walled(c) \/ c.place = "unnamed")

\* decideApproval: permissions are never widened, a declared command is not looked
\* at further.
RefusedByCodex(c) ==
    \/ c.tool = "other"
    \/ c.tool = "Bash" /\ (~Enabled(c) \/ Walled(c))
    \/ ChangeRefusedByCodex(c)

Refused(c) == IF Claude THEN RefusedByClaude(c) ELSE RefusedByCodex(c)

\* What each runtime brings to the gate: Codex's sandbox serves reads and its own
\* tools by itself.
Brings(c) == Claude \/ c.tool \in {"Bash", "Write", "other"} \/ Declared(c)

\* Mutant of KeptByClaude: a guest's answers are kept too.
KeptForGuests(c) == Enabled(c) /\ ~OutsideFile(c)

KeptByClaude(c) == Enabled(c) /\ ~OutsideFile(c) /\ ~policy.guest

\* Codex keeps its answers about shell commands for guests as well.
KeptByCodex(c) == Enabled(c) /\ c.tool = "Bash"

\* The answer is kept in the state file, and given again without asking.
Standing(c) == IF Claude THEN KeptByClaude(c) ELSE KeptByCodex(c)

Remembered(c) == Standing(c) /\ grants[c.about] # "none"

\* --auto-allow-read
AutoAllowed(c) == Claude /\ c.tool = "Read" /\ c.place = "inside" /\ policy.autoRead

\* What the gate answers at once, if it does not ask.
AtOnce(c) ==
    IF c.tool = "ToolSearch" THEN "allow"
    ELSE IF Refused(c) THEN "deny"
    ELSE IF Remembered(c) THEN grants[c.about]
    ELSE IF AutoAllowed(c) THEN "allow"
    ELSE "ask"

-----------------------------------------------------------------------------
(* A turn, and its clock.                                                    *)

BeginTurn ==
    /\ ~running /\ ~stopping /\ turn < MaxTurns
    /\ turn' = turn + 1 /\ running' = TRUE /\ escalations' = 0
    /\ armed' = TRUE /\ open' = 0
    /\ strayed' = FALSE
    /\ decided' = Nothing
    /\ UNCHANGED <<setup, calls, asking, answers, stopping, commands, stops>>

TurnOver == running' = FALSE /\ armed' = FALSE /\ open' = 0

\* The runtime has answered, or failed, or died; its questions may still be open.
EndTurn ==
    /\ running /\ TurnOver
    /\ decided' = Nothing
    /\ UNCHANGED <<setup, turn, calls, escalations, asking, answers, stopping, strayed, commands, stops>>

\* The clock of Claude's turn, or the timer of Codex's, ran out.
ClockFires ==
    /\ armed
    /\ EndTurn

\* Only Claude's clock is stopped by a question.
Paused == IF Claude THEN open' = open + 1 /\ armed' = FALSE ELSE UNCHANGED clock

\* The owner's answer, and progress: the clock of whichever turn runs now.
Resumed ==
    IF Claude /\ running
    THEN open' = (IF open = 0 THEN 0 ELSE open - 1) /\ armed' = (open' = 0)
    ELSE UNCHANGED clock

-----------------------------------------------------------------------------
(* A call.                                                                   *)

Decide(c, answer, cancelled) == decided' = [call |-> c, allow |-> answer = "allow", cancelled |-> cancelled]

Memoized(c, answer) == IF Claude THEN memo' = [memo EXCEPT ![c] = answer] ELSE UNCHANGED memo

Idle(s) == slot[s] = Free /\ file[s] = "none" /\ cli[s] = "none"
NextIdle(s) == Idle(s) /\ \A r \in Slots : Idle(r) => s <= r

\* A call the runtime brings to the gate, here with a free slot.
Calling(s, c) ==
    /\ running /\ calls < MaxCalls /\ NextIdle(s) /\ Brings(c)
    /\ calls' = calls + 1
    /\ UNCHANGED <<setup, turn, running, stopping, strayed, commands, stops>>

CallMemoized(s, c) ==
    /\ Calling(s, c)
    /\ memo[c] # "none"
    /\ Decide(c, memo[c], FALSE)
    /\ UNCHANGED <<escalations, clock, asking, answers>>

\* Progress restarts the clock, unless a question is open.
CallAnswered(s, c) ==
    /\ Calling(s, c)
    /\ memo[c] = "none" /\ AtOnce(c) # "ask"
    /\ Decide(c, AtOnce(c), FALSE)
    /\ Memoized(c, AtOnce(c))
    /\ UNCHANGED <<escalations, clock, asking, grants, stored, agreed>>

\* The question is published in the terminal and as a file, and the call waits.
CallAsks(s, c) ==
    /\ Calling(s, c)
    /\ memo[c] = "none" /\ AtOnce(c) = "ask"
    /\ slot' = [slot EXCEPT ![s] = [open |-> TRUE, call |-> c, turn |-> turn, cancelled |-> FALSE]]
    /\ file' = [file EXCEPT ![s] = "open"]
    /\ escalations' = IF Claude /\ OutsideFile(c) THEN escalations + 1 ELSE escalations
    /\ Paused
    /\ decided' = Nothing
    /\ UNCHANGED <<cli, answers>>

Call(s) == \E c \in wanted : CallMemoized(s, c) \/ CallAnswered(s, c) \/ CallAsks(s, c)

-----------------------------------------------------------------------------
(* The owner's answer.  The first channel to speak decides.                  *)

Asked(s) == slot[s].open

\* What the owner's word is about: whatever the grant would cover, or this call.
About(c) == IF Standing(c) THEN [c EXCEPT !.tool = "any", !.place = "any"] ELSE c

\* setGrant: every save writes the whole of what is in memory.
Keep(c, answer) ==
    IF Standing(c)
    THEN grants' = [grants EXCEPT ![c.about] = answer] /\ stored' = grants'
    ELSE UNCHANGED <<grants, stored>>

\* The question is over: the prompt is torn down, the file removed, the answer
\* kept.  Silence counts as a refusal.
Close(s, answer) ==
    LET c == slot[s].call IN
    /\ slot' = [slot EXCEPT ![s] = Free]
    /\ Decide(c, answer, slot[s].cancelled)
    /\ file' = [file EXCEPT ![s] = "none"]
    /\ Keep(c, answer)
    /\ Memoized(c, answer)
    /\ Resumed
    /\ strayed' = (strayed \/ (running /\ slot[s].turn # turn))
    /\ UNCHANGED <<setup, turn, running, calls, escalations, cli, stopping, commands, stops>>

\* The owner agreed it, whether or not it is heard.
Said(s, answer) == agreed' = IF answer = "allow" /\ Asked(s) THEN agreed \cup {About(slot[s].call)} ELSE agreed

AnsweredAtTerminal(s) ==
    \E answer \in {"allow", "deny"} :
        /\ Asked(s) /\ ~slot[s].cancelled
        /\ Close(s, answer) /\ Said(s, answer)

\* A file that is gone, or half written, is a refusal.
AnswerInFile(s) == IF file[s] = "allow" THEN "allow" ELSE "deny"

WatchFile(s) ==
    /\ Asked(s) /\ ~slot[s].cancelled /\ file[s] # "open"
    /\ Close(s, AnswerInFile(s))
    /\ UNCHANGED agreed

\* No answer in time, or Ctrl-C.
Unanswered(s) ==
    /\ Asked(s)
    /\ Close(s, "deny")
    /\ UNCHANGED agreed

Answer(s) == AnsweredAtTerminal(s) \/ WatchFile(s) \/ Unanswered(s)

-----------------------------------------------------------------------------
(* Other processes of the owner.                                             *)

\* `approve` reads the record ...
Approve(s) ==
    /\ file[s] # "none" /\ cli[s] = "none" /\ commands < MaxCommands
    /\ \E answer \in {"allow", "deny"} : cli' = [cli EXCEPT ![s] = answer] /\ Said(s, answer)
    /\ commands' = commands + 1
    /\ decided' = Nothing
    /\ UNCHANGED <<setup, turn, running, calls, escalations, clock, slot, file, memo, grants, stored, stopping, strayed, stops>>

\* ... opens the file for writing, whether or not it is still there ...
Truncate(s) ==
    /\ cli[s] # "none" /\ file[s] # "torn"
    /\ file' = [file EXCEPT ![s] = "torn"]
    /\ decided' = Nothing
    /\ UNCHANGED <<setup, turn, running, calls, escalations, clock, slot, cli, answers, stopping, strayed, commands, stops>>

\* ... and writes it.
WriteDecision(s) ==
    /\ cli[s] # "none" /\ file[s] = "torn"
    /\ file' = [file EXCEPT ![s] = cli[s]]
    /\ cli' = [cli EXCEPT ![s] = "none"]
    /\ decided' = Nothing
    /\ UNCHANGED <<setup, turn, running, calls, escalations, clock, slot, answers, stopping, strayed, commands, stops>>

\* `grants --revoke`: the agent that runs does not look at the file again, and
\* its next save writes back what it remembers.
Revoke(k) ==
    /\ stored[k] # "none" /\ commands < MaxCommands
    /\ stored' = [stored EXCEPT ![k] = "none"]
    /\ commands' = commands + 1
    /\ decided' = Nothing
    /\ UNCHANGED <<setup, turn, running, calls, escalations, clock, asking, memo, grants, agreed, stopping, strayed, stops>>

\* A decision is kept for two minutes, ten seconds for a declared command.
Expire(c) ==
    /\ memo[c] # "none"
    /\ memo' = [memo EXCEPT ![c] = "none"]
    /\ decided' = Nothing
    /\ UNCHANGED <<setup, turn, running, calls, escalations, clock, asking, grants, stored, agreed, stopping, strayed, commands, stops>>

\* Ctrl-C: every open question is cancelled and the turn aborted.  The prompt
\* closes at once; the file's watcher notices at its next look.
Stop ==
    /\ ~stopping /\ stops < MaxStops
    /\ stopping' = TRUE
    /\ stops' = stops + 1
    /\ slot' = [s \in Slots |-> IF Asked(s) THEN [slot[s] EXCEPT !.cancelled = TRUE] ELSE slot[s]]
    /\ TurnOver
    /\ decided' = Nothing
    /\ UNCHANGED <<setup, turn, calls, escalations, file, cli, answers, strayed, commands>>

\* The process is gone and started again: only the state file is left, and the
\* files of questions nobody waits for are swept.  A kill is Stop, then this.
Restart ==
    /\ stopping
    /\ stopping' = FALSE
    /\ TurnOver
    /\ slot' = [s \in Slots |-> Free]
    /\ file' = [s \in Slots |-> "none"]
    /\ memo' = [c \in Calls |-> "none"]
    /\ grants' = stored
    /\ decided' = Nothing
    /\ UNCHANGED <<setup, turn, calls, escalations, cli, stored, agreed, strayed, commands, stops>>

-----------------------------------------------------------------------------
Next ==
    \/ BeginTurn \/ EndTurn \/ ClockFires \/ Stop \/ Restart
    \/ \E s \in Slots : Call(s) \/ Answer(s) \/ Approve(s) \/ Truncate(s) \/ WriteDecision(s)
    \/ \E k \in Keys : Revoke(k)
    \/ \E c \in wanted : Expire(c)

\* Timers fire; nobody has to answer, and no runtime has to end its turn.
Fairness ==
    /\ WF_vars(ClockFires)
    /\ \A s \in Slots : WF_vars(Unanswered(s))

Spec == Init /\ [][Next]_vars /\ Fairness

-----------------------------------------------------------------------------
(* Properties.                                                               *)

Decisions == {"none", "allow", "deny"}

TypeOK ==
    /\ <<policy, wanted>> \in Scenes
    /\ turn \in 0 .. MaxTurns /\ running \in BOOLEAN /\ calls \in 0 .. MaxCalls
    /\ escalations \in 0 .. MAX_ESCALATIONS_PER_TURN
    /\ armed \in BOOLEAN /\ open \in 0 .. Cardinality(Slots)
    /\ \A s \in Slots :
        slot[s] = Free \/ (slot[s].call \in wanted /\ slot[s].turn \in 1 .. turn)
    /\ file \in [Slots -> {"none", "open", "torn", "allow", "deny"}]
    /\ cli \in [Slots -> Decisions]
    /\ memo \in [Calls -> Decisions]
    /\ grants \in [Keys -> Decisions] /\ stored \in [Keys -> Decisions]

\* What the owner never put up for discussion.
OffLimits(c) ==
    \/ Walled(c) \/ c.tool = "other"
    \/ c.tool = "run_command" /\ c.place = "undeclared"
    \/ Capability(c) # "none" /\ ~Enabled(c)

\* Nothing that is off limits is ever allowed, and the owner is never even asked
\* about it, whatever was remembered, memoized or answered (agent.js:577, codex.js:81).
WallsHold ==
    /\ \A s \in Slots : Asked(s) => ~OffLimits(slot[s].call)
    /\ decided.allow => ~OffLimits(decided.call)

\* A call that is allowed was agreed to by the owner: that very call, or what a
\* grant for it is about; no timeout, half-written file, late command, restart or
\* answer to something else stands in for it (approval.js:19, "fail closed").
AllowedByOwner ==
    decided.allow => LET c == decided.call IN
        c.tool = "ToolSearch" \/ AutoAllowed(c) \/ About(c) \in agreed

\* A guest leaves nothing behind: Claude's answers are kept for nobody (policy.js:118).
GuestLeavesNothing ==
    Claude /\ policy.guest => \A k \in Keys : stored[k] = "none"

\* While the owner has a question of this turn in front of them the turn's clock
\* does not tick (idle.js:10) - unless a question that an earlier turn left open
\* was closed meanwhile: it resumes the clock of the turn that runs now.
ClockWaitsForOwner ==
    Claude /\ armed /\ ~strayed => ~\E s \in Slots : Asked(s) /\ slot[s].turn = turn

\* A question that Ctrl-C cancelled is not answered with yes any more, not even
\* by a decision that is already in its file (approval.js:36).
CancelledMeansNo ==
    decided.allow => ~decided.cancelled

\* No turn hangs: when the runtime is silent and nobody answers, timers end the
\* questions and then the turn (idle.js:4).
TurnsEnd == []<>~running
=============================================================================
