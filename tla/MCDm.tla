-------------------------------- MODULE MCDm --------------------------------
(***************************************************************************)
(* The DM agent on a small instance, one part of it in a behaviour: its     *)
(* reply loops, its approval gate, its process lock and restarts, its       *)
(* outbox, or its runtime's turns.  `part` is chosen in Init and the        *)
(* variables of the others keep their first value.                          *)
(***************************************************************************)
EXTENDS DmAgent

CONSTANTS Slots, MAX_ESCALATIONS_PER_TURN, MaxTurns, MaxCalls, MaxCommands, MaxStops,
          Pids, Nobody, RestartAfter, MinRestartGap, RateWindow, MaxRestarts, MaxTime, MaxLaunches,
          Rows, MAX_PENDING, MAX_BATCH, MAX_ATTEMPTS, MaxFaults, MaxKills,
          Runtimes, Visitors, NoSession, MaxSessions, MaxLosses

ASSUME GateAssumption ==
    /\ IsFiniteSet(Slots)
    /\ MAX_ESCALATIONS_PER_TURN \in Nat /\ MaxTurns \in Nat /\ MaxCalls \in Nat

\* Restarts are apart, and no further than the window in which they are counted:
\* reachability.js has ten minutes and an hour.
ASSUME HostAssumption ==
    /\ IsFiniteSet(Pids) /\ Nobody \notin Pids
    /\ MinRestartGap \in Nat \ {0} /\ RateWindow \in Nat /\ MinRestartGap <= RateWindow
    /\ MaxRestarts \in Nat /\ MaxTime \in Nat

ASSUME OutboxAssumption ==
    /\ Rows \subseteq Nat
    /\ MAX_PENDING \in Nat \ {0} /\ MAX_BATCH \in Nat \ {0} /\ MAX_ATTEMPTS \in Nat \ {0}
    /\ MaxFaults \in Nat

ASSUME TurnAssumption == MaxSessions \in Nat /\ NoSession \notin 1 .. MaxSessions

VARIABLES part,
          policy, wanted, turn, running, calls, escalations, armed, open, slot, decided, file, cli,
          memo, grants, stored, leaving, agreed, strayed, commands, stops,
          now, proc, lockFile, restarts, launches, history, raced, abandoned,
          service, store, up, waiting, saved, torn, poll, unsupported, recorded, answers, excused,
          faults, kills,
          runtime, sessions, content, gone, phase, visitor, resuming, session, text, retrying, outcome

gating == <<policy, wanted, turn, running, calls, escalations, armed, open, slot, decided, file, cli,
            memo, grants, stored, leaving, agreed, strayed, commands, stops>>
hosting == <<now, proc, lockFile, restarts, launches, history, raced, abandoned>>
uploading == <<service, store, up, waiting, saved, torn, poll, unsupported, recorded, answers, excused,
               faults, kills>>
turning == <<runtime, sessions, content, gone, phase, visitor, resuming, session, text, retrying, outcome>>

\* What the owner allows, and the calls that a behaviour makes under it: together they
\* reach every branch of the gate for both runtimes, alone and for guests.
C(tool, place, about) == [tool |-> tool, place |-> place, about |-> about]
Allows(kind, caps, guest, autoRead) == [runtime |-> kind, caps |-> caps, guest |-> guest, autoRead |-> autoRead]

FullClaude == Allows("claude", {"bash", "write", "skills"}, FALSE, FALSE)
BareClaude == Allows("claude", {}, FALSE, TRUE)
GuestClaude == Allows("claude", {"bash", "skills"}, TRUE, FALSE)
GuestCodex == Allows("codex", {"bash", "write"}, TRUE, FALSE)

Scenes == {
    <<FullClaude, {C("Read", "inside", "r"), C("Read", "walled", "w"), C("Write", "outside", "o")}>>,
    <<FullClaude, {C("Skill", "none", "s"), C("ToolSearch", "none", "x")}>>,
    <<BareClaude, {C("run_command", "declared", "d"), C("run_command", "undeclared", "u"),
                   C("Read", "inside", "r"), C("Skill", "none", "s")}>>,
    <<GuestClaude, {C("Skill", "none", "s"), C("Bash", "walled", "x")}>>,
    <<GuestCodex, {C("Bash", "inside", "b"), C("Bash", "walled", "v")}>>,
    <<GuestCodex, {C("Write", "hooks", "h"), C("Write", "outside", "g"), C("other", "none", "y")}>>}

Gate == INSTANCE DmGate WITH stopping <- leaving
Host == INSTANCE DmHost
Outbox == INSTANCE DmOutbox
Runtime == INSTANCE DmTurn

DmInit ==
    /\ part \in {"loops", "gate", "host", "outbox", "turn"}
    /\ Init /\ (part # "loops" => mode = CHOOSE m \in Mode : TRUE)
    /\ Gate!Init /\ (part # "gate" => <<policy, wanted>> = CHOOSE s \in Scenes : TRUE)
    /\ Host!Init
    /\ Outbox!Init /\ (part # "outbox" => service = "takes")
    /\ Runtime!Init /\ (part # "turn" => runtime = (CHOOSE r \in Runtimes : TRUE)
                                         /\ visitor = (CHOOSE v \in Visitors : TRUE))

InLoops == part = "loops"
InGate == part = "gate"
InHost == part = "host"
InOutbox == part = "outbox"
InTurn == part = "turn"

DmNext ==
    /\ \/ InLoops /\ Next /\ UNCHANGED <<gating, hosting, uploading, turning>>
       \/ InGate /\ Gate!Next /\ UNCHANGED <<vars, hosting, uploading, turning>>
       \/ InHost /\ Host!Next /\ UNCHANGED <<vars, gating, uploading, turning>>
       \/ InOutbox /\ Outbox!Next /\ UNCHANGED <<vars, gating, hosting, turning>>
       \/ InTurn /\ Runtime!Next /\ UNCHANGED <<vars, gating, hosting, uploading>>
    /\ UNCHANGED part

\* The fairness each module states, for the part that runs.
FairLoops ==
    /\ WF_vars(InLoops /\ Poll)
    /\ WF_vars(InLoops /\ Turn)
    /\ WF_vars(InLoops /\ Send)
    /\ WF_vars(InLoops /\ Stopped)
    /\ WF_vars(InLoops /\ Start)

FairGate ==
    /\ WF_gating(InGate /\ Gate!ClockFires)
    /\ \A s \in Slots : WF_gating(InGate /\ Gate!Unanswered(s))

FairOutbox ==
    /\ WF_uploading(InOutbox /\ Outbox!Start)
    /\ WF_uploading(InOutbox /\ Outbox!SendPoll)
    /\ WF_uploading(InOutbox /\ poll.sent /\ Outbox!Answer)

FairTurn == WF_turning(InTurn /\ Runtime!Breaks)

DmSpec ==
    /\ DmInit /\ [][DmNext]_<<part, vars, gating, hosting, uploading, turning>>
    /\ FairLoops /\ FairGate /\ FairOutbox /\ FairTurn

-----------------------------------------------------------------------------
\* See DmGate: nothing off limits is allowed, and what is allowed is what the owner
\* agreed to, whichever channel, clock, restart or late file comes between.
GateHolds ==
    /\ Gate!TypeOK
    /\ Gate!WallsHold
    /\ Gate!AllowedByOwner
    /\ Gate!GuestLeavesNothing
    /\ Gate!ClockWaitsForOwner
    /\ Gate!CancelledMeansNo

\* See DmHost, DmOutbox and DmTurn: one agent that restarts no more often than its limits,
\* no row lost that should arrive, no visitor in another's session.
HostSound ==
    /\ Host!TypeOK /\ Outbox!TypeOK /\ Runtime!TypeOK
    /\ Host!OneAgent
    /\ Host!RestartsAreLimited
    /\ Outbox!RowsAreAccounted
    /\ Outbox!RowsWaitInOrder
    /\ Runtime!SessionsAreIsolated
    /\ Runtime!AnswerIsRemembered

\* See DmGate, DmOutbox and DmTurn: no turn hangs, neither for an owner nor for a runtime
\* that is silent, and no row holds up the others.  One formula, since only one part runs.
HostSettles ==
    []<>(~running /\ phase = "idle" /\ up /\ (service = "takes" /\ ~unsupported => waiting = <<>>))
=============================================================================
