------------------------------- MODULE DmTurn -------------------------------
(***************************************************************************)
(* One turn after another of the DM agent's runtime: Claude through its     *)
(* SDK (LocalDmAgent.runTurn) or Codex through app-server (CodexResponder   *)
(* and CodexAppServerTurn).  Every conversation has a session of its own,   *)
(* remembered in the state file, that its next turn resumes.                *)
(*                                                                         *)
(* The runtime is external: it starts or resumes a session, which then      *)
(* holds what was said in it, may lose sessions, and may stop at any time.  *)
(* What a turn may do meanwhile is DmGate.                                  *)
(***************************************************************************)
EXTENDS Integers, FiniteSets

CONSTANTS
    Runtimes,     \* those considered: "claude", "codex"
    Visitors,     \* the conversations
    NoSession,
    MaxSessions,  \* bound: sessions the runtime creates
    MaxLosses     \* bound: sessions the runtime loses

VARIABLES
    runtime,
    sessions,  \* state file: the session of each conversation
    content,   \* runtime: the conversations whose messages each session holds
    gone,      \* runtime: sessions it does not find any more
    phase,     \* "idle", "starting", "working"
    visitor,   \* whose message this turn, or the last one, answers
    resuming,  \* the session asked for
    session,   \* the session the turn runs in
    text,      \* the runtime has said something that could be the answer
    retrying,  \* the turn runs for the second time
    outcome    \* how the last turn ended

vars == <<runtime, sessions, content, gone, phase, visitor, resuming, session, text, retrying, outcome>>

Claude == runtime = "claude"

Init ==
    /\ runtime \in Runtimes
    /\ sessions = [v \in Visitors |-> NoSession]
    /\ content = <<>>
    /\ gone = {}
    /\ phase = "idle"
    /\ visitor \in Visitors
    /\ resuming = NoSession /\ session = NoSession
    /\ text = FALSE /\ retrying = FALSE
    /\ outcome = "none"

Created == DOMAIN content

\* sessionFor: the session of this conversation and of no other.
SessionOf(v) == sessions[v]

BeginTurn(v) ==
    /\ phase = "idle"
    /\ phase' = "starting"
    /\ visitor' = v
    /\ resuming' = SessionOf(v)
    /\ session' = NoSession /\ text' = FALSE /\ retrying' = FALSE
    /\ outcome' = "none"
    /\ UNCHANGED <<runtime, sessions, content, gone>>

-----------------------------------------------------------------------------
(* The session starts.                                                       *)

Remember(s) == sessions' = [sessions EXCEPT ![visitor] = s]

\* The runtime reports its session, which is kept for this conversation.
Started(s, said) ==
    /\ content' = [x \in Created \cup {s} |-> IF x = s THEN said \cup {visitor} ELSE content[x]]
    /\ session' = s
    /\ Remember(s)
    /\ phase' = "working"
    /\ UNCHANGED <<runtime, gone, visitor, resuming, text, retrying, outcome>>

New == Cardinality(Created) + 1

StartFresh ==
    /\ phase = "starting" /\ resuming = NoSession
    /\ New <= MaxSessions
    /\ Started(New, {})

\* Resumed under its own id, or by Claude under a new one that continues it.
StartResumed ==
    /\ phase = "starting" /\ resuming \in Created \ gone
    /\ \/ Started(resuming, content[resuming])
       \/ Claude /\ New <= MaxSessions /\ Started(New, content[resuming])

-----------------------------------------------------------------------------
(* The turn ends.                                                            *)

Over(how) ==
    /\ phase' = "idle"
    /\ outcome' = how
    /\ UNCHANGED <<runtime, content, gone, visitor, resuming, session, text, retrying>>

\* Mutant of RunAgain: the fresh run still asks for the old session.
RunAgainResuming ==
    /\ phase' = "starting"
    /\ sessions' = [sessions EXCEPT ![visitor] = NoSession]
    /\ retrying' = TRUE /\ session' = NoSession /\ text' = FALSE
    /\ UNCHANGED <<runtime, content, gone, visitor, resuming, outcome>>

\* The session is forgotten and the message answered in a fresh one.
RunAgain ==
    /\ phase' = "starting"
    /\ sessions' = [sessions EXCEPT ![visitor] = NoSession]
    /\ resuming' = NoSession
    /\ retrying' = TRUE /\ session' = NoSession /\ text' = FALSE
    /\ UNCHANGED <<runtime, content, gone, visitor, outcome>>

\* Codex gives a resumed thread's message a second run whatever went wrong,
\* Claude only when the session was not found.
Fails(notFound) ==
    IF resuming # NoSession /\ (~Claude \/ notFound)
    THEN RunAgain
    ELSE Over("failed") /\ UNCHANGED sessions

\* "No conversation found", an error of thread/resume
NotFound ==
    /\ phase = "starting" /\ resuming \in gone
    /\ Fails(TRUE)

\* The runtime says something: an assistant text, an agent message.
Says ==
    /\ phase = "working" /\ ~text
    /\ text' = TRUE
    /\ UNCHANGED <<runtime, sessions, content, gone, phase, visitor, resuming, session, retrying, outcome>>

\* turn/completed, or a result: without any text there is no reply.
Completes ==
    /\ phase = "working"
    /\ IF text THEN Over("answered") /\ UNCHANGED sessions ELSE Fails(FALSE)

\* turn/failed, an error, the process gone, the timer: what was said is no answer.
Breaks ==
    /\ phase # "idle"
    /\ Fails(FALSE)

\* A Claude turn that ends in an error result has answered with its last text.
EndsInError ==
    /\ phase = "working" /\ Claude /\ text
    /\ Over("answered") /\ UNCHANGED sessions

-----------------------------------------------------------------------------
(* Outside.                                                                  *)

\* The runtime's own store of sessions is cleaned up.
Lose(s) ==
    /\ s \in Created \ gone /\ Cardinality(gone) < MaxLosses
    /\ gone' = gone \cup {s}
    /\ UNCHANGED <<runtime, sessions, content, phase, visitor, resuming, session, text, retrying, outcome>>

\* The agent is stopped or killed; the message will be handled again.
Die ==
    /\ phase # "idle"
    /\ Over("none") /\ UNCHANGED sessions

Next ==
    \/ \E v \in Visitors : BeginTurn(v)
    \/ StartFresh \/ StartResumed \/ NotFound
    \/ Says \/ Completes \/ Breaks \/ EndsInError
    \/ \E s \in Created : Lose(s)
    \/ Die

\* The idle clock and Codex's timer end a turn that does not end by itself.
Fairness == WF_vars(Breaks)

Spec == Init /\ [][Next]_vars /\ Fairness

-----------------------------------------------------------------------------
(* Properties.                                                               *)

TypeOK ==
    /\ sessions \in [Visitors -> Created \cup {NoSession}]
    /\ Created = 1 .. Cardinality(Created) /\ Cardinality(Created) <= MaxSessions
    /\ \A s \in Created : content[s] \subseteq Visitors
    /\ gone \subseteq Created
    /\ phase \in {"idle", "starting", "working"}
    /\ resuming \in Created \cup {NoSession} /\ session \in Created \cup {NoSession}
    /\ outcome \in {"none", "answered", "failed"}

\* No visitor's turn runs with another's messages in context, whatever is resumed,
\* continued under a new id, lost or run again (state.js:66).
SessionsAreIsolated ==
    /\ \A s \in Created : Cardinality(content[s]) <= 1
    /\ \A v, w \in Visitors : sessions[v] = sessions[w] /\ v # w => sessions[v] = NoSession

\* A returning visitor gets continuity with themselves: what answered is what the
\* next turn resumes, and a second run never asks for the session that failed
\* (state.js:75).
AnswerIsRemembered ==
    /\ outcome = "answered" => sessions[visitor] = session /\ visitor \in content[session]
    /\ retrying => resuming = NoSession

\* Every turn ends, even of a runtime that is silent for ever.
TurnsEnd == []<>(phase = "idle")
=============================================================================
