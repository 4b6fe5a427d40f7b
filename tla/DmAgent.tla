------------------------------ MODULE DmAgent ------------------------------
(***************************************************************************)
(* The reply loops of the standalone DM agent (dm-agent/src/cli.js): it     *)
(* polls a conversation, runs a turn for each new question, sends the       *)
(* answer, and remembers in its state file how far it got.                  *)
(*                                                                         *)
(* The policy selects the loop.  Mode "peer" answers one named person:      *)
(* answers carry an idempotency key, and the first sight of the             *)
(* conversation only sets the cursor.  Mode "guest" answers visitors on     *)
(* share links: no key, and no baseline.                                    *)
(*                                                                         *)
(* One conversation is modelled.  State-file writes that follow each other  *)
(* with no await between them are one step.  A failed poll changes nothing  *)
(* and is left out; the self-restart it may lead to is Die, then Start.     *)
(***************************************************************************)
EXTENDS Integers, Sequences, FiniteSets

CONSTANTS
    Mode,                 \* the loops considered: "peer", "guest" or both
    MAX_MESSAGE_ATTEMPTS, \* failed attempts before a question is given up
    SendAttempts,         \* requests that api.withRetry makes for one reply
    MaxQuestions,         \* bound: questions asked
    MaxExits              \* bound: times the agent is stopped or killed

ASSUME DmAssumption ==
    /\ Mode \subseteq {"peer", "guest"}
    /\ MAX_MESSAGE_ATTEMPTS \in Nat \ {0}
    /\ SendAttempts \in Nat \ {0}
    /\ MaxQuestions \in Nat
    /\ MaxExits \in Nat

NoCursor == -1

\* Rows of the conversation; a row's id is its position.
Question == [kind |-> "question", to |-> 0]
Answer(q) == [kind |-> "answer", to |-> q]
Apology(q) == [kind |-> "apology", to |-> q]

VARIABLES
    mode,      \* the loop that the policy selects
    thread,    \* the conversation, kept by the hosted service
    cursor,    \* state file: id of the last row dealt with
    failures,  \* state file: question -> failed attempts so far
    pc,        \* the await the loop is parked on
    pending,   \* the fresh questions of this poll still to be handled
    maxId,     \* the newest row this poll saw
    tries,     \* requests made so far for the reply being sent
    stopping,  \* SIGINT or SIGTERM was received
    exits,     \* bound: stops and kills so far
    failed,    \* history: question -> failed attempts ever
    baseline   \* history: rows that were there when the agent first looked

loop == <<pc, pending, maxId, tries>>
vars == <<mode, thread, cursor, failures, loop, stopping, exits, failed, baseline>>

Ids == DOMAIN thread
Questions == {id \in Ids : thread[id] = Question}

Count(counts, q) == IF q \in DOMAIN counts THEN counts[q] ELSE 0
Increment(counts, q) ==
    [r \in DOMAIN counts \cup {q} |-> IF r = q THEN Count(counts, q) + 1 ELSE counts[r]]
\* A history need not count further than what a property asks about.
Noted(counts, q) ==
    IF Count(counts, q) > MAX_MESSAGE_ATTEMPTS + MaxExits THEN counts ELSE Increment(counts, q)
Clear(counts, q) == [r \in DOMAIN counts \ {q} |-> counts[r]]

Init ==
    /\ mode \in Mode
    /\ thread = <<>>
    /\ cursor = NoCursor
    /\ failures = <<>>
    /\ pc = "down" /\ pending = {} /\ maxId = 0 /\ tries = 0
    /\ stopping = FALSE
    /\ exits = 0
    /\ failed = <<>>
    /\ baseline = 0

-----------------------------------------------------------------------------
(* The other party, and the hosted service's record of the conversation.     *)

Ask ==
    /\ Cardinality(Questions) < MaxQuestions
    /\ thread' = Append(thread, Question)
    /\ UNCHANGED <<mode, cursor, failures, loop, stopping, exits, failed, baseline>>

\* Mutant of Keyed: sendHuman without its idempotency key.
KeyedNever == FALSE

\* sendHuman names the question in its idempotency key; replyToGuest has no key.
Keyed == mode = "peer"

\* A keyed reply that the service already holds is not stored again.
Stored(reply) ==
    IF Keyed /\ \E id \in Ids : thread[id] = reply THEN thread ELSE Append(thread, reply)

-----------------------------------------------------------------------------
(* A poll.                                                                   *)

FirstSight == mode = "peer" /\ cursor = NoCursor

\* The guest loop reads a missing cursor as 0.
From == IF cursor = NoCursor THEN 0 ELSE cursor

\* Mutant of Fresh: the row at the cursor is fetched again.
FreshFromCursorOn == {id \in Questions : id >= From}

Fresh == {id \in Questions : id > From}

Polling == pc = "poll" /\ ~stopping

PollFirst ==
    /\ Polling /\ FirstSight /\ thread # <<>>
    /\ cursor' = Len(thread)
    /\ baseline' = Len(thread)
    /\ UNCHANGED <<mode, thread, failures, loop, stopping, exits, failed>>

PollNothing ==
    /\ Polling /\ ~FirstSight /\ Fresh = {}
    /\ Len(thread) > From
    /\ cursor' = Len(thread)
    /\ UNCHANGED <<mode, thread, failures, loop, stopping, exits, failed, baseline>>

PollFresh ==
    /\ Polling /\ ~FirstSight /\ Fresh # {}
    /\ pc' = "turn"
    /\ pending' = Fresh
    /\ maxId' = Len(thread)
    /\ UNCHANGED <<mode, thread, cursor, failures, tries, stopping, exits, failed, baseline>>

-----------------------------------------------------------------------------
(* The questions of a poll, oldest first.                                    *)

Current == CHOOSE q \in pending : \A r \in pending : q <= r

\* Mutant of AfterQuestions: the guest loop does as the peer loop.
AfterQuestionsNewest(reached) == maxId

\* What follows the loop over the questions: only the peer loop moves the
\* cursor to the newest row it saw, whether the loop ended or broke off.
AfterQuestions(reached) == IF mode = "peer" THEN maxId ELSE reached

\* The question is behind us: cursor, failure count, and on to the next one.
Handled ==
    /\ pending' = pending \ {Current}
    /\ failures' = Clear(failures, Current)
    /\ cursor' = IF pending' = {} THEN AfterQuestions(Current) ELSE Current
    /\ pc' = IF pending' = {} THEN "poll" ELSE "turn"
    /\ tries' = 0
    /\ UNCHANGED maxId

\* Mutant of Failed: the failure is not recorded.
FailedUncounted ==
    /\ failed' = Noted(failed, Current)
    /\ pc' = "poll" /\ pending' = {} /\ tries' = 0
    /\ cursor' = AfterQuestions(cursor)
    /\ UNCHANGED <<failures, maxId>>

\* handleMessage threw: break off the loop, or report the failure and move on.
Failed ==
    /\ failures' = Increment(failures, Current)
    /\ failed' = Noted(failed, Current)
    /\ tries' = 0
    /\ UNCHANGED maxId
    /\ IF failures'[Current] < MAX_MESSAGE_ATTEMPTS
       THEN pc' = "poll" /\ pending' = {} /\ cursor' = AfterQuestions(cursor)
       ELSE pc' = "apology" /\ UNCHANGED <<pending, cursor>>

TurnAnswers ==
    /\ pc = "turn"
    /\ pc' = "send"
    /\ UNCHANGED <<mode, thread, cursor, failures, pending, maxId, tries, stopping, exits, failed, baseline>>

TurnFails ==
    /\ pc = "turn"
    /\ Failed
    /\ UNCHANGED <<mode, thread, stopping, exits, baseline>>

\* The reply that is being sent.
Reply == IF pc = "send" THEN Answer(Current) ELSE Apology(Current)

Sending == pc \in {"send", "apology"}

SendAnswered ==
    /\ Sending
    /\ thread' = Stored(Reply)
    /\ Handled
    /\ UNCHANGED <<mode, stopping, exits, failed, baseline>>

\* No more requests for this reply: an answer that was not sent is a failed
\* attempt, a report that was not sent is let go.
SendGivenUp ==
    IF pc = "send" THEN Failed ELSE Handled /\ UNCHANGED failed

\* A timeout, a network error or a 5xx: the service may have stored the reply.
SendLost ==
    /\ Sending
    /\ thread' \in {thread, Stored(Reply)}
    /\ IF tries + 1 < SendAttempts
       THEN tries' = tries + 1 /\ UNCHANGED <<cursor, failures, pc, pending, maxId, failed>>
       ELSE SendGivenUp
    /\ UNCHANGED <<mode, stopping, exits, baseline>>

\* A 4xx is not retried.
SendRefused ==
    /\ Sending
    /\ SendGivenUp
    /\ UNCHANGED <<mode, thread, stopping, exits, baseline>>

-----------------------------------------------------------------------------
(* Signals, kills and restarts.  The state file survives.                    *)

\* The first signal ends the loop after this iteration (and aborts a turn,
\* which then fails).
Stop ==
    /\ pc # "down" /\ ~stopping
    /\ exits < MaxExits
    /\ stopping' = TRUE
    /\ exits' = exits + 1
    /\ UNCHANGED <<mode, thread, cursor, failures, loop, failed, baseline>>

\* Mutant of Down: the failure counts are kept in memory only.
DownForgetsFailures ==
    /\ pc' = "down" /\ pending' = {} /\ maxId' = 0 /\ tries' = 0
    /\ stopping' = FALSE
    /\ failures' = <<>>
    /\ UNCHANGED <<mode, thread, cursor, failed, baseline>>

Down ==
    /\ pc' = "down" /\ pending' = {} /\ maxId' = 0 /\ tries' = 0
    /\ stopping' = FALSE
    /\ UNCHANGED <<mode, thread, cursor, failures, failed, baseline>>

Stopped ==
    /\ pc = "poll" /\ stopping
    /\ Down
    /\ UNCHANGED exits

\* A second signal, a kill, a power cut.
Die ==
    /\ pc # "down"
    /\ stopping \/ exits < MaxExits
    /\ Down
    /\ exits' = IF stopping THEN exits ELSE exits + 1

Start ==
    /\ pc = "down"
    /\ pc' = "poll"
    /\ UNCHANGED <<mode, thread, cursor, failures, pending, maxId, tries, stopping, exits, failed, baseline>>

-----------------------------------------------------------------------------
Poll == PollFirst \/ PollNothing \/ PollFresh
Turn == TurnAnswers \/ TurnFails
Send == SendAnswered \/ SendLost \/ SendRefused

Next == Ask \/ Poll \/ Turn \/ Send \/ Stop \/ Stopped \/ Die \/ Start

Spec == Init /\ [][Next]_vars

\* The loop keeps running: every await ends, with a result or an error
\* (requests and turns have timeouts), and a stopped agent is started again.
FairSpec == Spec /\ WF_vars(Poll) /\ WF_vars(Turn) /\ WF_vars(Send)
                 /\ WF_vars(Stopped) /\ WF_vars(Start)

-----------------------------------------------------------------------------
(* Properties.                                                               *)

TypeOK ==
    /\ \A id \in Ids : \/ thread[id] = Question
                       \/ thread[id].kind \in {"answer", "apology"} /\ thread[id].to \in Questions
    /\ cursor \in {NoCursor} \cup 0 .. Len(thread)
    /\ DOMAIN failures \subseteq Questions
    /\ \A q \in DOMAIN failures : failures[q] \in 1 .. MAX_MESSAGE_ATTEMPTS + exits
    /\ pc \in {"down", "poll", "turn", "send", "apology"}
    /\ pending \subseteq {q \in Questions : q > cursor /\ q <= maxId}
    /\ (pending # {}) = (pc \in {"turn", "send", "apology"})
    /\ maxId \in 0 .. Len(thread)
    /\ tries \in 0 .. SendAttempts - 1
    /\ stopping \in BOOLEAN
    /\ exits \in 0 .. MaxExits
    /\ baseline \in 0 .. Len(thread)

Replies(row) == {id \in Ids : thread[id] = row}

Settled(q) == Replies(Answer(q)) # {} \/ Count(failed, q) >= MAX_MESSAGE_ATTEMPTS

\* What the guest loop's cursor has passed is settled: the question has been
\* answered, or all its attempts were used up before it was given up
\* (cli.js:711, "leave the cursor; try again").
PassedQuestionsAreSettled ==
    mode = "guest" => \A q \in Questions : q <= cursor => Settled(q)

\* The same of either loop, for a question asked after the agent first looked:
\* a failed attempt leaves the cursor behind the question (cli.js:771).
FailedQuestionsAreRetried ==
    \A q \in Questions : q > baseline /\ q <= cursor => Settled(q)

\* A restart does not start the attempts at a question over (state.js:12: "a
\* restart that forgot it would re-enter the same loop from the top").  It
\* costs at most one more: the agent may die while it reports the failure.
AttemptsAreBounded ==
    \A q \in DOMAIN failed : failed[q] <= MAX_MESSAGE_ATTEMPTS + exits

\* Through retries, lost responses and restarts, the named person gets at most one
\* answer and at most one failure report for a question.
OneReplyPerQuestion ==
    mode = "peer" => \A q \in Questions :
        /\ Cardinality(Replies(Answer(q))) <= 1
        /\ Cardinality(Replies(Apology(q))) <= 1

\* The loop always catches up: every question is eventually behind the cursor,
\* and one that never works does not hold up the ones behind it (cli.js:760).
LoopCatchesUp ==
    []<>(\A q \in Questions : q <= cursor)
=============================================================================
