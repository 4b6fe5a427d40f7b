------------------------------ MODULE DmOutbox ------------------------------
(***************************************************************************)
(* The DM agent's outbox (outbox.js): decision rows that wait to reach      *)
(* Aicoo, in memory and in a file, and ride the guest poll (cli.js,         *)
(* api.guestMessages).  The audit file keeps every row; the outbox is what  *)
(* makes them arrive.  Rows are stored by their clientEventId, so the       *)
(* service keeps one copy of a row that is sent twice.                      *)
(***************************************************************************)
EXTENDS Integers, Sequences, SequenceRows

CONSTANTS
    Rows,         \* the rows recorded, numbered in the order they occur
    MAX_PENDING,  \* the backlog; older rows are dropped
    MAX_BATCH,    \* rows carried by one poll
    MAX_ATTEMPTS, \* answers that leave a row unconfirmed before it is dropped
    MaxFaults,    \* bound: lost requests and answers, writes that fail
    MaxKills      \* bound: times the process is killed

VARIABLES
    service,     \* "takes" rows, "ignores" them (an older one), or "refuses" the request
    store,       \* the rows the service has
    up,          \* the process runs
    waiting,     \* the rows in memory: [row, attempts]
    saved,       \* the rows that can be read in the file
    torn,        \* the file ends in half a line
    poll,        \* the rows the poll in flight carries; or none is in flight
    unsupported, \* uploadUnsupported: requests carry no rows any more
    recorded,    \* rows recorded so far
    answers,     \* history: answered polls that left the row unconfirmed
    excused,     \* history: rows the outbox may be without
    faults, kills

vars == <<service, store, up, waiting, saved, torn, poll, unsupported, recorded, answers, excused, faults, kills>>

Idle == [sent |-> FALSE]
RowsOf(q) == {q[i].row : i \in DOMAIN q}

Init ==
    /\ service \in {"takes", "ignores", "refuses"}
    /\ store = {}
    /\ up = TRUE
    /\ waiting = <<>> /\ saved = <<>> /\ torn = FALSE
    /\ poll = Idle /\ unsupported = FALSE
    /\ recorded = 0
    /\ answers = [r \in Rows |-> 0]
    /\ excused = {}
    /\ faults = 0 /\ kills = 0

\* How a write of the file may turn out: done, or an error that is only logged.
Fault == faults < MaxFaults /\ faults' = faults + 1
Well == UNCHANGED faults

-----------------------------------------------------------------------------
(* A row is recorded.                                                        *)

Row == recorded + 1
Entry == [row |-> Row, attempts |-> 0]

\* Beyond the backlog the oldest rows go.
WithinBacklog(q) == IF Len(q) > MAX_PENDING THEN SubSeq(q, Len(q) - MAX_PENDING + 1, Len(q)) ELSE q

\* A line that is appended to half a line cannot be read later.
Written == IF torn THEN saved ELSE Append(saved, Entry)

Record ==
    /\ up /\ Row \in Rows
    /\ recorded' = Row
    /\ waiting' = WithinBacklog(Append(waiting, Entry))
    /\ UNCHANGED <<service, store, up, poll, unsupported, answers, kills>>

\* The backlog is full: the file is rewritten without the oldest row (or rows, when
\* a rewrite failed and the file had kept more than the memory).
RecordOverflow ==
    /\ Record
    /\ Len(waiting) >= MAX_PENDING
    /\ \/ saved' = waiting' /\ torn' = FALSE /\ Well
       \/ UNCHANGED <<saved, torn>> /\ Fault
    /\ excused' = excused \cup (RowsOf(waiting) \ RowsOf(waiting')) \cup ({Row} \ RowsOf(saved'))

\* Otherwise a line is appended; a full disk must not stop the agent.
RecordAppended ==
    /\ Record
    /\ Len(waiting) < MAX_PENDING
    /\ \/ saved' = Written /\ torn' = FALSE /\ Well
       \/ UNCHANGED <<saved, torn>> /\ Fault
    /\ excused' = excused \cup ({Row} \ RowsOf(saved'))

-----------------------------------------------------------------------------
(* The poll that carries rows.                                               *)

Batch == SubSeq(waiting, 1, IF Len(waiting) < MAX_BATCH THEN Len(waiting) ELSE MAX_BATCH)

\* With rows to send, and a service that takes them as far as is known.
SendPoll ==
    /\ up /\ ~poll.sent /\ Batch # <<>> /\ ~unsupported
    /\ poll' = [sent |-> TRUE, rows |-> RowsOf(Batch)]
    /\ UNCHANGED <<service, store, up, waiting, saved, torn, unsupported, recorded, answers, excused, faults, kills>>

\* 404 or 405: polls are GET requests from here on, and the rows stay.
Refused ==
    /\ up /\ poll.sent /\ service = "refuses"
    /\ unsupported' = TRUE
    /\ poll' = Idle
    /\ UNCHANGED <<service, store, up, waiting, saved, torn, recorded, answers, excused, faults, kills>>

\* Mutant of Confirmed: whatever was sent and answered counts as delivered.
ConfirmedSent(accepted, rejected) == poll.rows

\* What leaves the outbox for good.
Confirmed(accepted, rejected) == accepted \cup rejected

Attempted(e) == IF e.row \in poll.rows THEN [e EXCEPT !.attempts = @ + 1] ELSE e

\* settle: confirmed rows go, the others of the batch are counted, and go when
\* their answers are used up.
Settled(accepted, rejected) ==
    LET Tried == [i \in DOMAIN waiting |-> Attempted(waiting[i])]
        Staying == {e \in {Tried[i] : i \in DOMAIN Tried} :
                        e.row \notin Confirmed(accepted, rejected) /\ e.attempts < MAX_ATTEMPTS}
    IN Kept(Tried, Staying)

\* The answer: some rows accepted, some refused for good, some not mentioned.
Answered(accepted, rejected) ==
    /\ up /\ poll.sent /\ service = "takes"
    /\ store' = store \cup accepted
    /\ waiting' = Settled(accepted, rejected)
    /\ \/ saved' = waiting' /\ torn' = FALSE /\ Well
       \/ UNCHANGED <<saved, torn>> /\ Fault
    /\ answers' = [r \in Rows |-> IF r \in poll.rows \ (accepted \cup rejected) /\ answers[r] < MAX_ATTEMPTS
                                  THEN answers[r] + 1 ELSE answers[r]]
    /\ excused' = excused \cup rejected \cup {r \in poll.rows : answers'[r] = MAX_ATTEMPTS}
    /\ poll' = Idle
    /\ UNCHANGED <<service, up, unsupported, recorded, kills>>

\* The service did not look at the rows: that is not delivery, nor an attempt.
AnsweredWithout ==
    /\ up /\ poll.sent /\ service = "ignores"
    /\ poll' = Idle
    /\ UNCHANGED <<service, store, up, waiting, saved, torn, unsupported, recorded, answers, excused, faults, kills>>

\* A timeout or an error: the service may have stored rows of the batch.
Lost ==
    /\ up /\ poll.sent
    /\ Fault
    /\ store' \in {store, IF service = "takes" THEN store \cup poll.rows ELSE store}
    /\ poll' = Idle
    /\ UNCHANGED <<service, up, waiting, saved, torn, unsupported, recorded, answers, excused, kills>>

-----------------------------------------------------------------------------
(* Kills, and a service that is brought up to date.                          *)

\* A kill may cut an append short: that line cannot be read, and the next one
\* is glued to it.  Rows that are only in memory are gone.
Die ==
    /\ up /\ kills < MaxKills
    /\ kills' = kills + 1
    /\ up' = FALSE
    /\ poll' = Idle /\ waiting' = <<>> /\ unsupported' = FALSE
    /\ \/ UNCHANGED <<torn, recorded, excused>>
       \/ /\ Row \in Rows
          /\ torn' = TRUE /\ recorded' = Row /\ excused' = excused \cup {Row}
    /\ UNCHANGED <<service, store, saved, answers, faults>>

Start ==
    /\ ~up
    /\ up' = TRUE
    /\ waiting' = saved
    /\ UNCHANGED <<service, store, saved, torn, poll, unsupported, recorded, answers, excused, faults, kills>>

Deploy ==
    /\ service # "takes"
    /\ service' = "takes"
    /\ UNCHANGED <<store, up, waiting, saved, torn, poll, unsupported, recorded, answers, excused, faults, kills>>

Answer == \E accepted \in SUBSET poll.rows : \E rejected \in SUBSET (poll.rows \ accepted) :
              Answered(accepted, rejected)

Next ==
    \/ RecordOverflow \/ RecordAppended
    \/ SendPoll \/ Refused \/ (poll.sent /\ Answer) \/ AnsweredWithout \/ Lost
    \/ Die \/ Start \/ Deploy

\* The agent is started again and polls; the service answers.
Fairness == WF_vars(Start) /\ WF_vars(SendPoll) /\ WF_vars(poll.sent /\ Answer)

Spec == Init /\ [][Next]_vars /\ Fairness

-----------------------------------------------------------------------------
(* Properties.                                                               *)

TypeOK ==
    /\ service \in {"takes", "ignores", "refuses"}
    /\ store \subseteq Rows
    /\ \A q \in {waiting, saved} : \A i \in DOMAIN q : q[i].row \in 1 .. recorded /\ q[i].attempts \in 0 .. MAX_ATTEMPTS - 1
    /\ Len(waiting) <= MAX_PENDING * (1 + faults)
    /\ poll = Idle \/ poll.rows \subseteq 1 .. recorded
    /\ \A b \in {up, torn, unsupported} : b \in BOOLEAN
    /\ answers \in [Rows -> 0 .. MAX_ATTEMPTS]

\* A row that is recorded arrives or is still waiting, in memory while the agent
\* runs and in the file when it does not, unless the service refused it, left it
\* unconfirmed in MAX_ATTEMPTS answers, the backlog overflowed, or its line was
\* never readable in the file (outbox.js:84, "rejected and failed are different answers").
RowsAreAccounted ==
    \A r \in 1 .. recorded : r \in store \cup excused \cup RowsOf(IF up THEN waiting ELSE saved)

\* A row waits once, and rows wait in the order they occurred.
RowsWaitInOrder ==
    \A q \in {waiting, saved} : \A i, j \in DOMAIN q : i < j => q[i].row < q[j].row

\* No row holds up the ones behind it: with a service that takes rows, and an agent
\* that has not stopped sending them, the outbox is empty again and again
\* (outbox.js:22, outbox.js:86).
OutboxDrains == []<>(up /\ (service = "takes" /\ ~unsupported => waiting = <<>>))
=============================================================================
