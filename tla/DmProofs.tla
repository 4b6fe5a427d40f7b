------------------------------ MODULE DmProofs ------------------------------
(***************************************************************************)
(* The safety of the DM agent, for any bounds, limits and conversations.    *)
(***************************************************************************)
EXTENDS MCDm, SequenceLemmas, FiniteSetTheorems

-----------------------------------------------------------------------------
(* The reply loops (DmAgent).                                               *)

Row == [kind : {"question", "answer", "apology"}, to : Nat]

Busy == pc \in {"turn", "send", "apology"}

\* Processes that have come to an end.
Ended == IF stopping THEN exits - 1 ELSE exits

LoopTypes ==
    /\ mode \in {"peer", "guest"}
    /\ thread \in Seq(Row)
    /\ \A id \in 1 .. Len(thread) :
          \/ thread[id] = Question
          \/ thread[id].kind \in {"answer", "apology"} /\ thread[id].to \in Questions
    /\ cursor \in {NoCursor} \cup 0 .. Len(thread)
    /\ pc \in {"down", "poll", "turn", "send", "apology"}
    /\ pending = IF Busy THEN {q \in Questions : q > cursor /\ q <= maxId} ELSE {}
    /\ Busy => pending # {}
    /\ maxId \in 0 .. Len(thread)
    /\ tries \in 0 .. SendAttempts - 1
    /\ stopping \in BOOLEAN
    /\ exits \in 0 .. MaxExits
    /\ stopping => exits > 0
    /\ baseline \in 0 .. Len(thread)

\* A failed attempt is counted in the state file, and the count of a question that
\* is still ahead is exact: it goes past the limit only while the question is given
\* up, or when a process ended while it did so.
CountsAreExact ==
    /\ failures \in [DOMAIN failures -> Nat \ {0}]
    /\ failed \in [DOMAIN failed -> Nat \ {0}]
    /\ DOMAIN failures \subseteq Questions /\ DOMAIN failed \subseteq Questions
    /\ \A q \in DOMAIN failures :
          failures[q] <= MAX_MESSAGE_ATTEMPTS + Ended
                         - (IF pc = "apology" /\ q = Current THEN 0 ELSE 1)
    /\ \A q \in Questions : q > cursor => Count(failed, q) = Count(failures, q)
    /\ pc = "apology" => Count(failures, Current) >= MAX_MESSAGE_ATTEMPTS

\* A keyed reply is in the conversation once.
RepliesAreDistinct ==
    mode = "peer" => \A i, j \in 1 .. Len(thread) :
        thread[i] # Question /\ thread[i] = thread[j] => i = j

LoopInv ==
    /\ LoopTypes
    /\ CountsAreExact
    /\ PassedQuestionsAreSettled
    /\ AttemptsAreBounded
    /\ RepliesAreDistinct

\* The conversation only grows, by a question or by a reply to a question in it.
Grown ==
    /\ thread' \in Seq(Row)
    /\ Len(thread) <= Len(thread')
    /\ \A id \in 1 .. Len(thread) : thread'[id] = thread[id]
    /\ \A id \in 1 .. Len(thread') :
          \/ thread'[id] = Question
          \/ thread'[id].kind \in {"answer", "apology"} /\ thread'[id].to \in Questions'
    /\ Questions \subseteq Questions'
    /\ \A q \in Questions' : q \in Questions \/ q > Len(thread)
    /\ Questions' \subseteq 1 .. Len(thread')
    /\ \A row : Replies(row) \subseteq Replies(row)'

LEMMA QuestionsAre ==
    ASSUME thread \in Seq(Row)
    PROVE  /\ Ids = 1 .. Len(thread) /\ Len(thread) \in Nat
           /\ Questions \subseteq 1 .. Len(thread) /\ Questions \subseteq Nat \ {0}
           /\ \A q \in 1 .. Len(thread) : q \in Questions <=> thread[q] = Question
  BY DEF Ids, Questions

\* The same of the conversation after a step.
LEMMA QuestionsAreNext ==
    ASSUME thread' \in Seq(Row)
    PROVE  /\ Ids' = 1 .. Len(thread') /\ Len(thread') \in Nat
           /\ Questions' \subseteq 1 .. Len(thread') /\ Questions' \subseteq Nat \ {0}
           /\ \A q \in 1 .. Len(thread') : q \in Questions' <=> thread'[q] = Question
  BY DEF Ids, Questions

LEMMA SameIsGrown ==
    ASSUME LoopTypes, thread' = thread
    PROVE  Grown
<1>1. Questions' = Questions /\ Ids' = Ids
  BY DEF Questions, Ids
<1>2. \A row : Replies(row)' = Replies(row)
  BY <1>1 DEF Replies
<1> QED
  BY <1>1, <1>2, QuestionsAre DEF LoopTypes, Grown

Fits(row) ==
    \/ row = Question
    \/ row.kind \in {"answer", "apology"} /\ row.to \in Questions

LEMMA AppendedIsGrown ==
    ASSUME LoopTypes, NEW row \in Row, thread' = Append(thread, row), Fits(row)
    PROVE  Grown /\ Replies(row)' # {}
<1>1. /\ thread \in Seq(Row) /\ thread' \in Seq(Row) /\ Len(thread) \in Nat
      /\ Len(thread') = Len(thread) + 1 /\ thread'[Len(thread) + 1] = row
      /\ \A id \in 1 .. Len(thread) : thread'[id] = thread[id]
  BY DEF LoopTypes
<1>2. /\ Ids = 1 .. Len(thread) /\ Ids' = 1 .. Len(thread')
      /\ Questions' \subseteq 1 .. Len(thread')
      /\ \A q \in 1 .. Len(thread) : q \in Questions <=> thread[q] = Question
      /\ \A q \in 1 .. Len(thread') : q \in Questions' <=> thread'[q] = Question
  BY <1>1, QuestionsAre, QuestionsAreNext
<1>3. Questions \subseteq Questions'
  BY <1>1, <1>2 DEF Questions
<1>4. \A q \in Questions' : q \in Questions \/ q > Len(thread)
  BY <1>1, <1>2
<1>5. ASSUME NEW id \in 1 .. Len(thread')
      PROVE  \/ thread'[id] = Question
             \/ thread'[id].kind \in {"answer", "apology"} /\ thread'[id].to \in Questions'
  <2>1. CASE id \in 1 .. Len(thread)
    BY <1>1, <1>3, <2>1 DEF LoopTypes
  <2>2. CASE id = Len(thread) + 1
    BY <1>1, <1>3, <2>2 DEF Fits
  <2> QED
    BY <1>1, <2>1, <2>2
<1>6. \A r : Replies(r) \subseteq Replies(r)'
  BY <1>1, <1>2 DEF Replies
<1>7. Replies(row)' # {}
  BY <1>1, <1>2 DEF Replies
<1> QED
  BY <1>1, <1>2, <1>3, <1>4, <1>5, <1>6, <1>7 DEF Grown

\* The question that is handled is the oldest of those that are pending.
LEMMA CurrentIsFirst ==
    ASSUME LoopTypes, Busy
    PROVE  /\ Current \in pending /\ \A q \in pending : Current <= q
           /\ Current \in Questions /\ Current > cursor /\ Current <= maxId
           /\ Current \in Nat \ {0} /\ Current <= Len(thread)
<1>1. pending \subseteq Nat /\ pending # {}
  BY QuestionsAre DEF LoopTypes
<1>2. \E q \in pending : \A r \in pending : q <= r
  BY <1>1, LeastNumber
<1>3. Current \in pending /\ \A q \in pending : Current <= q
  BY <1>2 DEF Current
<1>4. Current \in Questions /\ Current > cursor /\ Current <= maxId
  BY <1>3 DEF LoopTypes
<1> QED
  BY <1>3, <1>4, QuestionsAre DEF LoopTypes

LEMMA RepliesAreRows ==
    ASSUME LoopTypes, NEW q \in Questions, NEW row \in {Answer(q), Apology(q)}
    PROVE  /\ row \in Row /\ row # Question
           /\ row.kind \in {"answer", "apology"} /\ row.to \in Questions
<1>1. q \in Nat
  BY QuestionsAre DEF LoopTypes
<1> QED
  BY <1>1 DEF Answer, Apology, Row, Question

\* Every step grows the conversation, and keeps keyed replies distinct.
LEMMA StoredIsGrown ==
    ASSUME LoopTypes, RepliesAreDistinct, UNCHANGED mode, Sending, thread' = Stored(Reply)
    PROVE  Grown /\ RepliesAreDistinct' /\ \E row : row = Reply /\ Replies(row)' # {}
<1> DEFINE row == Reply
<1>1. Current \in Questions /\ row \in {Answer(Current), Apology(Current)}
  BY CurrentIsFirst DEF Sending, Busy, Reply
<1>2. /\ row \in Row /\ row # Question
      /\ row.kind \in {"answer", "apology"} /\ row.to \in Questions
  BY <1>1, RepliesAreRows
<1>3. thread' = IF Keyed /\ \E id \in Ids : thread[id] = row THEN thread ELSE Append(thread, row)
  BY DEF Stored
<1>4. PICK reply \in Row : reply = row
  BY <1>2
<1> HIDE DEF row
<1>5. CASE Keyed /\ \E id \in Ids : thread[id] = row
  <2>1. thread' = thread
    BY <1>3, <1>5
  <2>2. Grown
    BY <2>1, SameIsGrown
  <2>3. Replies(reply)' # {}
    BY <1>4, <1>5, <2>1 DEF Replies, Ids
  <2>4. RepliesAreDistinct'
    BY <2>1 DEF RepliesAreDistinct
  <2> QED
    BY <1>4, <2>2, <2>3, <2>4 DEF row
<1>6. CASE ~(Keyed /\ \E id \in Ids : thread[id] = row)
  <2>1. thread' = Append(thread, reply)
    BY <1>3, <1>4, <1>6
  <2>2. Grown /\ Replies(reply)' # {}
    BY <1>2, <1>4, <2>1, AppendedIsGrown DEF Fits
  <2>3. RepliesAreDistinct'
    <3> SUFFICES ASSUME mode = "peer", NEW i \in 1 .. Len(thread'), NEW j \in 1 .. Len(thread'),
                        thread'[i] # Question, thread'[i] = thread'[j]
                 PROVE  i = j
      BY DEF RepliesAreDistinct
    <3>1. /\ thread \in Seq(Row) /\ Len(thread) \in Nat /\ Ids = 1 .. Len(thread)
          /\ Len(thread') = Len(thread) + 1 /\ thread'[Len(thread) + 1] = reply
          /\ \A id \in 1 .. Len(thread) : thread'[id] = thread[id]
      BY <2>1, QuestionsAre DEF LoopTypes
    <3>2. \A id \in 1 .. Len(thread) : thread[id] # reply
      BY <1>4, <1>6, <3>1 DEF Keyed
    <3>3. CASE i \in 1 .. Len(thread) /\ j \in 1 .. Len(thread)
      BY <3>1, <3>3 DEF RepliesAreDistinct
    <3>4. CASE i = Len(thread) + 1 \/ j = Len(thread) + 1
      BY <3>1, <3>2, <3>4
    <3> QED
      BY <3>1, <3>3, <3>4
  <2> QED
    BY <1>4, <2>2, <2>3 DEF row
<1> QED
  BY <1>5, <1>6

-----------------------------------------------------------------------------
(* Counts.                                                                  *)

Counts(f) == f \in [DOMAIN f -> Nat \ {0}]

\* The counts g are the counts f with one more for q.
OneMore(f, g, q) ==
    /\ Counts(g) /\ DOMAIN g = DOMAIN f \cup {q}
    /\ g[q] = Count(f, q) + 1
    /\ \A r \in DOMAIN f \ {q} : g[r] = f[r]
    /\ \A r : Count(f, r) \in Nat
    /\ Count(g, q) = Count(f, q) + 1
    /\ \A r : r # q => Count(g, r) = Count(f, r)

LEMMA Counting ==
    ASSUME NEW f, Counts(f), NEW q
    PROVE  OneMore(f, Increment(f, q), q)
<1> DEFINE g == Increment(f, q)
<1>1. \A r : Count(f, r) \in Nat
  BY DEF Count, Counts
<1>2. g = [r \in DOMAIN f \cup {q} |-> IF r = q THEN Count(f, q) + 1 ELSE f[r]]
  BY DEF Increment
<1> HIDE DEF g
<1>3. /\ DOMAIN g = DOMAIN f \cup {q} /\ g[q] = Count(f, q) + 1
      /\ \A r \in DOMAIN f \ {q} : g[r] = f[r]
  BY <1>2
<1>4. Counts(g)
  BY <1>1, <1>2, <1>3 DEF Counts
<1>5. Count(g, q) = Count(f, q) + 1
  BY <1>3 DEF Count
<1>6. \A r : r # q => Count(g, r) = Count(f, r)
  BY <1>3 DEF Count
<1> QED
  <2>1. OneMore(f, g, q)
    BY <1>1, <1>3, <1>4, <1>5, <1>6 DEF OneMore
  <2> QED
    BY <2>1 DEF g

LEMMA Clearing ==
    ASSUME NEW f, Counts(f), NEW q
    PROVE  /\ Counts(Clear(f, q)) /\ DOMAIN Clear(f, q) = DOMAIN f \ {q}
           /\ \A r \in DOMAIN f \ {q} : Clear(f, q)[r] = f[r]
           /\ \A r : r # q => Count(Clear(f, q), r) = Count(f, r)
  BY DEF Clear, Counts, Count

\* What is settled stays settled.
LEMMA SettledStays ==
    ASSUME Grown, Counts(failed), Counts(failed'),
           \A q : Count(failed, q) <= Count(failed', q), NEW q, Settled(q)
    PROVE  Settled(q)'
<1>1. CASE Replies(Answer(q)) # {}
  <2>1. PICK row : row = Answer(q)
    OBVIOUS
  <2>2. Replies(row)' # {}
    BY <1>1, <2>1 DEF Grown
  <2> QED
    BY <2>1, <2>2 DEF Settled, Replies, Answer
<1>2. CASE Count(failed, q) >= MAX_MESSAGE_ATTEMPTS
  <2>1. Count(failed, q) \in Nat /\ Count(failed', q) \in Nat
    BY DEF Counts, Count
  <2>2. Count(failed', q) >= MAX_MESSAGE_ATTEMPTS
    BY <1>2, <2>1, DmAssumption
  <2> QED
    BY <2>2 DEF Settled, Count
<1> QED
  BY <1>1, <1>2 DEF Settled

-----------------------------------------------------------------------------
(* Steps.                                                                   *)

LEMMA Bounds ==
    ASSUME LoopInv
    PROVE  /\ cursor \in Int /\ cursor <= Len(thread) /\ Len(thread) \in Nat
           /\ maxId \in Nat /\ maxId <= Len(thread)
           /\ exits \in Nat /\ MaxExits \in Nat /\ exits <= MaxExits
           /\ Ended \in Nat /\ Ended <= exits
           /\ MAX_MESSAGE_ATTEMPTS \in Nat \ {0} /\ SendAttempts \in Nat \ {0}
           /\ Counts(failures) /\ Counts(failed)
           /\ Questions \subseteq Nat \ {0}
           /\ \A q \in Questions : q <= Len(thread)
<1>1. /\ thread \in Seq(Row) /\ cursor \in Int /\ cursor <= Len(thread)
      /\ maxId \in Nat /\ maxId <= Len(thread)
  BY DEF LoopInv, LoopTypes, NoCursor
<1>2. /\ exits \in Nat /\ MaxExits \in Nat /\ exits <= MaxExits
      /\ Ended \in Nat /\ Ended <= exits
      /\ MAX_MESSAGE_ATTEMPTS \in Nat \ {0} /\ SendAttempts \in Nat \ {0}
  BY DmAssumption DEF LoopInv, LoopTypes, Ended
<1>3. Counts(failures) /\ Counts(failed)
  BY DEF LoopInv, LoopTypes, CountsAreExact, Counts
<1>4. /\ Len(thread) \in Nat /\ Questions \subseteq Nat \ {0}
      /\ \A q \in Questions : q <= Len(thread)
  BY <1>1, QuestionsAre
<1> QED
  BY <1>1, <1>2, <1>3, <1>4

\* The loop stays where it is; the conversation may grow, and a signal may come.
LEMMA WaitingPreserves ==
    ASSUME LoopInv, Grown, RepliesAreDistinct',
           UNCHANGED <<mode, cursor, failures, pending, maxId, failed, baseline>>,
           pc' = pc \/ (pc = "turn" /\ pc' = "send"),
           tries' \in 0 .. SendAttempts - 1,
           \/ UNCHANGED <<stopping, exits>>
           \/ ~stopping /\ stopping' = TRUE /\ exits' = exits + 1 /\ exits < MaxExits
    PROVE  LoopInv'
<1>1. /\ Len(thread') \in Nat /\ Len(thread) <= Len(thread') /\ Questions \subseteq Questions'
      /\ \A q \in Questions' : q \in Questions \/ q > Len(thread)
      /\ Questions' \subseteq Nat \ {0}
  BY QuestionsAreNext DEF Grown
<1>2. stopping \in BOOLEAN
  BY DEF LoopInv, LoopTypes
<1>3. Ended' = Ended /\ exits' \in Nat /\ exits <= exits' /\ exits' <= MaxExits
  BY <1>2, Bounds DEF Ended
<1>4. Busy' = Busy /\ Current' = Current
  BY DEF Busy, Current
<1>5. LoopTypes'
  <2>1. /\ mode' \in {"peer", "guest"} /\ cursor' \in {NoCursor} \cup 0 .. Len(thread')
        /\ pc' \in {"down", "poll", "turn", "send", "apology"}
        /\ maxId' \in 0 .. Len(thread') /\ baseline' \in 0 .. Len(thread')
    BY <1>1, Bounds DEF LoopInv, LoopTypes
  <2>2. stopping' \in BOOLEAN /\ exits' \in 0 .. MaxExits /\ (stopping' => exits' > 0)
    <3>1. CASE UNCHANGED <<stopping, exits>>
      BY <3>1 DEF LoopInv, LoopTypes
    <3>2. CASE ~stopping /\ stopping' = TRUE /\ exits' = exits + 1 /\ exits < MaxExits
      BY <1>3, <3>2, Bounds
    <3> QED
      BY <3>1, <3>2
  <2>3. {q \in Questions' : q > cursor /\ q <= maxId} = {q \in Questions : q > cursor /\ q <= maxId}
    <3>1. \A q \in Questions' : q <= maxId => q \in Questions
      BY <1>1, Bounds
    <3> QED
      BY <1>1, <3>1
  <2>4. /\ pending' = IF Busy' THEN {q \in Questions' : q > cursor' /\ q <= maxId'} ELSE {}
        /\ Busy' => pending' # {}
    BY <1>4, <2>3 DEF LoopInv, LoopTypes
  <2> QED
    BY <2>1, <2>2, <2>4 DEF LoopTypes, Grown
<1>6. CountsAreExact'
  <2>1. \A q \in Questions' : q > cursor' => Count(failed', q) = Count(failures', q)
    <3> SUFFICES ASSUME NEW q \in Questions', q > cursor
                 PROVE  Count(failed, q) = Count(failures, q)
      OBVIOUS
    <3>1. CASE q \in Questions
      BY <3>1 DEF LoopInv, CountsAreExact
    <3>2. CASE q > Len(thread)
      <4>1. q \notin DOMAIN failures /\ q \notin Questions
        BY <3>2, Bounds DEF LoopInv, CountsAreExact
      <4>2. q \notin DOMAIN failed
        BY <4>1 DEF LoopInv, CountsAreExact, AttemptsAreBounded
      <4> QED
        BY <4>1, <4>2 DEF Count
    <3> QED
      BY <1>1, <3>1, <3>2
  <2>2. pc' = "apology" <=> pc = "apology"
    OBVIOUS
  <2>3. \A q \in DOMAIN failures' :
          failures'[q] <= MAX_MESSAGE_ATTEMPTS + Ended'
                          - (IF pc' = "apology" /\ q = Current' THEN 0 ELSE 1)
    BY <1>3, <1>4, <2>2 DEF LoopInv, CountsAreExact
  <2>4. pc' = "apology" => Count(failures', Current') >= MAX_MESSAGE_ATTEMPTS
    BY <1>4, <2>2 DEF LoopInv, CountsAreExact
  <2> QED
    BY <1>1, <2>1, <2>3, <2>4 DEF LoopInv, CountsAreExact, Count
<1>7. PassedQuestionsAreSettled'
  <2> SUFFICES ASSUME mode = "guest", NEW q \in Questions', q <= cursor
               PROVE  Settled(q)'
    BY DEF PassedQuestionsAreSettled
  <2>1. q \in Questions
    BY <1>1, Bounds
  <2>2. Settled(q)
    BY <2>1 DEF LoopInv, PassedQuestionsAreSettled
  <2>3. Counts(failed) /\ Counts(failed') /\ \A r : Count(failed, r) <= Count(failed', r)
    BY Bounds DEF Counts, Count
  <2> QED
    BY <2>2, <2>3, SettledStays
<1>8. AttemptsAreBounded'
  BY <1>3, Bounds DEF LoopInv, AttemptsAreBounded, Counts
<1> QED
  BY <1>5, <1>6, <1>7, <1>8 DEF LoopInv

\* The question that was handled is settled, and the others stay as they are.
LEMMA HandledPreserves ==
    ASSUME LoopInv, Busy, Handled, Grown, RepliesAreDistinct',
           UNCHANGED <<mode, failed, stopping, exits, baseline>>,
           mode = "guest" => Settled(Current) \/ \E row : row = Answer(Current) /\ Replies(row)' # {}
    PROVE  LoopInv'
<1> DEFINE c == Current
           rest == pending \ {c}
<1>1. /\ c \in pending /\ \A q \in pending : c <= q
      /\ c \in Questions /\ c > cursor /\ c <= maxId /\ c \in Nat \ {0} /\ c <= Len(thread)
      /\ pending = {q \in Questions : q > cursor /\ q <= maxId}
  BY CurrentIsFirst DEF LoopInv, LoopTypes
<1>2. /\ pending' = rest /\ failures' = Clear(failures, c)
      /\ rest # {} => cursor' = c /\ pc' = "turn"
      /\ rest = {} => cursor' = (IF mode = "peer" THEN maxId ELSE c) /\ pc' = "poll"
      /\ tries' = 0 /\ maxId' = maxId
  BY DEF Handled, AfterQuestions
<1> HIDE DEF c, rest
<1>3. /\ Len(thread') \in Nat /\ Len(thread) <= Len(thread') /\ Questions \subseteq Questions'
      /\ \A q \in Questions' : q \in Questions \/ q > Len(thread)
      /\ Questions' \subseteq Nat \ {0}
  BY QuestionsAreNext DEF Grown
<1>4. cursor' \in Nat /\ c <= cursor' /\ cursor' <= maxId /\ cursor < cursor'
  BY <1>1, <1>2, Bounds
<1>5. LoopTypes'
  <2>1. /\ mode' \in {"peer", "guest"} /\ cursor' \in {NoCursor} \cup 0 .. Len(thread')
        /\ maxId' \in 0 .. Len(thread') /\ baseline' \in 0 .. Len(thread')
        /\ tries' \in 0 .. SendAttempts - 1
    BY <1>2, <1>3, <1>4, Bounds DEF LoopInv, LoopTypes
  <2>2. stopping' \in BOOLEAN /\ exits' \in 0 .. MaxExits /\ (stopping' => exits' > 0)
    BY DEF LoopInv, LoopTypes
  <2>3. CASE rest = {}
    <3>1. pending' = {} /\ ~Busy' /\ pc' = "poll"
      BY <1>2, <2>3 DEF Busy
    <3> QED
      BY <2>1, <2>2, <3>1 DEF LoopTypes, Grown
  <2>4. CASE rest # {}
    <3>1. pending' = rest /\ Busy' /\ pc' = "turn" /\ cursor' = c
      BY <1>2, <2>4 DEF Busy
    <3>2. rest = {q \in Questions' : q > c /\ q <= maxId}
      <4>1. \A q \in Questions' : q <= maxId => q \in Questions
        BY <1>3, Bounds
      <4>2. \A q \in Questions : q \in rest <=> q > c /\ q <= maxId
        <5>1. \A q \in Questions : q \in Nat
          BY Bounds
        <5> QED
          BY <1>1, <5>1, Bounds DEF rest
      <4>3. rest \subseteq Questions
        BY <1>1 DEF rest
      <4> QED
        BY <1>3, <4>1, <4>2, <4>3
    <3> QED
      BY <1>2, <2>1, <2>2, <2>4, <3>1, <3>2 DEF LoopTypes, Grown
  <2> QED
    BY <2>3, <2>4
<1>6. /\ Counts(failures') /\ DOMAIN failures' = DOMAIN failures \ {c}
      /\ \A r \in DOMAIN failures \ {c} : failures'[r] = failures[r]
      /\ \A r : r # c => Count(failures', r) = Count(failures, r)
  BY <1>2, Clearing, Bounds
<1>7. Ended' = Ended
  BY DEF Ended
<1>8. CountsAreExact'
  <2>1. \A q \in Questions' : q > cursor' => Count(failed', q) = Count(failures', q)
    <3> SUFFICES ASSUME NEW q \in Questions', q > cursor'
                 PROVE  Count(failed, q) = Count(failures, q)
      BY <1>3, <1>4, <1>6, <1>1
    <3>1. CASE q \in Questions
      BY <1>3, <1>4, <3>1, Bounds DEF LoopInv, CountsAreExact
    <3>2. CASE q > Len(thread)
      <4>1. q \notin Questions
        BY <3>2, Bounds
      <4> QED
        BY <4>1 DEF LoopInv, CountsAreExact, Count
    <3> QED
      BY <1>3, <3>1, <3>2
  <2>2. \A q \in DOMAIN failures' : failures'[q] <= MAX_MESSAGE_ATTEMPTS + Ended - 1
    <3> SUFFICES ASSUME NEW q \in DOMAIN failures \ {c}
                 PROVE  failures[q] <= MAX_MESSAGE_ATTEMPTS + Ended - 1
      BY <1>6
    <3> QED
      BY DEF LoopInv, CountsAreExact, c
  <2>3. pc' # "apology"
    BY <1>2
  <2>4. \A q \in DOMAIN failures' :
          failures'[q] <= MAX_MESSAGE_ATTEMPTS + Ended'
                          - (IF pc' = "apology" /\ q = Current' THEN 0 ELSE 1)
    BY <1>7, <2>2, <2>3
  <2>5. DOMAIN failures' \subseteq Questions' /\ DOMAIN failed' \subseteq Questions'
    BY <1>3, <1>6 DEF LoopInv, CountsAreExact
  <2>6. (\A q \in Questions : q > cursor => Count(failed, q) = Count(failures, q))'
    BY <2>1 DEF Count
  <2> QED
    BY <1>6, <2>3, <2>4, <2>5, <2>6 DEF LoopInv, CountsAreExact, Counts
<1>9. PassedQuestionsAreSettled'
  <2> SUFFICES ASSUME mode = "guest", NEW q \in Questions', q <= cursor'
               PROVE  Settled(q)'
    BY DEF PassedQuestionsAreSettled
  <2>1. q \in Questions
    BY <1>3, <1>4, Bounds
  <2>2. cursor' = c
    BY <1>2 DEF LoopInv, LoopTypes
  <2>3. Counts(failed) /\ Counts(failed') /\ \A r : Count(failed, r) <= Count(failed', r)
    BY Bounds DEF Counts, Count
  <2>4. CASE q <= cursor
    <3>1. Settled(q)
      BY <2>1, <2>4 DEF LoopInv, PassedQuestionsAreSettled
    <3> QED
      BY <2>3, <3>1, SettledStays
  <2>5. CASE q > cursor
    <3>1. q = c
      BY <1>1, <2>1, <2>2, <2>5, Bounds
    <3>2. CASE Settled(q)
      BY <2>3, <3>2, SettledStays
    <3>3. CASE \E row : row = Answer(q) /\ Replies(row)' # {}
      BY <3>3 DEF Settled, Replies, Answer
    <3> QED
      BY <3>1, <3>2, <3>3 DEF c
  <2> QED
    BY <2>1, <2>4, <2>5, Bounds
<1>10. AttemptsAreBounded'
  BY DEF LoopInv, AttemptsAreBounded
<1> QED
  BY <1>5, <1>8, <1>9, <1>10 DEF LoopInv

\* A failed attempt is counted: the loop breaks off, or the question is given up.
LEMMA FailedPreserves ==
    ASSUME LoopInv, pc \in {"turn", "send"}, Failed, Grown, RepliesAreDistinct',
           UNCHANGED <<mode, stopping, exits, baseline>>
    PROVE  LoopInv'
<1> DEFINE c == Current
<1>1. /\ c \in pending /\ \A q \in pending : c <= q
      /\ c \in Questions /\ c > cursor /\ c <= maxId /\ c \in Nat \ {0} /\ c <= Len(thread)
      /\ pending = {q \in Questions : q > cursor /\ q <= maxId}
  BY CurrentIsFirst DEF LoopInv, LoopTypes, Busy
<1>2. /\ failures' = Increment(failures, c) /\ failed' = Noted(failed, c)
      /\ tries' = 0 /\ maxId' = maxId
      /\ IF failures'[c] < MAX_MESSAGE_ATTEMPTS
         THEN pc' = "poll" /\ pending' = {} /\ cursor' = (IF mode = "peer" THEN maxId ELSE cursor)
         ELSE pc' = "apology" /\ pending' = pending /\ cursor' = cursor
  BY DEF Failed, AfterQuestions
<1>3. pc' = "apology" => Current' = c
  BY <1>2 DEF Current
<1> HIDE DEF c
<1>4. /\ Len(thread') \in Nat /\ Len(thread) <= Len(thread') /\ Questions \subseteq Questions'
      /\ \A q \in Questions' : q \in Questions \/ q > Len(thread)
      /\ Questions' \subseteq Nat \ {0}
  BY QuestionsAreNext DEF Grown
<1>5. /\ cursor' \in {NoCursor} \cup 0 .. Len(thread') /\ cursor <= cursor' /\ cursor' \in Int
      /\ cursor' # cursor => mode = "peer"
  BY <1>1, <1>2, <1>4, Bounds DEF LoopInv, LoopTypes
<1>6. LoopTypes'
  <2>1. /\ mode' \in {"peer", "guest"}
        /\ maxId' \in 0 .. Len(thread') /\ baseline' \in 0 .. Len(thread')
        /\ tries' \in 0 .. SendAttempts - 1
    BY <1>2, <1>4, Bounds DEF LoopInv, LoopTypes
  <2>2. stopping' \in BOOLEAN /\ exits' \in 0 .. MaxExits /\ (stopping' => exits' > 0)
    BY DEF LoopInv, LoopTypes
  <2>3. CASE pc' = "poll"
    <3>1. pending' = {} /\ ~Busy'
      BY <1>2, <2>3 DEF Busy
    <3> QED
      BY <1>5, <2>1, <2>2, <2>3, <3>1 DEF LoopTypes, Grown
  <2>4. CASE pc' = "apology"
    <3>1. pending' = pending /\ Busy' /\ cursor' = cursor
      BY <1>2, <2>4 DEF Busy
    <3>2. pending = {q \in Questions' : q > cursor /\ q <= maxId}
      <4>1. \A q \in Questions' : q <= maxId => q \in Questions
        BY <1>4, Bounds
      <4> QED
        BY <1>1, <1>4, <4>1
    <3> QED
      BY <1>1, <1>2, <1>5, <2>1, <2>2, <2>4, <3>1, <3>2 DEF LoopTypes, Grown
  <2> QED
    BY <1>2, <2>3, <2>4
<1>7. /\ Counts(failures') /\ DOMAIN failures' = DOMAIN failures \cup {c}
      /\ failures'[c] = Count(failures, c) + 1
      /\ Count(failures', c) = Count(failures, c) + 1
      /\ \A r \in DOMAIN failures \ {c} : failures'[r] = failures[r]
      /\ \A r : r # c => Count(failures', r) = Count(failures, r)
      /\ \A r : Count(failures, r) \in Nat
  <2>1. Counts(failures) /\ failures' = Increment(failures, c)
    BY <1>2, Bounds
  <2>2. OneMore(failures, failures', c)
    BY <2>1, Counting
  <2> QED
    BY <2>2 DEF OneMore
<1>8. Count(failed, c) = Count(failures, c)
  BY <1>1 DEF LoopInv, CountsAreExact
<1>9. Count(failures, c) <= MAX_MESSAGE_ATTEMPTS + Ended - 1
  <2>1. CASE c \in DOMAIN failures
    <3>1. failures[c] <= MAX_MESSAGE_ATTEMPTS + Ended - 1
      BY <2>1, pc # "apology" DEF LoopInv, CountsAreExact
    <3> QED
      BY <2>1, <3>1 DEF Count
  <2>2. CASE c \notin DOMAIN failures
    BY <2>2, Bounds DEF Count
  <2> QED
    BY <2>1, <2>2
<1>10. failed' = Increment(failed, c)
  <2>1. ~(Count(failed, c) > MAX_MESSAGE_ATTEMPTS + MaxExits)
    BY <1>7, <1>8, <1>9, Bounds
  <2> QED
    BY <1>2, <2>1 DEF Noted
<1>11. /\ Counts(failed') /\ DOMAIN failed' = DOMAIN failed \cup {c}
       /\ failed'[c] = Count(failures, c) + 1
       /\ Count(failed', c) = Count(failures, c) + 1
       /\ \A r \in DOMAIN failed \ {c} : failed'[r] = failed[r]
       /\ \A r : r # c => Count(failed', r) = Count(failed, r)
       /\ \A r : Count(failed, r) \in Nat
  <2>1. Counts(failed) /\ failed' = Increment(failed, c)
    BY <1>10, Bounds
  <2>2. OneMore(failed, failed', c)
    BY <2>1, Counting
  <2> QED
    BY <1>8, <2>2 DEF OneMore
<1>12. Ended' = Ended
  BY DEF Ended
<1>13. CountsAreExact'
  <2>1. \A q \in Questions' : q > cursor' => Count(failed', q) = Count(failures', q)
    <3> SUFFICES ASSUME NEW q \in Questions', q > cursor', q # c
                 PROVE  Count(failed, q) = Count(failures, q)
      BY <1>7, <1>11
    <3>1. CASE q \in Questions
      BY <1>4, <1>5, <3>1, Bounds DEF LoopInv, CountsAreExact
    <3>2. CASE q > Len(thread)
      <4>1. q \notin Questions
        BY <3>2, Bounds
      <4> QED
        BY <4>1 DEF LoopInv, CountsAreExact, Count
    <3> QED
      BY <1>4, <3>1, <3>2
  <2>2. ASSUME NEW q \in DOMAIN failures', q # c
        PROVE  failures'[q] <= MAX_MESSAGE_ATTEMPTS + Ended - 1
    <3>1. q \in DOMAIN failures /\ failures'[q] = failures[q]
      BY <1>7, <2>2
    <3> QED
      BY <3>1, pc # "apology" DEF LoopInv, CountsAreExact
  <2>3. failures'[c] <= MAX_MESSAGE_ATTEMPTS + Ended
    BY <1>7, <1>9, Bounds
  <2>4. pc' # "apology" => failures'[c] <= MAX_MESSAGE_ATTEMPTS + Ended - 1
    BY <1>2, <1>7, Bounds
  <2>5. \A q \in DOMAIN failures' :
          failures'[q] <= MAX_MESSAGE_ATTEMPTS + Ended'
                          - (IF pc' = "apology" /\ q = Current' THEN 0 ELSE 1)
    <3> SUFFICES ASSUME NEW q \in DOMAIN failures'
                 PROVE  failures'[q] <= MAX_MESSAGE_ATTEMPTS + Ended
                                        - (IF pc' = "apology" /\ q = Current' THEN 0 ELSE 1)
      BY <1>12
    <3>1. CASE q = c
      BY <1>3, <2>3, <2>4, <3>1, Bounds
    <3>2. CASE q # c
      <4>1. ~(pc' = "apology" /\ q = Current')
        BY <1>3, <3>2
      <4> QED
        BY <2>2, <3>2, <4>1
    <3> QED
      BY <3>1, <3>2
  <2>6. DOMAIN failures' \subseteq Questions' /\ DOMAIN failed' \subseteq Questions'
    BY <1>1, <1>4, <1>7, <1>11 DEF LoopInv, CountsAreExact
  <2>7. pc' = "apology" => Count(failures', Current') >= MAX_MESSAGE_ATTEMPTS
    BY <1>2, <1>3, <1>7, Bounds
  <2>8. /\ (\A q \in Questions : q > cursor => Count(failed, q) = Count(failures, q))'
        /\ (pc = "apology" => Count(failures, Current) >= MAX_MESSAGE_ATTEMPTS)'
    BY <2>1, <2>7 DEF Count
  <2> QED
    BY <1>7, <1>11, <2>5, <2>6, <2>8 DEF CountsAreExact, Counts
<1>14. PassedQuestionsAreSettled'
  <2> SUFFICES ASSUME mode = "guest", NEW q \in Questions', q <= cursor'
               PROVE  Settled(q)'
    BY DEF PassedQuestionsAreSettled
  <2>1. cursor' = cursor /\ q \in Questions
    BY <1>4, <1>5, Bounds
  <2>2. Settled(q)
    BY <2>1 DEF LoopInv, PassedQuestionsAreSettled
  <2>3. \A r : Count(failed, r) <= Count(failed', r)
    BY <1>7, <1>8, <1>11
  <2> QED
    BY <1>11, <2>2, <2>3, SettledStays, Bounds
<1>15. AttemptsAreBounded'
  <2>1. failed'[c] <= MAX_MESSAGE_ATTEMPTS + exits
    BY <1>7, <1>9, <1>11, Bounds
  <2>2. \A q \in DOMAIN failed : failed[q] <= MAX_MESSAGE_ATTEMPTS + exits
    BY DEF LoopInv, AttemptsAreBounded
  <2> QED
    BY <1>11, <2>1, <2>2 DEF AttemptsAreBounded
<1> QED
  BY <1>6, <1>13, <1>14, <1>15 DEF LoopInv

\* A poll that finds nothing to do moves the cursor to the newest row; one of the
\* guest loop does so only when there is no question that it has not settled.
LEMMA PollPreserves ==
    ASSUME LoopInv, Poll
    PROVE  LoopInv'
<1>1. /\ pc = "poll" /\ ~Busy /\ pending = {}
      /\ UNCHANGED <<mode, thread, failures, failed, tries, stopping, exits>>
  BY DEF Poll, PollFirst, PollNothing, PollFresh, Polling, Busy, loop, LoopInv, LoopTypes
<1>2. Questions' = Questions /\ Ended' = Ended /\ Ids' = Ids
  BY <1>1 DEF Questions, Ids, Ended
<1>3. \A q : Settled(q)' <=> Settled(q)
  BY <1>1, <1>2 DEF Settled, Replies
<1>4. RepliesAreDistinct' /\ AttemptsAreBounded'
  BY <1>1 DEF LoopInv, RepliesAreDistinct, AttemptsAreBounded
<1>5. /\ Len(thread) \in Nat /\ From \in Nat /\ cursor <= From /\ From <= Len(thread)
      /\ \A q \in Questions : q > From <=> q > cursor
  BY Bounds DEF From, NoCursor, LoopInv, LoopTypes
<1>6. CASE PollFresh
  <2>1. /\ pc' = "turn" /\ pending' = Fresh /\ Fresh # {} /\ maxId' = Len(thread)
        /\ UNCHANGED <<cursor, baseline>>
    BY <1>6 DEF PollFresh
  <2>2. Fresh = {q \in Questions : q > cursor /\ q <= Len(thread)}
    BY <1>5, Bounds DEF Fresh
  <2>3. Busy'
    BY <2>1 DEF Busy
  <2>4. LoopTypes'
    BY <1>1, <1>2, <1>5, <2>1, <2>2, <2>3 DEF LoopInv, LoopTypes
  <2>5. CountsAreExact'
    BY <1>1, <1>2, <2>1 DEF LoopInv, CountsAreExact, Count
  <2>6. PassedQuestionsAreSettled'
    BY <1>1, <1>2, <1>3, <2>1 DEF LoopInv, PassedQuestionsAreSettled
  <2> QED
    BY <1>4, <2>4, <2>5, <2>6 DEF LoopInv
<1>7. CASE PollFirst \/ PollNothing
  <2>1. /\ cursor' = Len(thread) /\ cursor <= cursor' /\ pc' = pc
        /\ UNCHANGED <<pending, maxId>> /\ baseline' \in 0 .. Len(thread)
    BY <1>5, <1>7, Bounds DEF PollFirst, PollNothing, loop, LoopInv, LoopTypes
  <2>2. ~Busy'
    BY <1>1, <2>1 DEF Busy
  <2>3. LoopTypes'
    BY <1>1, <1>2, <1>5, <2>1, <2>2 DEF LoopInv, LoopTypes
  <2>4. CountsAreExact'
    <3>1. \A q \in Questions : ~(q > cursor')
      BY <2>1, Bounds
    <3>2. (\A q \in Questions : q > cursor => Count(failed, q) = Count(failures, q))'
      BY <1>2, <3>1
    <3>3. pc' # "apology"
      BY <1>1, <2>1
    <3> QED
      BY <1>1, <1>2, <3>2, <3>3 DEF LoopInv, CountsAreExact
  <2>5. PassedQuestionsAreSettled'
    <3> SUFFICES ASSUME mode = "guest", NEW q \in Questions
                 PROVE  Settled(q)
      BY <1>1, <1>2, <1>3 DEF PassedQuestionsAreSettled
    <3>1. ~FirstSight
      BY DEF FirstSight
    <3>2. Fresh = {}
      BY <1>7, <3>1 DEF PollFirst, PollNothing
    <3>3. q <= cursor
      BY <1>5, <3>2, Bounds DEF Fresh
    <3> QED
      BY <3>3 DEF LoopInv, PassedQuestionsAreSettled
  <2> QED
    BY <1>4, <2>3, <2>4, <2>5 DEF LoopInv
<1> QED
  BY <1>6, <1>7 DEF Poll

\* The agent ends, or is started again: the state file keeps what was counted.
LEMMA ProcessPreserves ==
    ASSUME LoopInv, Stopped \/ Die \/ Start
    PROVE  LoopInv'
<1>1. \/ pending' = {} /\ tries' = 0 /\ maxId' = 0
      \/ Start
  BY DEF Stopped, Die, Start, Down
<1>2. Start => pc = "down" /\ pc' = "poll" /\ UNCHANGED <<pending, maxId, tries, stopping, exits>>
  BY DEF Start
<1>3. UNCHANGED <<mode, thread, cursor, failures, failed, baseline>> /\ pc' \in {"down", "poll"}
  BY DEF Stopped, Die, Start, Down
<1>4. /\ stopping' \in BOOLEAN /\ exits' \in 0 .. MaxExits /\ (stopping' => exits' > 0)
      /\ Ended' \in Nat /\ exits <= exits'
      /\ \/ Start /\ Ended' = Ended
         \/ pc = "poll" /\ Ended <= Ended'
         \/ Ended' = Ended + 1
  <2>1. stopping \in BOOLEAN /\ exits \in Nat /\ MaxExits \in Nat /\ exits <= MaxExits
        /\ (stopping => exits > 0)
    BY Bounds DEF LoopInv, LoopTypes
  <2>2. CASE Stopped
    <3>1. pc = "poll" /\ stopping = TRUE /\ stopping' = FALSE /\ exits' = exits
      BY <2>1, <2>2 DEF Stopped, Down
    <3>2. Ended = exits - 1 /\ Ended' = exits
      BY <3>1 DEF Ended
    <3>3. Ended' \in Nat /\ exits <= exits' /\ Ended <= Ended' /\ exits' \in 0 .. MaxExits
      BY <2>1, <3>1, <3>2
    <3> QED
      BY <3>1, <3>3
  <2>3. CASE Die
    <3>1. stopping' = FALSE /\ (stopping \/ exits < MaxExits)
          /\ exits' = IF stopping THEN exits ELSE exits + 1
      BY <2>3 DEF Die, Down
    <3>2. CASE stopping = TRUE
      <4>1. exits' = exits /\ Ended = exits - 1 /\ Ended' = exits
        BY <3>1, <3>2 DEF Ended
      <4>2. Ended' \in Nat /\ exits <= exits' /\ Ended' = Ended + 1 /\ exits' \in 0 .. MaxExits
        BY <2>1, <4>1
      <4> QED
        BY <3>1, <4>2
    <3>3. CASE stopping = FALSE
      <4>1. exits' = exits + 1 /\ Ended = exits /\ Ended' = exits + 1 /\ exits < MaxExits
        BY <3>1, <3>3 DEF Ended
      <4>2. Ended' \in Nat /\ exits <= exits' /\ Ended' = Ended + 1 /\ exits' \in 0 .. MaxExits
        BY <2>1, <4>1
      <4> QED
        BY <3>1, <4>2
    <3> QED
      BY <2>1, <3>2, <3>3
  <2>4. CASE Start
    <3>1. stopping' = stopping /\ exits' = exits
      BY <2>4 DEF Start
    <3> QED
      BY <2>1, <2>4, <3>1, Bounds DEF Ended
  <2> QED
    BY <2>2, <2>3, <2>4
<1>5. Questions' = Questions /\ Ids' = Ids /\ ~Busy'
  BY <1>3 DEF Questions, Ids, Busy
<1>6. LoopTypes'
  <2>1. pending' = {} /\ tries' \in 0 .. SendAttempts - 1 /\ maxId' \in 0 .. Len(thread)
    <3>1. CASE Start
      BY <1>2, <3>1 DEF LoopInv, LoopTypes, Busy
    <3>2. CASE ~Start
      BY <1>1, <3>2, Bounds
    <3> QED
      BY <3>1, <3>2
  <2> QED
    BY <1>3, <1>4, <1>5, <2>1 DEF LoopInv, LoopTypes
<1>7. CountsAreExact'
  <2>1. \A q \in DOMAIN failures : failures[q] <= MAX_MESSAGE_ATTEMPTS + Ended' - 1
    <3> SUFFICES ASSUME NEW q \in DOMAIN failures
                 PROVE  failures[q] <= MAX_MESSAGE_ATTEMPTS + Ended' - 1
      OBVIOUS
    <3>1. failures[q] \in Nat
      BY DEF LoopInv, CountsAreExact
    <3>2. CASE pc = "apology"
      <4>1. Ended' = Ended + 1
        BY <1>2, <1>4, <3>2
      <4>2. failures[q] <= MAX_MESSAGE_ATTEMPTS + Ended
        BY <3>1, Bounds DEF LoopInv, CountsAreExact
      <4> QED
        BY <3>1, <4>1, <4>2, Bounds
    <3>3. CASE pc # "apology"
      <4>1. failures[q] <= MAX_MESSAGE_ATTEMPTS + Ended - 1
        BY <3>3 DEF LoopInv, CountsAreExact
      <4>2. Ended <= Ended'
        BY <1>4, Bounds
      <4>3. MAX_MESSAGE_ATTEMPTS \in Nat /\ Ended \in Nat
        BY Bounds
      <4>4. Ended' \in Nat
        BY <1>4, <4>3
      <4> QED
        BY ONLY <3>1, <4>1, <4>2, <4>3, <4>4
    <3> QED
      BY <3>2, <3>3
  <2>2. pc' # "apology"
    BY <1>3
  <2>3. (\A q \in DOMAIN failures :
            failures[q] <= MAX_MESSAGE_ATTEMPTS + Ended
                           - (IF pc = "apology" /\ q = Current THEN 0 ELSE 1))'
    BY <1>3, <2>1, <2>2
  <2>4. (\A q \in Questions : q > cursor => Count(failed, q) = Count(failures, q))'
    BY <1>3, <1>5 DEF LoopInv, CountsAreExact, Count
  <2> QED
    BY <1>3, <1>5, <2>2, <2>3, <2>4 DEF LoopInv, CountsAreExact
<1>8. PassedQuestionsAreSettled'
  BY <1>3, <1>5 DEF LoopInv, PassedQuestionsAreSettled, Settled, Replies, Count
<1>9. AttemptsAreBounded'
  <2>1. \A q \in DOMAIN failed : failed[q] \in Nat /\ failed[q] <= MAX_MESSAGE_ATTEMPTS + exits
    BY DEF LoopInv, CountsAreExact, AttemptsAreBounded
  <2> QED
    BY <1>3, <1>4, <2>1, Bounds DEF AttemptsAreBounded
<1>10. RepliesAreDistinct'
  BY <1>3 DEF LoopInv, RepliesAreDistinct
<1> QED
  BY <1>6, <1>7, <1>8, <1>9, <1>10 DEF LoopInv

LEMMA AskPreserves ==
    ASSUME LoopInv, Ask
    PROVE  LoopInv'
<1>1. /\ thread' = Append(thread, Question)
      /\ UNCHANGED <<mode, cursor, failures, loop, stopping, exits, failed, baseline>>
  BY DEF Ask
<1>2. Question \in Row
  BY DEF Question, Row
<1>3. Grown
  <2>1. PICK row \in Row : row = Question
    BY <1>2
  <2>2. LoopTypes /\ thread' = Append(thread, row)
    BY <1>1, <2>1 DEF LoopInv
  <2>3. Fits(row)
    BY <2>1 DEF Fits
  <2> QED
    BY <2>1, <2>2, <2>3, AppendedIsGrown
<1>4. RepliesAreDistinct'
  <2>1. thread \in Seq(Row)
    BY DEF LoopInv, LoopTypes
  <2>2. /\ Len(thread') = Len(thread) + 1 /\ thread'[Len(thread) + 1] = Question
        /\ \A id \in 1 .. Len(thread) : thread'[id] = thread[id]
        /\ Len(thread) \in Nat
    BY <1>1, <1>2, <2>1
  <2>3. \A i \in 1 .. Len(thread') : i = Len(thread) + 1 \/ i \in 1 .. Len(thread)
    BY <2>2
  <2> QED
    BY <1>1, <2>2, <2>3 DEF LoopInv, RepliesAreDistinct
<1>5. tries' \in 0 .. SendAttempts - 1
  BY <1>1 DEF loop, LoopInv, LoopTypes
<1> QED
  BY <1>1, <1>3, <1>4, <1>5, WaitingPreserves DEF loop

LEMMA TurnPreserves ==
    ASSUME LoopInv, Turn
    PROVE  LoopInv'
<1>1. pc = "turn" /\ UNCHANGED <<mode, thread, stopping, exits, baseline>>
  BY DEF Turn, TurnAnswers, TurnFails
<1>2. Grown
  BY <1>1, SameIsGrown DEF LoopInv
<1>3. RepliesAreDistinct'
  BY <1>1 DEF LoopInv, RepliesAreDistinct
<1>4. CASE TurnAnswers
  <2>1. /\ UNCHANGED <<cursor, failures, pending, maxId, tries, failed>> /\ pc' = "send"
    BY <1>4 DEF TurnAnswers
  <2>2. tries' \in 0 .. SendAttempts - 1
    BY <2>1 DEF LoopInv, LoopTypes
  <2> QED
    BY <1>1, <1>2, <1>3, <2>1, <2>2, WaitingPreserves
<1>5. CASE TurnFails
  BY <1>1, <1>2, <1>3, <1>5, FailedPreserves DEF TurnFails
<1> QED
  BY <1>4, <1>5 DEF Turn

LEMMA StopPreserves ==
    ASSUME LoopInv, Stop
    PROVE  LoopInv'
<1>1. /\ ~stopping /\ stopping' = TRUE /\ exits' = exits + 1 /\ exits < MaxExits
      /\ UNCHANGED <<mode, thread, cursor, failures, pc, pending, maxId, tries, failed, baseline>>
  BY DEF Stop, loop
<1>2. Grown
  BY <1>1, SameIsGrown DEF LoopInv
<1>3. RepliesAreDistinct' /\ tries' \in 0 .. SendAttempts - 1
  BY <1>1 DEF LoopInv, RepliesAreDistinct, LoopTypes
<1> QED
  BY <1>1, <1>2, <1>3, WaitingPreserves

\* An answer that is not sent is a failed attempt; a report that is not sent is
\* let go, and its question has used up its attempts.
LEMMA GivenUpPreserves ==
    ASSUME LoopInv, Sending, SendGivenUp, Grown, RepliesAreDistinct',
           UNCHANGED <<mode, stopping, exits, baseline>>
    PROVE  LoopInv'
<1>1. CASE pc = "send"
  BY <1>1, FailedPreserves DEF SendGivenUp
<1>2. CASE pc = "apology"
  <2>1. Busy /\ Handled /\ UNCHANGED failed
    BY <1>2 DEF SendGivenUp, Busy
  <2>2. Settled(Current)
    <3>1. Current \in Questions /\ Current > cursor
      BY <2>1, CurrentIsFirst DEF LoopInv
    <3>2. Count(failed, Current) >= MAX_MESSAGE_ATTEMPTS
      BY <1>2, <3>1 DEF LoopInv, CountsAreExact
    <3> QED
      BY <3>2 DEF Settled
  <2> QED
    BY <2>1, <2>2, HandledPreserves
<1> QED
  BY <1>1, <1>2 DEF Sending

LEMMA SendPreserves ==
    ASSUME LoopInv, Send
    PROVE  LoopInv'
<1>1. Sending /\ Busy /\ UNCHANGED <<mode, stopping, exits, baseline>>
  BY DEF Send, SendAnswered, SendLost, SendRefused, Sending, Busy
<1>2. thread' = Stored(Reply) => Grown /\ RepliesAreDistinct'
  BY <1>1, StoredIsGrown DEF LoopInv
<1>3. thread' = thread => Grown /\ RepliesAreDistinct'
  BY <1>1, SameIsGrown DEF LoopInv, RepliesAreDistinct
<1>4. CASE SendAnswered
  <2>1. thread' = Stored(Reply) /\ Handled /\ failed' = failed
    BY <1>4 DEF SendAnswered
  <2>2. Settled(Current) \/ \E row : row = Answer(Current) /\ Replies(row)' # {}
    <3>1. CASE pc = "send"
      <4>1. Reply = Answer(Current)
        BY <3>1 DEF Reply
      <4> QED
        BY <1>1, <2>1, <4>1, StoredIsGrown DEF LoopInv
    <3>2. CASE pc = "apology"
      <4>1. Current \in Questions /\ Current > cursor
        BY <1>1, CurrentIsFirst DEF LoopInv
      <4>2. Count(failed, Current) >= MAX_MESSAGE_ATTEMPTS
        BY <3>2, <4>1 DEF LoopInv, CountsAreExact
      <4> QED
        BY <4>2 DEF Settled
    <3> QED
      BY <1>1, <3>1, <3>2 DEF Sending
  <2> QED
    BY <1>1, <1>2, <2>1, <2>2, HandledPreserves
<1>5. CASE SendLost
  <2>1. Grown /\ RepliesAreDistinct'
    BY <1>2, <1>3, <1>5 DEF SendLost
  <2>2. CASE tries + 1 < SendAttempts
    <3>1. tries' = tries + 1 /\ UNCHANGED <<cursor, failures, pc, pending, maxId, failed>>
      BY <1>5, <2>2 DEF SendLost
    <3>2. tries' \in 0 .. SendAttempts - 1
      BY <2>2, <3>1, Bounds DEF LoopInv, LoopTypes
    <3> QED
      BY <1>1, <2>1, <3>1, <3>2, WaitingPreserves
  <2>3. CASE ~(tries + 1 < SendAttempts)
    <3>1. SendGivenUp
      BY <1>5, <2>3 DEF SendLost
    <3> QED
      BY <1>1, <2>1, <3>1, GivenUpPreserves
  <2> QED
    BY <2>2, <2>3
<1>6. CASE SendRefused
  <2>1. SendGivenUp /\ thread' = thread
    BY <1>6 DEF SendRefused
  <2> QED
    BY <1>1, <1>3, <2>1, GivenUpPreserves
<1> QED
  BY <1>4, <1>5, <1>6 DEF Send

LEMMA LoopInit == Init => LoopInv
<1> SUFFICES ASSUME Init PROVE LoopInv
  OBVIOUS
<1>1. /\ mode \in {"peer", "guest"} /\ thread = <<>> /\ cursor = NoCursor /\ failures = <<>>
      /\ pc = "down" /\ pending = {} /\ maxId = 0 /\ tries = 0 /\ stopping = FALSE
      /\ exits = 0 /\ failed = <<>> /\ baseline = 0
  BY DmAssumption DEF Init
<1>2. <<>> \in Seq(Row) /\ Len(<<>>) = 0 /\ DOMAIN <<>> = {}
  OBVIOUS
<1>3. Ids = {} /\ Questions = {} /\ ~Busy /\ thread \in Seq(Row) /\ Len(thread) = 0
  BY <1>1, <1>2 DEF Ids, Questions, Busy
<1>4. LoopTypes
  <2>1. pending = IF Busy THEN {q \in Questions : q > cursor /\ q <= maxId} ELSE {}
    BY <1>1, <1>3
  <2>2. tries \in 0 .. SendAttempts - 1 /\ maxId \in 0 .. 0 /\ exits \in 0 .. MaxExits /\ baseline \in 0 .. 0
    BY <1>1, DmAssumption
  <2>3. /\ stopping \in BOOLEAN /\ (stopping => exits > 0)
        /\ pc \in {"down", "poll", "turn", "send", "apology"}
    BY <1>1
  <2>4. \A id \in 1 .. Len(thread) :
          \/ thread[id] = Question
          \/ thread[id].kind \in {"answer", "apology"} /\ thread[id].to \in Questions
    BY <1>3
  <2> QED
    BY <1>1, <1>3, <2>1, <2>2, <2>3, <2>4 DEF LoopTypes
<1>5. Counts(failures) /\ Counts(failed)
  BY <1>1, <1>2 DEF Counts
<1>6. CountsAreExact
  BY <1>1, <1>2, <1>3, <1>5 DEF CountsAreExact, Counts
<1>7. PassedQuestionsAreSettled /\ AttemptsAreBounded /\ RepliesAreDistinct
  BY <1>1, <1>2, <1>3 DEF PassedQuestionsAreSettled, AttemptsAreBounded, RepliesAreDistinct
<1> QED
  BY <1>4, <1>6, <1>7 DEF LoopInv

LEMMA LoopNext == LoopInv /\ [Next]_vars => LoopInv'
<1> SUFFICES ASSUME LoopInv, [Next]_vars PROVE LoopInv'
  OBVIOUS
<1>1. CASE UNCHANGED vars
  <2>1. UNCHANGED <<mode, thread, cursor, failures, pc, pending, maxId, tries, stopping, exits,
                    failed, baseline>>
    BY <1>1 DEF vars, loop
  <2>2. Grown
    BY <2>1, SameIsGrown DEF LoopInv
  <2>3. RepliesAreDistinct' /\ tries' \in 0 .. SendAttempts - 1
    BY <2>1 DEF LoopInv, RepliesAreDistinct, LoopTypes
  <2> QED
    BY <2>1, <2>2, <2>3, WaitingPreserves
<1>2. CASE Next
  BY <1>2, AskPreserves, PollPreserves, TurnPreserves, SendPreserves, StopPreserves,
     ProcessPreserves DEF Next
<1> QED
  BY <1>1, <1>2

LEMMA LoopSafe == LoopInv => TypeOK /\ OneReplyPerQuestion
<1> SUFFICES ASSUME LoopInv PROVE TypeOK /\ OneReplyPerQuestion
  OBVIOUS
<1>1. Ids = 1 .. Len(thread) /\ Questions \subseteq 1 .. Len(thread)
  BY QuestionsAre DEF LoopInv, LoopTypes
<1>2. TypeOK
  <2>1. \A q \in DOMAIN failures : failures[q] \in 1 .. MAX_MESSAGE_ATTEMPTS + exits
    <3> SUFFICES ASSUME NEW q \in DOMAIN failures
                 PROVE  failures[q] \in 1 .. MAX_MESSAGE_ATTEMPTS + exits
      OBVIOUS
    <3>1. failures[q] \in Nat \ {0}
      BY DEF LoopInv, CountsAreExact
    <3>2. failures[q] <= MAX_MESSAGE_ATTEMPTS + Ended
      BY <3>1, Bounds DEF LoopInv, CountsAreExact
    <3> QED
      BY <3>1, <3>2, Bounds
  <2>2. pending \subseteq {q \in Questions : q > cursor /\ q <= maxId}
    BY DEF LoopInv, LoopTypes
  <2>3. (pending # {}) = (pc \in {"turn", "send", "apology"})
    BY DEF LoopInv, LoopTypes, Busy
  <2>4. \A id \in Ids : \/ thread[id] = Question
                        \/ thread[id].kind \in {"answer", "apology"} /\ thread[id].to \in Questions
    BY <1>1 DEF LoopInv, LoopTypes
  <2>5. DOMAIN failures \subseteq Questions
    BY DEF LoopInv, CountsAreExact
  <2> QED
    BY <2>1, <2>2, <2>3, <2>4, <2>5 DEF LoopInv, LoopTypes, TypeOK
<1>3. ASSUME mode = "peer", NEW row, row # Question
      PROVE  Cardinality(Replies(row)) <= 1
  <2>1. \A i, j \in Replies(row) : i = j
    BY <1>1, <1>3 DEF LoopInv, RepliesAreDistinct, Replies
  <2>2. CASE Replies(row) = {}
    BY <2>2, FS_EmptySet
  <2>3. CASE Replies(row) # {}
    <3>1. PICK i \in Replies(row) : TRUE
      BY <2>3
    <3>2. Replies(row) = {i}
      BY <2>1, <3>1
    <3> QED
      BY <3>2, FS_Singleton
  <2> QED
    BY <2>2, <2>3
<1>4. \A q \in Questions : Answer(q) # Question /\ Apology(q) # Question
  BY DEF Answer, Apology, Question
<1>5. OneReplyPerQuestion
  BY <1>3, <1>4 DEF OneReplyPerQuestion
<1> QED
  BY <1>2, <1>5

\* In the agent as a whole the loops take their own steps or wait.
LEMMA LoopsRun == DmSpec => Spec
<1>1. DmInit => Init
  BY DEF DmInit
<1>2. [DmNext]_<<part, vars, gating, hosting, uploading, turning>> => [Next]_vars
  BY DEF DmNext
<1> QED
  BY <1>1, <1>2, PTL DEF DmSpec, Spec

LEMMA LoopInvariant == Spec => []LoopInv
  BY LoopInit, LoopNext, PTL DEF Spec

\* The state file and the loop always fit the conversation: what is pending is what
\* lies between the cursor and the newest row seen, and nothing else is counted.
THEOREM LoopTypesHold == Spec => []TypeOK
  BY LoopInvariant, LoopSafe, PTL

\* The guest loop never moves its cursor past a question that it has neither answered
\* nor tried as often as it may (cli.js:711), whatever is lost or killed.
THEOREM PassedAreSettled == Spec => []PassedQuestionsAreSettled
<1>1. LoopInv => PassedQuestionsAreSettled
  BY DEF LoopInv
<1> QED
  BY <1>1, LoopInvariant, PTL

\* Restarts do not start the attempts at a question over (state.js:12): each process
\* that ends costs one attempt more at most.
THEOREM AttemptsBounded == Spec => []AttemptsAreBounded
<1>1. LoopInv => AttemptsAreBounded
  BY DEF LoopInv
<1> QED
  BY <1>1, LoopInvariant, PTL

\* The idempotency key does its work: a named person gets one answer and one failure
\* report for a question at most, however often the reply is sent.
THEOREM OneReply == Spec => []OneReplyPerQuestion
  BY LoopInvariant, LoopSafe, PTL

-----------------------------------------------------------------------------
(* The runtime's turns (DmTurn).                                            *)

Known == DOMAIN content

\* Sessions are numbered as they are created, and each holds one conversation: that
\* of the visitor it is remembered for, asked for, or running for.
SessionsAreKnown ==
    /\ \E n \in 0 .. MaxSessions : Known = 1 .. n
    /\ \A s \in Known : \E v \in Visitors : content[s] = {v}
    /\ gone \subseteq Known
    /\ sessions \in [Visitors -> Known \cup {NoSession}]
    /\ \A v \in Visitors : sessions[v] # NoSession => content[sessions[v]] = {v}

TurnIsInOneSession ==
    /\ visitor \in Visitors
    /\ phase \in {"idle", "starting", "working"} /\ outcome \in {"none", "answered", "failed"}
    /\ resuming \in Known \cup {NoSession} /\ session \in Known \cup {NoSession}
    /\ phase = "starting" /\ resuming # NoSession => content[resuming] = {visitor}
    /\ phase = "working" \/ outcome = "answered" =>
          session # NoSession /\ sessions[visitor] = session
    /\ outcome = "answered" => phase = "idle"
    /\ retrying => resuming = NoSession

TurnInv == SessionsAreKnown /\ TurnIsInOneSession

LEMMA SameCardinality ==
    \A S : /\ Gate!Cardinality(S) = Cardinality(S)
          /\ Host!Cardinality(S) = Cardinality(S)
          /\ Runtime!Cardinality(S) = Cardinality(S)
<1>1. \A S : Gate!Cardinality(S) = Cardinality(S)
  BY DEF Gate!Cardinality, Cardinality
<1>2. \A S : Host!Cardinality(S) = Cardinality(S)
  BY DEF Host!Cardinality, Cardinality
<1>3. \A S : Runtime!Cardinality(S) = Cardinality(S)
  BY DEF Runtime!Cardinality, Cardinality
<1> QED
  BY <1>1, <1>2, <1>3

LEMMA TurnInit == Runtime!Init => TurnInv
<1> SUFFICES ASSUME Runtime!Init PROVE TurnInv
  OBVIOUS
<1>1. /\ sessions = [v \in Visitors |-> NoSession] /\ content = <<>> /\ gone = {}
      /\ phase = "idle" /\ visitor \in Visitors
      /\ resuming = NoSession /\ session = NoSession /\ retrying = FALSE /\ outcome = "none"
  BY DEF Runtime!Init
<1>2. Known = {} /\ {} = 1 .. 0 /\ 0 \in 0 .. MaxSessions
  BY <1>1, TurnAssumption DEF Known
<1>3. SessionsAreKnown
  BY <1>1, <1>2 DEF SessionsAreKnown
<1>4. TurnIsInOneSession
  BY <1>1, <1>2 DEF TurnIsInOneSession
<1> QED
  BY <1>3, <1>4 DEF TurnInv

\* A turn that asks for no session gets a new one; one that asks for a session gets
\* it, or a new one that continues it.
LEMMA StartedPreserves ==
    ASSUME TurnInv, NEW s, NEW said, Runtime!Started(s, said), phase = "starting",
           \/ s \in Known /\ content[s] = {visitor} /\ said = {visitor}
           \/ s = Cardinality(Known) + 1 /\ s <= MaxSessions /\ said \in {{}, {visitor}}
    PROVE  TurnInv'
<1>1. PICK n \in 0 .. MaxSessions : Known = 1 .. n
  BY DEF TurnInv, SessionsAreKnown
<1>2. n \in Nat /\ Cardinality(Known) = n
  BY <1>1, FS_Interval, TurnAssumption
<1>3. \/ s \in Known /\ Known \cup {s} = 1 .. n
      \/ s = n + 1 /\ Known \cup {s} = 1 .. (n + 1) /\ n + 1 <= MaxSessions
  BY <1>1, <1>2
<1>4. \E m \in 0 .. MaxSessions : Known \cup {s} = 1 .. m
  BY <1>1, <1>2, <1>3, TurnAssumption
<1>5. s # NoSession
  BY <1>1, <1>3, TurnAssumption
<1>6. /\ content' = [x \in Known \cup {s} |-> IF x = s THEN said \cup {visitor} ELSE content[x]]
      /\ session' = s /\ sessions' = [sessions EXCEPT ![visitor] = s] /\ phase' = "working"
      /\ UNCHANGED <<gone, visitor, resuming, retrying, outcome>>
  BY DEF Runtime!Started, Runtime!Remember, Runtime!Created, Known
<1>7. said \cup {visitor} = {visitor}
  OBVIOUS
<1>8. /\ Known' = Known \cup {s} /\ content'[s] = {visitor}
      /\ \A x \in Known \ {s} : content'[x] = content[x]
  BY <1>6, <1>7 DEF Known
<1>9. s \in Known => content[s] = {visitor}
  BY <1>1, <1>2
<1>10. visitor \in Visitors /\ sessions \in [Visitors -> Known \cup {NoSession}]
  BY DEF TurnInv, SessionsAreKnown, TurnIsInOneSession
<1>11. ASSUME NEW v \in Visitors, sessions'[v] # NoSession
       PROVE  content'[sessions'[v]] = {v}
  <2>1. CASE v = visitor
    BY <1>6, <1>8, <1>10, <2>1
  <2>2. CASE v # visitor
    <3>1. sessions'[v] = sessions[v] /\ sessions[v] \in Known /\ content[sessions[v]] = {v}
      BY <1>6, <1>10, <1>11, <2>2 DEF TurnInv, SessionsAreKnown
    <3>2. sessions[v] # s
      BY <1>9, <2>2, <3>1
    <3> QED
      BY <1>8, <3>1, <3>2
  <2> QED
    BY <2>1, <2>2
<1>12. SessionsAreKnown'
  BY <1>4, <1>6, <1>8, <1>10, <1>11 DEF TurnInv, SessionsAreKnown
<1>13. TurnIsInOneSession'
  BY <1>5, <1>6, <1>8, <1>10 DEF TurnInv, TurnIsInOneSession
<1> QED
  BY <1>12, <1>13 DEF TurnInv

\* A session that is not found, or that fails, is forgotten and the message answered
\* in a new one; otherwise the turn is over, and what answered is remembered.
LEMMA EndedPreserves ==
    ASSUME TurnInv, phase # "idle",
           \/ \E notFound \in BOOLEAN : Runtime!Fails(notFound)
           \/ \E how \in {"none", "failed"} : Runtime!Over(how) /\ UNCHANGED sessions
           \/ phase = "working" /\ Runtime!Over("answered") /\ UNCHANGED sessions
    PROVE  TurnInv'
<1>1. /\ visitor \in Visitors /\ sessions \in [Visitors -> Known \cup {NoSession}]
      /\ phase = "starting" \/ phase = "working"
  BY DEF TurnInv, SessionsAreKnown, TurnIsInOneSession
<1>2. CASE Runtime!RunAgain
  <2>1. /\ UNCHANGED <<content, gone, visitor, outcome>> /\ phase' = "starting"
        /\ sessions' = [sessions EXCEPT ![visitor] = NoSession]
        /\ resuming' = NoSession /\ session' = NoSession
    BY <1>2 DEF Runtime!RunAgain
  <2>2. Known' = Known
    BY <2>1 DEF Known
  <2>3. outcome # "answered"
    BY DEF TurnInv, TurnIsInOneSession
  <2>4. SessionsAreKnown'
    BY <1>1, <2>1, <2>2 DEF TurnInv, SessionsAreKnown
  <2>5. TurnIsInOneSession'
    BY <2>1, <2>2, <2>3 DEF TurnInv, TurnIsInOneSession
  <2> QED
    BY <2>4, <2>5 DEF TurnInv
<1>3. ASSUME NEW how \in {"none", "failed", "answered"}, Runtime!Over(how), UNCHANGED sessions,
             how = "answered" => phase = "working"
      PROVE  TurnInv'
  <2>1. /\ UNCHANGED <<content, gone, visitor, resuming, session, retrying>>
        /\ phase' = "idle" /\ outcome' = how
    BY <1>3 DEF Runtime!Over
  <2>2. Known' = Known
    BY <2>1 DEF Known
  <2>3. SessionsAreKnown'
    BY <1>3, <2>1, <2>2 DEF TurnInv, SessionsAreKnown
  <2>4. TurnIsInOneSession'
    BY <1>3, <2>1, <2>2 DEF TurnInv, TurnIsInOneSession
  <2> QED
    BY <2>3, <2>4 DEF TurnInv
<1>4. \A notFound : Runtime!Fails(notFound) =>
          Runtime!RunAgain \/ (Runtime!Over("failed") /\ UNCHANGED sessions)
  BY DEF Runtime!Fails
<1> QED
  BY <1>2, <1>3, <1>4

LEMMA TurnNext == TurnInv /\ [Runtime!Next]_turning => TurnInv'
<1> SUFFICES ASSUME TurnInv, [Runtime!Next]_turning PROVE TurnInv'
  OBVIOUS
<1>1. CASE UNCHANGED turning
  <2>1. UNCHANGED <<sessions, content, gone, phase, visitor, resuming, session, retrying, outcome>>
    BY <1>1 DEF turning
  <2>2. Known' = Known
    BY <2>1 DEF Known
  <2> QED
    BY <2>1, <2>2 DEF TurnInv, SessionsAreKnown, TurnIsInOneSession
<1>2. ASSUME NEW v \in Visitors, Runtime!BeginTurn(v)
      PROVE  TurnInv'
  <2>1. /\ UNCHANGED <<sessions, content, gone>> /\ phase' = "starting" /\ visitor' = v
        /\ resuming' = sessions[v] /\ session' = NoSession /\ retrying' = FALSE
        /\ outcome' = "none"
    BY <1>2 DEF Runtime!BeginTurn, Runtime!SessionOf
  <2>2. Known' = Known
    BY <2>1 DEF Known
  <2>3. SessionsAreKnown'
    BY <2>1, <2>2 DEF TurnInv, SessionsAreKnown
  <2>4. sessions[v] \in Known \cup {NoSession} /\ (sessions[v] # NoSession => content[sessions[v]] = {v})
    BY DEF TurnInv, SessionsAreKnown
  <2>5. TurnIsInOneSession'
    BY <2>1, <2>2, <2>4 DEF TurnInv, TurnIsInOneSession
  <2> QED
    BY <2>3, <2>5 DEF TurnInv
<1>3. CASE Runtime!StartFresh
  <2>1. /\ phase = "starting" /\ Runtime!Started(Cardinality(Known) + 1, {})
        /\ Cardinality(Known) + 1 <= MaxSessions
    BY <1>3, SameCardinality DEF Runtime!StartFresh, Runtime!New, Runtime!Created, Known
  <2> QED
    BY <2>1, StartedPreserves
<1>4. CASE Runtime!StartResumed
  <2>1. phase = "starting" /\ resuming \in Known
    BY <1>4 DEF Runtime!StartResumed, Runtime!Created, Known
  <2>2. content[resuming] = {visitor}
    <3>1. resuming # NoSession
      BY <2>1, TurnAssumption DEF TurnInv, SessionsAreKnown
    <3> QED
      BY <2>1, <3>1 DEF TurnInv, TurnIsInOneSession
  <2>3. \/ Runtime!Started(resuming, {visitor})
        \/ Runtime!Started(Cardinality(Known) + 1, {visitor}) /\ Cardinality(Known) + 1 <= MaxSessions
    BY <1>4, <2>2, SameCardinality DEF Runtime!StartResumed, Runtime!New, Runtime!Created, Known
  <2>4. CASE Runtime!Started(resuming, {visitor})
    BY <2>1, <2>2, <2>4, StartedPreserves
  <2>5. CASE Runtime!Started(Cardinality(Known) + 1, {visitor}) /\ Cardinality(Known) + 1 <= MaxSessions
    BY <2>1, <2>5, StartedPreserves
  <2> QED
    BY <2>3, <2>4, <2>5
<1>5. CASE Runtime!NotFound
  <2>1. phase # "idle" /\ Runtime!Fails(TRUE)
    BY <1>5 DEF Runtime!NotFound
  <2> QED
    BY <2>1, EndedPreserves
<1>6. CASE Runtime!Says
  <2>1. UNCHANGED <<sessions, content, gone, phase, visitor, resuming, session, retrying, outcome>>
    BY <1>6 DEF Runtime!Says
  <2>2. Known' = Known
    BY <2>1 DEF Known
  <2> QED
    BY <2>1, <2>2 DEF TurnInv, SessionsAreKnown, TurnIsInOneSession
<1>7. CASE Runtime!Completes
  <2>1. /\ phase = "working"
        /\ \/ Runtime!Over("answered") /\ UNCHANGED sessions
           \/ Runtime!Fails(FALSE)
    BY <1>7 DEF Runtime!Completes
  <2> QED
    BY <2>1, EndedPreserves
<1>8. CASE Runtime!Breaks
  BY <1>8, EndedPreserves DEF Runtime!Breaks
<1>9. CASE Runtime!EndsInError
  BY <1>9, EndedPreserves DEF Runtime!EndsInError
<1>10. ASSUME NEW s \in Known, Runtime!Lose(s)
       PROVE  TurnInv'
  <2>1. /\ UNCHANGED <<sessions, content, phase, visitor, resuming, session, retrying, outcome>>
        /\ gone' = gone \cup {s}
    BY <1>10 DEF Runtime!Lose
  <2>2. Known' = Known
    BY <2>1 DEF Known
  <2> QED
    BY <2>1, <2>2 DEF TurnInv, SessionsAreKnown, TurnIsInOneSession
<1>11. CASE Runtime!Die
  BY <1>11, EndedPreserves DEF Runtime!Die
<1> QED
  BY <1>1, <1>2, <1>3, <1>4, <1>5, <1>6, <1>7, <1>8, <1>9, <1>10, <1>11
     DEF Runtime!Next, Runtime!Created, Known

LEMMA TurnSafe ==
    TurnInv => Runtime!TypeOK /\ Runtime!SessionsAreIsolated /\ Runtime!AnswerIsRemembered
<1> SUFFICES ASSUME TurnInv
             PROVE  Runtime!TypeOK /\ Runtime!SessionsAreIsolated /\ Runtime!AnswerIsRemembered
  OBVIOUS
<1>1. PICK n \in 0 .. MaxSessions : Known = 1 .. n
  BY DEF TurnInv, SessionsAreKnown
<1>2. Cardinality(Known) = n /\ n <= MaxSessions
  BY <1>1, FS_Interval, TurnAssumption
<1>3. \A s \in Known : content[s] \subseteq Visitors /\ Cardinality(content[s]) <= 1
  <2> SUFFICES ASSUME NEW s \in Known
               PROVE  content[s] \subseteq Visitors /\ Cardinality(content[s]) <= 1
    OBVIOUS
  <2>1. PICK v \in Visitors : content[s] = {v}
    BY DEF TurnInv, SessionsAreKnown
  <2> QED
    BY <2>1, FS_Singleton
<1>4. Runtime!TypeOK
  BY <1>1, <1>2, <1>3, SameCardinality
     DEF Runtime!TypeOK, Runtime!Created, Known, TurnInv, SessionsAreKnown, TurnIsInOneSession
<1>5. Runtime!SessionsAreIsolated
  <2>1. ASSUME NEW v \in Visitors, NEW w \in Visitors, sessions[v] = sessions[w], v # w
        PROVE  sessions[v] = NoSession
    BY <2>1 DEF TurnInv, SessionsAreKnown
  <2> QED
    BY <1>3, <2>1, SameCardinality DEF Runtime!SessionsAreIsolated, Runtime!Created, Known
<1>6. Runtime!AnswerIsRemembered
  BY DEF Runtime!AnswerIsRemembered, TurnInv, SessionsAreKnown, TurnIsInOneSession
<1> QED
  BY <1>4, <1>5, <1>6

-----------------------------------------------------------------------------
(* The processes (DmHost).                                                  *)

Clock == 0 .. MaxTime
UpProcess == [at : {"up"}, locked : BOOLEAN, downSince : Clock \cup {-1},
              known : SUBSET Clock, last : Clock \cup {-1}]
Process == [at : {"off", "starting"}] \cup [at : {"claiming"}, overtaken : BOOLEAN] \cup UpProcess

HostTypes ==
    /\ now \in Clock
    /\ proc \in [Pids -> Process]
    /\ lockFile \in Pids \cup {Nobody}
    /\ restarts \subseteq Clock
    /\ history \in Seq(Clock) /\ \A i \in 1 .. Len(history) : history[i] <= now
    /\ raced \in BOOLEAN /\ abandoned \in BOOLEAN

\* The process that is up holds the lock, and one that has looked at the lock since it
\* was last written has seen that nobody is up.
LockIsHeld ==
    /\ \A p \in Pids : proc[p].at = "up" => proc[p].locked = TRUE /\ lockFile = p
    /\ \A p, q \in Pids : proc[p].at = "claiming" /\ proc[p].overtaken = FALSE => proc[q].at # "up"

\* The restarts that count are remembered, in the file and by the process that is up.
RestartsAreRemembered ==
    /\ \A i \in 1 .. Len(history) : now - history[i] < RateWindow => history[i] \in restarts
    /\ \A p \in Pids : proc[p].at = "up" =>
          /\ \A i \in 1 .. Len(history) : now - history[i] < RateWindow => history[i] \in proc[p].known
          /\ \A t \in proc[p].known : proc[p].last # -1 /\ t <= proc[p].last

RestartsAreApart ==
    \A i, j \in 1 .. Len(history) : i < j =>
        /\ history[j] - history[i] >= MinRestartGap
        /\ j - i >= MaxRestarts => history[j] - history[i] >= RateWindow

HostInv ==
    /\ HostTypes
    /\ raced = FALSE /\ abandoned = FALSE => LockIsHeld /\ RestartsAreRemembered /\ RestartsAreApart

LEMMA HostInit == Host!Init => HostInv
<1> SUFFICES ASSUME Host!Init PROVE HostInv
  OBVIOUS
<1>1. /\ now = 0 /\ proc = [p \in Pids |-> [at |-> "off"]] /\ lockFile = Nobody /\ restarts = {}
      /\ history = <<>> /\ raced = FALSE /\ abandoned = FALSE
  BY DEF Host!Init, Host!Off
<1>2. <<>> \in Seq(Clock) /\ Len(<<>>) = 0
  OBVIOUS
<1>3. \A p \in Pids : proc[p].at = "off"
  BY <1>1
<1>4. proc \in [Pids -> Process]
  BY <1>1 DEF Process
<1>5. HostTypes
  <2>1. now \in Clock
    BY <1>1, HostAssumption DEF Clock
  <2>2. history \in Seq(Clock) /\ \A i \in 1 .. Len(history) : history[i] <= now
    BY <1>1, <1>2
  <2> QED
    BY <1>1, <1>4, <2>1, <2>2 DEF HostTypes
<1>6. LockIsHeld
  BY <1>3 DEF LockIsHeld
<1>7. RestartsAreRemembered /\ RestartsAreApart
  BY <1>1, <1>2, <1>3 DEF RestartsAreRemembered, RestartsAreApart
<1> QED
  BY <1>5, <1>6, <1>7 DEF HostInv

\* No restart is noted: no process comes up, and one that looks at the lock finds that
\* nobody is up.
LEMMA QuietPreserves ==
    ASSUME HostInv, HostTypes', now <= now',
           UNCHANGED <<restarts, history, raced, abandoned>>,
           \A p \in Pids : proc'[p].at = "up" =>
              proc[p].at = "up" /\ proc'[p].locked = proc[p].locked
              /\ proc'[p].known = proc[p].known /\ proc'[p].last = proc[p].last,
           raced = FALSE /\ abandoned = FALSE =>
              /\ lockFile' = lockFile \/ \A q \in Pids : proc'[q].at # "up"
              /\ \A p \in Pids : proc'[p].at = "claiming" /\ proc'[p].overtaken = FALSE =>
                    \/ proc[p].at = "claiming" /\ proc[p].overtaken = FALSE
                    \/ \A q \in Pids : proc'[q].at # "up"
    PROVE  HostInv'
<1> SUFFICES ASSUME raced = FALSE, abandoned = FALSE
             PROVE  LockIsHeld' /\ RestartsAreRemembered' /\ RestartsAreApart'
  BY DEF HostInv
<1>1. LockIsHeld /\ RestartsAreRemembered /\ RestartsAreApart
  BY DEF HostInv
<1>2. LockIsHeld'
  <2>1. \A p \in Pids : proc'[p].at = "up" => proc'[p].locked = TRUE /\ lockFile' = p
    BY <1>1 DEF LockIsHeld
  <2>2. \A p, q \in Pids : proc'[p].at = "claiming" /\ proc'[p].overtaken = FALSE => proc'[q].at # "up"
    BY <1>1 DEF LockIsHeld
  <2> QED
    BY <2>1, <2>2 DEF LockIsHeld
<1>3. RestartsAreRemembered'
  <2>1. \A i \in 1 .. Len(history) : now' - history[i] < RateWindow => now - history[i] < RateWindow
    <3> SUFFICES ASSUME NEW i \in 1 .. Len(history)
                 PROVE  now' - history[i] < RateWindow => now - history[i] < RateWindow
      OBVIOUS
    <3>1. now \in Clock /\ now' \in Clock /\ history[i] \in Clock
      BY DEF HostInv, HostTypes
    <3>2. now \in Int /\ now' \in Int /\ history[i] \in Int
      BY <3>1 DEF Clock
    <3> QED
      BY <3>2, HostAssumption
  <2> QED
    BY <1>1, <2>1 DEF RestartsAreRemembered
<1>4. RestartsAreApart'
  BY <1>1 DEF RestartsAreApart
<1> QED
  BY <1>2, <1>3, <1>4

\* What a process may become, one at a time.
LEMMA ProcessBecomes ==
    ASSUME HostTypes, NEW p \in Pids, NEW r \in Process, proc' = [proc EXCEPT ![p] = r]
    PROVE  /\ proc' \in [Pids -> Process]
           /\ proc'[p] = r /\ \A q \in Pids \ {p} : proc'[q] = proc[q]
  BY DEF HostTypes

LEMMA IdleProcesses ==
    /\ [at |-> "off"] \in Process /\ [at |-> "starting"] \in Process
    /\ [at |-> "claiming", overtaken |-> FALSE] \in Process
    /\ Host!Off = [at |-> "off"] /\ Host!Starting = [at |-> "starting"]
    /\ Host!Never = -1
  BY DEF Process, Host!Off, Host!Starting, Host!Never

\* Only the lock and the process itself change, and the process is not up afterwards,
\* or remembers what it did.
LEMMA OneQuietPreserves ==
    ASSUME HostInv, NEW p \in Pids, NEW r \in Process, proc' = [proc EXCEPT ![p] = r],
           UNCHANGED <<now, restarts, history, raced, abandoned>>,
           lockFile' \in Pids \cup {Nobody},
           r.at = "up" =>
              proc[p].at = "up" /\ r.locked = proc[p].locked
              /\ r.known = proc[p].known /\ r.last = proc[p].last,
           raced = FALSE /\ abandoned = FALSE =>
              /\ lockFile' = lockFile \/ \A q \in Pids : proc'[q].at # "up"
              /\ r.at = "claiming" => \A q \in Pids : proc'[q].at # "up"
    PROVE  HostInv'
<1>1. /\ proc' \in [Pids -> Process]
      /\ proc'[p] = r /\ \A q \in Pids \ {p} : proc'[q] = proc[q]
  BY ProcessBecomes DEF HostInv
<1>2. HostTypes'
  BY <1>1 DEF HostInv, HostTypes
<1>3. now <= now'
  BY DEF HostInv, HostTypes, Clock
<1>4. \A q \in Pids : proc'[q].at = "up" =>
          proc[q].at = "up" /\ proc'[q].locked = proc[q].locked
          /\ proc'[q].known = proc[q].known /\ proc'[q].last = proc[q].last
  BY <1>1
<1>5. raced = FALSE /\ abandoned = FALSE =>
        \A q \in Pids : proc'[q].at = "claiming" /\ proc'[q].overtaken = FALSE =>
            \/ proc[q].at = "claiming" /\ proc[q].overtaken = FALSE
            \/ \A x \in Pids : proc'[x].at # "up"
  BY <1>1
<1> QED
  BY <1>2, <1>3, <1>4, <1>5, QuietPreserves

\* The lock that a process releases was its own; if it was up, nobody is up any more.
LEMMA ReleasedByTheOneUp ==
    ASSUME HostInv, NEW p \in Pids, proc[p].at = "up"
    PROVE  /\ Host!Released(p) \in Pids \cup {Nobody}
           /\ raced = FALSE /\ abandoned = FALSE => \A q \in Pids \ {p} : proc[q].at # "up"
<1>1. Host!Released(p) \in {Nobody, lockFile}
  BY DEF Host!Released
<1>2. lockFile \in Pids \cup {Nobody}
  BY DEF HostInv, HostTypes
<1>3. raced = FALSE /\ abandoned = FALSE => LockIsHeld
  BY DEF HostInv
<1> QED
  BY <1>1, <1>2, <1>3 DEF LockIsHeld

LEMMA QuietSteps ==
    ASSUME HostInv, NEW p \in Pids,
           \/ Host!Launch(p) \/ Host!ReadLock(p) \/ Host!PollOk(p) \/ Host!PollFails(p)
           \/ Host!Exit(p) \/ Host!Die(p)
    PROVE  HostInv'
<1>1. proc[p] \in Process /\ lockFile \in Pids \cup {Nobody} /\ now \in Clock
  BY DEF HostInv, HostTypes
<1>2. CASE Host!Launch(p)
  <2>1. /\ proc' = [proc EXCEPT ![p] = [at |-> "starting"]]
        /\ UNCHANGED <<now, lockFile, restarts, history, raced, abandoned>>
    BY <1>2, IdleProcesses DEF Host!Launch
  <2>2. PICK r \in Process : r = [at |-> "starting"]
    BY IdleProcesses
  <2> QED
    BY <1>1, <2>1, <2>2, OneQuietPreserves
<1>3. CASE Host!ReadLock(p)
  <2>1. /\ proc[p].at = "starting"
        /\ UNCHANGED <<now, lockFile, restarts, history, raced, abandoned>>
    BY <1>3, IdleProcesses DEF Host!ReadLock
  <2>2. CASE Host!TakenFrom(p)
    <3>1. PICK r \in Process : r = [at |-> "off"]
      BY IdleProcesses
    <3>2. proc' = [proc EXCEPT ![p] = r]
      BY <1>3, <2>2, <3>1, IdleProcesses DEF Host!ReadLock
    <3> QED
      BY <1>1, <2>1, <3>1, <3>2, OneQuietPreserves
  <2>3. CASE ~Host!TakenFrom(p)
    <3>1. PICK r \in Process : r = [at |-> "claiming", overtaken |-> FALSE]
      BY IdleProcesses
    <3>2. proc' = [proc EXCEPT ![p] = r]
      BY <1>3, <2>3, <3>1, IdleProcesses DEF Host!ReadLock
    <3>3. r.at = "claiming" /\ r.at # "up"
      BY <3>1
    <3>4. ASSUME raced = FALSE, abandoned = FALSE, NEW q \in Pids
          PROVE  proc'[q].at # "up"
      <4>1. CASE q = p
        BY <3>2, <3>3, <4>1, ProcessBecomes DEF HostInv
      <4>2. CASE q # p
        <5>1. proc'[q] = proc[q]
          BY <3>2, <4>2, ProcessBecomes DEF HostInv
        <5>2. proc[q].at = "up" => lockFile = q
          BY <3>4 DEF HostInv, LockIsHeld
        <5>3. proc[q].at = "up" => Host!Alive(q)
          BY DEF Host!Alive, Host!Off
        <5> QED
          BY <2>3, <4>2, <5>1, <5>2, <5>3, HostAssumption DEF Host!TakenFrom
      <4> QED
        BY <4>1, <4>2
    <3> QED
      BY <1>1, <2>1, <3>2, <3>3, <3>4, OneQuietPreserves
  <2> QED
    BY <2>2, <2>3
<1>4. CASE Host!PollOk(p) \/ Host!PollFails(p)
  <2>1. PICK t \in Clock \cup {-1} : proc' = [proc EXCEPT ![p].downSince = t]
    BY <1>1, <1>4, IdleProcesses DEF Host!PollOk, Host!PollFails
  <2>2. /\ proc[p].at = "up"
        /\ UNCHANGED <<now, lockFile, restarts, history, raced, abandoned>>
    BY <1>4 DEF Host!PollOk, Host!PollFails, Host!IsUp
  <2>3. proc[p] \in UpProcess
    BY <1>1, <2>2 DEF Process
  <2>4. PICK r : r = [proc[p] EXCEPT !.downSince = t]
    OBVIOUS
  <2>5. /\ r \in UpProcess /\ r.at = "up" /\ r.locked = proc[p].locked
        /\ r.known = proc[p].known /\ r.last = proc[p].last
    BY <2>3, <2>4 DEF UpProcess
  <2>6. r \in Process /\ r.at # "claiming"
    BY <2>5 DEF Process
  <2>7. proc' = [proc EXCEPT ![p] = r]
    BY <2>1, <2>4
  <2> QED
    BY <1>1, <2>2, <2>5, <2>6, <2>7, OneQuietPreserves
<1>5. CASE Host!Exit(p) \/ Host!Die(p)
  <2>1. PICK r \in Process : r = [at |-> "off"]
    BY IdleProcesses
  <2>2. /\ proc' = [proc EXCEPT ![p] = r]
        /\ UNCHANGED <<now, restarts, history, raced, abandoned>>
        /\ \/ lockFile' = lockFile
           \/ proc[p].at = "up" /\ lockFile' = Host!Released(p)
    BY <1>5, <2>1, IdleProcesses DEF Host!Exit, Host!Die, Host!IsUp
  <2>3. proc'[p] = r /\ \A q \in Pids \ {p} : proc'[q] = proc[q]
    BY <2>2, ProcessBecomes DEF HostInv
  <2>4. r.at # "up" /\ r.at # "claiming"
    BY <2>1
  <2>5. lockFile' \in Pids \cup {Nobody}
    BY <1>1, <2>2, ReleasedByTheOneUp
  <2>6. raced = FALSE /\ abandoned = FALSE =>
            lockFile' = lockFile \/ \A q \in Pids : proc'[q].at # "up"
    BY <2>2, <2>3, <2>4, ReleasedByTheOneUp
  <2> QED
    BY <2>2, <2>4, <2>5, <2>6, OneQuietPreserves
<1> QED
  BY <1>2, <1>3, <1>4, <1>5

LEMMA TickPreserves ==
    ASSUME HostInv, Host!Tick
    PROVE  HostInv'
<1>1. /\ now < MaxTime /\ now' = now + 1
      /\ UNCHANGED <<proc, lockFile, restarts, launches, history, raced, abandoned>>
  BY DEF Host!Tick
<1>2. now \in Clock /\ history \in Seq(Clock) /\ \A i \in 1 .. Len(history) : history[i] <= now
  BY DEF HostInv, HostTypes
<1>3. now' \in Clock /\ now <= now'
  BY <1>1, <1>2, HostAssumption DEF Clock
<1>4. \A i \in 1 .. Len(history) : history[i] <= now'
  <2> SUFFICES ASSUME NEW i \in 1 .. Len(history) PROVE history[i] <= now'
    OBVIOUS
  <2>1. history[i] \in Clock
    BY <1>2
  <2> QED
    BY <1>1, <1>2, <2>1 DEF Clock
<1>5. HostTypes'
  BY <1>1, <1>3, <1>4 DEF HostInv, HostTypes
<1> QED
  BY <1>1, <1>3, <1>5, QuietPreserves

\* The newest of some restarts.
LEMMA NewestIsLast ==
    ASSUME NEW times, times \subseteq Clock
    PROVE  /\ Host!Newest(times) \in Clock \cup {-1}
           /\ \A t \in times : Host!Newest(times) # -1 /\ t <= Host!Newest(times)
<1>1. CASE times = {}
  BY <1>1, IdleProcesses DEF Host!Newest
<1>2. CASE times # {}
  <2> DEFINE bounds == {n \in Nat : \A t \in times : t <= n}
  <2>1. times \subseteq Nat /\ MaxTime \in bounds
    BY HostAssumption DEF Clock
  <2>2. PICK n \in bounds : \A m \in bounds : n <= m
    BY <2>1, LeastNumber
  <2>3. n \in times
    <3> SUFFICES ASSUME n \notin times PROVE FALSE
      OBVIOUS
    <3>1. \A t \in times : t < n
      BY <2>1, <2>2
    <3>2. n - 1 \in Nat
      <4>1. PICK t \in times : t < n
        BY <1>2, <3>1
      <4> QED
        BY <2>1, <2>2, <4>1
    <3>3. n - 1 \in bounds
      BY <2>1, <2>2, <3>1, <3>2
    <3> QED
      BY <2>2, <3>2, <3>3
  <2>4. \E t \in times : \A u \in times : u <= t
    BY <2>2, <2>3
  <2>5. Host!Newest(times) \in times /\ \A u \in times : u <= Host!Newest(times)
    BY <1>2, <2>4 DEF Host!Newest
  <2>6. Host!Newest(times) \in Clock /\ Host!Newest(times) \in Nat
    BY <2>1, <2>5
  <2>7. Host!Newest(times) # -1
    BY <2>6
  <2> QED
    BY <2>5, <2>6, <2>7
<1> QED
  BY <1>1, <1>2

\* The process that writes the lock is the only one that is up.
LEMMA WriteLockPreserves ==
    ASSUME HostInv, NEW p \in Pids, Host!WriteLock(p)
    PROVE  HostInv'
<1> DEFINE r == [at |-> "up", locked |-> TRUE, downSince |-> -1,
                 known |-> Host!Inherited, last |-> Host!Newest(Host!Inherited)]
<1>1. /\ proc[p].at = "claiming" /\ lockFile' = p
      /\ raced' = (raced \/ (proc[p].overtaken /\ lockFile # Nobody))
      /\ proc' = [q \in Pids |-> IF q = p THEN r ELSE Host!Overtaken(q)]
      /\ UNCHANGED <<now, restarts, launches, history, abandoned>>
  BY IdleProcesses DEF Host!WriteLock
<1>2. Host!Inherited = {t \in restarts : now - t < RateWindow}
  BY DEF Host!Inherited
<1>3. Host!Inherited \subseteq Clock
  BY <1>2 DEF HostInv, HostTypes
<1>4. r \in Process /\ r.at = "up" /\ r.locked = TRUE
  BY <1>3, NewestIsLast DEF Process, UpProcess
<1>5. r.known = Host!Inherited /\ r.last = Host!Newest(Host!Inherited)
  OBVIOUS
<1> HIDE DEF r
<1>6. ASSUME NEW q \in Pids
      PROVE  /\ Host!Overtaken(q) \in Process /\ Host!Overtaken(q).at = proc[q].at
             /\ proc[q].at = "claiming" => Host!Overtaken(q).overtaken = TRUE
  <2>1. proc[q] \in Process
    BY DEF HostInv, HostTypes
  <2>2. CASE proc[q].at = "claiming"
    <3>1. proc[q] \in [at : {"claiming"}, overtaken : BOOLEAN]
      BY <2>1, <2>2 DEF Process, UpProcess
    <3>2. Host!Overtaken(q) = [proc[q] EXCEPT !.overtaken = TRUE]
      BY <2>2 DEF Host!Overtaken
    <3>3. Host!Overtaken(q) \in [at : {"claiming"}, overtaken : BOOLEAN]
          /\ Host!Overtaken(q).overtaken = TRUE
      BY <3>1, <3>2
    <3> QED
      BY <2>2, <3>3 DEF Process
  <2>3. CASE proc[q].at # "claiming"
    BY <2>1, <2>3 DEF Host!Overtaken
  <2> QED
    BY <2>2, <2>3
<1>7. /\ proc' \in [Pids -> Process] /\ proc'[p] = r
      /\ \A q \in Pids \ {p} : proc'[q] = Host!Overtaken(q)
  BY <1>1, <1>4, <1>6
<1>8. HostTypes'
  <2>1. raced' \in BOOLEAN
    BY <1>1
  <2> QED
    BY <1>1, <1>7, <2>1 DEF HostInv, HostTypes
<1>9. ASSUME raced' = FALSE, abandoned' = FALSE
      PROVE  LockIsHeld' /\ RestartsAreRemembered' /\ RestartsAreApart'
  <2>1. raced = FALSE /\ abandoned = FALSE
    BY <1>1, <1>9 DEF HostInv, HostTypes
  <2>2. LockIsHeld /\ RestartsAreRemembered /\ RestartsAreApart
    BY <2>1 DEF HostInv
  <2>3. proc[p].overtaken = FALSE \/ lockFile = Nobody
    <3>1. proc[p] \in [at : {"claiming"}, overtaken : BOOLEAN]
      BY <1>1 DEF HostInv, HostTypes, Process, UpProcess
    <3> QED
      BY <1>1, <1>9, <3>1
  <2>4. \A q \in Pids : proc[q].at # "up"
    BY <1>1, <2>2, <2>3, HostAssumption DEF LockIsHeld
  <2>5. \A q \in Pids \ {p} : proc'[q].at # "up" /\ (proc'[q].at = "claiming" => proc'[q].overtaken = TRUE)
    BY <1>6, <1>7, <2>4
  <2>6. LockIsHeld'
    BY <1>1, <1>4, <1>7, <2>5 DEF LockIsHeld
  <2>7. RestartsAreRemembered'
    <3>1. \A i \in 1 .. Len(history) : now - history[i] < RateWindow => history[i] \in Host!Inherited
      BY <1>2, <2>2 DEF RestartsAreRemembered
    <3>2. \A t \in Host!Inherited : r.last # -1 /\ t <= r.last
      BY <1>3, <1>5, NewestIsLast
    <3>3. \A q \in Pids : proc'[q].at = "up" => q = p
      BY <2>5
    <3> QED
      BY <1>1, <1>5, <1>7, <2>2, <3>1, <3>2, <3>3 DEF RestartsAreRemembered
  <2>8. RestartsAreApart'
    BY <1>1, <2>2 DEF RestartsAreApart
  <2> QED
    BY <2>6, <2>7, <2>8
<1> QED
  BY <1>8, <1>9 DEF HostInv

\* As many restarts as there are, so many are remembered: they are apart.
LEMMA ManyAreRemembered ==
    ASSUME NEW times, times \subseteq Clock, history \in Seq(Clock), RestartsAreApart,
           NEW i \in 1 .. Len(history), \A k \in i .. Len(history) : history[k] \in times
    PROVE  Len(history) - i + 1 <= Cardinality(times)
<1> DEFINE span == i .. Len(history)
           f == [k \in span |-> history[k]]
<1>1. Len(history) \in Nat /\ i \in Int /\ span \subseteq 1 .. Len(history)
  OBVIOUS
<1>2. \A k, m \in span : k < m => f[k] # f[m]
  <2> SUFFICES ASSUME NEW k \in span, NEW m \in span, k < m
               PROVE  history[k] # history[m]
    OBVIOUS
  <2>1. history[m] - history[k] >= MinRestartGap
    BY <1>1 DEF RestartsAreApart
  <2>2. history[k] \in Clock /\ history[m] \in Clock
    BY <1>1
  <2> QED
    BY <2>1, <2>2, HostAssumption DEF Clock
<1>3. \A k, m \in span : f[k] = f[m] => k = m
  <2> SUFFICES ASSUME NEW k \in span, NEW m \in span, k # m
               PROVE  f[k] # f[m]
    OBVIOUS
  <2>1. k < m \/ m < k
    BY <1>1
  <2> HIDE DEF f
  <2> QED
    BY <1>2, <2>1
<1>4. f \in [span -> times]
  OBVIOUS
<1> HIDE DEF f
<1>5. f \in Injection(span, times)
  BY <1>3, <1>4 DEF Injection, IsInjective
<1>6. IsFiniteSet(times)
  <2>1. 0 \in Int /\ MaxTime \in Int
    BY HostAssumption
  <2>2. IsFiniteSet(Clock)
    BY <2>1, FS_Interval DEF Clock
  <2> QED
    BY <2>2, FS_Subset
<1>7. Cardinality(span) <= Cardinality(times)
  BY <1>5, <1>6, FS_Injection
<1>8. Cardinality(span) = Len(history) - i + 1
  BY <1>1, FS_Interval
<1> QED
  BY <1>7, <1>8

\* What is noted when a process replaces itself.
LEMMA NotedTypes ==
    ASSUME HostInv, NEW p \in Pids, proc[p].at = "up", Host!Noted(p)
    PROVE  /\ Host!Recent(p) = {t \in proc[p].known : now - t < RateWindow}
           /\ Host!Recent(p) \subseteq Clock /\ restarts' = Host!Recent(p) \cup {now}
           /\ restarts' \subseteq Clock
           /\ history' \in Seq(Clock) /\ Len(history') = Len(history) + 1
           /\ history'[Len(history) + 1] = now
           /\ \A i \in 1 .. Len(history) : history'[i] = history[i]
           /\ \A i \in 1 .. Len(history') : history'[i] <= now
<1>1. proc[p] \in UpProcess /\ now \in Clock /\ history \in Seq(Clock)
      /\ \A i \in 1 .. Len(history) : history[i] <= now
  BY DEF HostInv, HostTypes, Process
<1>2. Host!Recent(p) = {t \in proc[p].known : now - t < RateWindow}
  BY DEF Host!Recent
<1>3. Host!Recent(p) \subseteq Clock
  BY <1>1, <1>2 DEF UpProcess
<1>4. restarts' = Host!Recent(p) \cup {now} /\ history' = Append(history, now)
  BY DEF Host!Noted
<1>5. /\ history' \in Seq(Clock) /\ Len(history') = Len(history) + 1
      /\ history'[Len(history) + 1] = now
      /\ \A i \in 1 .. Len(history) : history'[i] = history[i]
  BY <1>1, <1>4
<1>6. \A i \in 1 .. Len(history') : i \in 1 .. Len(history) \/ i = Len(history) + 1
  BY <1>1, <1>5
<1>7. now <= now
  BY <1>1 DEF Clock
<1> QED
  BY <1>1, <1>2, <1>3, <1>4, <1>5, <1>6, <1>7

\* A process that may restart is late enough after every restart there was, and there
\* were not too many lately.
LEMMA RestartIsApart ==
    ASSUME HostInv, raced = FALSE, abandoned = FALSE,
           NEW p \in Pids, proc[p].at = "up", Host!MayRestart(p), NEW i \in 1 .. Len(history)
    PROVE  /\ now - history[i] >= MinRestartGap
           /\ Len(history) + 1 - i >= MaxRestarts => now - history[i] >= RateWindow
<1>1. LockIsHeld /\ RestartsAreRemembered /\ RestartsAreApart
  BY DEF HostInv
<1>2. proc[p] \in UpProcess /\ now \in Clock /\ history \in Seq(Clock) /\ history[i] \in Clock
      /\ \A k \in 1 .. Len(history) : history[k] <= now
  BY DEF HostInv, HostTypes, Process
<1>3. now \in Nat /\ history[i] \in Nat /\ proc[p].last \in Int /\ Len(history) \in Nat
  BY <1>2 DEF Clock, UpProcess
<1>4. /\ proc[p].last = -1 \/ now - proc[p].last >= MinRestartGap
      /\ Cardinality(Host!Recent(p)) < MaxRestarts
  BY IdleProcesses, SameCardinality DEF Host!MayRestart
<1>5. Host!Recent(p) = {t \in proc[p].known : now - t < RateWindow}
  BY DEF Host!Recent
<1>6. \A k \in 1 .. Len(history) : now - history[k] < RateWindow => history[k] \in proc[p].known
  BY <1>1 DEF RestartsAreRemembered
<1>7. now - history[i] >= MinRestartGap
  <2>1. CASE now - history[i] < RateWindow
    <3>1. proc[p].last # -1 /\ history[i] <= proc[p].last
      BY <1>1, <1>6, <2>1 DEF RestartsAreRemembered
    <3> QED
      BY <1>3, <1>4, <3>1, HostAssumption
  <2>2. CASE ~(now - history[i] < RateWindow)
    BY <1>3, <2>2, HostAssumption
  <2> QED
    BY <2>1, <2>2
<1>8. ASSUME Len(history) + 1 - i >= MaxRestarts, now - history[i] < RateWindow
      PROVE  FALSE
  <2>1. \A k \in i .. Len(history) : history[k] \in Host!Recent(p)
    <3> SUFFICES ASSUME NEW k \in i .. Len(history)
                 PROVE  history[k] \in Host!Recent(p)
      OBVIOUS
    <3>1. k \in 1 .. Len(history) /\ history[k] \in Clock
      BY <1>2, <1>3
    <3>2. history[i] <= history[k]
      <4>1. CASE i < k
        <5>1. history[k] - history[i] >= MinRestartGap
          BY <1>1, <3>1, <4>1 DEF RestartsAreApart
        <5> QED
          BY <1>3, <3>1, <5>1, HostAssumption DEF Clock
      <4>2. CASE i = k
        BY <1>3, <4>2
      <4> QED
        BY <1>3, <4>1, <4>2
    <3>3. now - history[k] < RateWindow
      BY <1>3, <1>8, <3>1, <3>2, HostAssumption DEF Clock
    <3> QED
      BY <1>5, <1>6, <3>1, <3>3
  <2>2. Host!Recent(p) \subseteq Clock
    BY <1>2, <1>5 DEF UpProcess
  <2>3. Len(history) - i + 1 <= Cardinality(Host!Recent(p))
    BY <1>1, <1>2, <2>1, <2>2, ManyAreRemembered
  <2>4. Cardinality(Host!Recent(p)) \in Nat
    <3>1. 0 \in Int /\ MaxTime \in Int
      BY HostAssumption
    <3>2. IsFiniteSet(Clock)
      BY <3>1, FS_Interval DEF Clock
    <3>3. IsFiniteSet(Host!Recent(p))
      BY <2>2, <3>2, FS_Subset
    <3> QED
      BY <3>3, FS_CardinalityType
  <2> QED
    BY <1>3, <1>4, <1>8, <2>3, <2>4, HostAssumption
<1> QED
  BY <1>3, <1>7, <1>8, HostAssumption

LEMMA RespawnPreserves ==
    ASSUME HostInv, NEW p \in Pids, NEW q \in Pids \ {p}, Host!Respawn(p, q)
    PROVE  HostInv'
<1>1. /\ proc[p].at = "up" /\ Host!MayRestart(p) /\ Host!Noted(p)
      /\ lockFile' = Host!Released(p)
      /\ proc' = [proc EXCEPT ![p] = [at |-> "off"], ![q] = [at |-> "starting"]]
      /\ UNCHANGED <<now, launches, raced, abandoned>>
  BY IdleProcesses DEF Host!Respawn, Host!IsUp
<1>2. /\ proc' \in [Pids -> Process] /\ proc'[p].at = "off" /\ proc'[q].at = "starting"
      /\ \A x \in Pids \ {p, q} : proc'[x] = proc[x]
  BY <1>1, IdleProcesses DEF HostInv, HostTypes
<1>3. lockFile' \in Pids \cup {Nobody}
  BY <1>1, ReleasedByTheOneUp
<1>4. HostTypes'
  BY <1>1, <1>2, <1>3, NotedTypes DEF HostInv, HostTypes
<1>5. /\ Len(history) \in Nat /\ Len(history') = Len(history) + 1
      /\ history'[Len(history) + 1] = now
      /\ \A k \in 1 .. Len(history) : history'[k] = history[k]
      /\ restarts' = Host!Recent(p) \cup {now}
      /\ Host!Recent(p) = {t \in proc[p].known : now - t < RateWindow}
  <2>1. history \in Seq(Clock)
    BY DEF HostInv, HostTypes
  <2> QED
    BY <1>1, <2>1, NotedTypes
<1>6. ASSUME raced = FALSE, abandoned = FALSE
      PROVE  LockIsHeld' /\ RestartsAreRemembered' /\ RestartsAreApart'
  <2>1. LockIsHeld /\ RestartsAreRemembered /\ RestartsAreApart
    BY <1>6 DEF HostInv
  <2>2. \A x \in Pids : proc'[x].at # "up"
    BY <1>1, <1>2, <1>6, ReleasedByTheOneUp
  <2>3. LockIsHeld'
    BY <2>2 DEF LockIsHeld
  <2>4. RestartsAreRemembered'
    <3>1. \A i \in 1 .. Len(history) : now - history[i] < RateWindow => history[i] \in Host!Recent(p)
      BY <1>1, <1>5, <2>1 DEF RestartsAreRemembered
    <3>2. \A i \in 1 .. Len(history') : i \in 1 .. Len(history) \/ i = Len(history) + 1
      BY <1>5
    <3>3. \A i \in 1 .. Len(history') : now' - history'[i] < RateWindow => history'[i] \in restarts'
      BY <1>1, <1>5, <3>1, <3>2
    <3> QED
      BY <2>2, <3>3 DEF RestartsAreRemembered
  <2>5. RestartsAreApart'
    <3> SUFFICES ASSUME NEW i \in 1 .. Len(history'), NEW j \in 1 .. Len(history'), i < j
                 PROVE  /\ history'[j] - history'[i] >= MinRestartGap
                        /\ j - i >= MaxRestarts => history'[j] - history'[i] >= RateWindow
      BY DEF RestartsAreApart
    <3>1. CASE j \in 1 .. Len(history)
      <4>1. i \in 1 .. Len(history)
        BY <1>5, <3>1
      <4> QED
        BY <1>5, <2>1, <3>1, <4>1 DEF RestartsAreApart
    <3>2. CASE j = Len(history) + 1
      <4>1. i \in 1 .. Len(history) /\ history'[i] = history[i] /\ history'[j] = now
        BY <1>5, <3>2
      <4>2. /\ now - history[i] >= MinRestartGap
            /\ Len(history) + 1 - i >= MaxRestarts => now - history[i] >= RateWindow
        BY <1>1, <1>6, <4>1, RestartIsApart
      <4> QED
        BY <3>2, <4>1, <4>2
    <3> QED
      BY <1>5, <3>1, <3>2
  <2> QED
    BY <2>3, <2>4, <2>5
<1> QED
  BY <1>1, <1>4, <1>6 DEF HostInv

LEMMA RespawnFailsPreserves ==
    ASSUME HostInv, NEW p \in Pids, Host!RespawnFails(p)
    PROVE  HostInv'
<1>1. /\ proc[p].at = "up" /\ Host!Noted(p) /\ lockFile' = Host!Released(p)
      /\ proc' = [proc EXCEPT ![p].locked = FALSE, ![p].downSince = now, ![p].last = now,
                              ![p].known = Host!Recent(p) \cup {now}]
      /\ abandoned' = TRUE /\ UNCHANGED <<now, launches, raced>>
  BY DEF Host!RespawnFails, Host!IsUp
<1>2. /\ proc[p] \in UpProcess /\ now \in Clock /\ proc \in [Pids -> Process]
      /\ raced \in BOOLEAN
  BY <1>1 DEF HostInv, HostTypes, Process
<1>3. Host!Recent(p) \cup {now} \subseteq Clock
  BY <1>1, <1>2, NotedTypes
<1>4. PICK r : r = [proc[p] EXCEPT !.locked = FALSE, !.downSince = now, !.last = now,
                                   !.known = Host!Recent(p) \cup {now}]
  OBVIOUS
<1>5. r \in UpProcess
  BY <1>2, <1>3, <1>4 DEF UpProcess
<1>6. proc' = [proc EXCEPT ![p] = r]
  BY <1>1, <1>2, <1>4
<1>7. proc' \in [Pids -> Process]
  BY <1>2, <1>5, <1>6 DEF Process
<1>8. lockFile' \in Pids \cup {Nobody}
  BY <1>1, ReleasedByTheOneUp
<1>9. HostTypes'
  BY <1>1, <1>2, <1>7, <1>8, NotedTypes DEF HostTypes
<1> QED
  BY <1>1, <1>9 DEF HostInv

LEMMA HostNext == HostInv /\ [Host!Next]_hosting => HostInv'
<1> SUFFICES ASSUME HostInv, [Host!Next]_hosting PROVE HostInv'
  OBVIOUS
<1>1. CASE UNCHANGED hosting
  <2>1. UNCHANGED <<now, proc, lockFile, restarts, history, raced, abandoned>>
    BY <1>1 DEF hosting
  <2> QED
    BY <2>1 DEF HostInv, HostTypes, LockIsHeld, RestartsAreRemembered, RestartsAreApart
<1>2. CASE Host!Next
  BY <1>2, TickPreserves, QuietSteps, WriteLockPreserves, RespawnPreserves, RespawnFailsPreserves
     DEF Host!Next
<1> QED
  BY <1>1, <1>2

LEMMA HostSafe == HostInv => Host!TypeOK /\ Host!OneAgent /\ Host!RestartsAreLimited
<1> SUFFICES ASSUME HostInv
             PROVE  Host!TypeOK /\ Host!OneAgent /\ Host!RestartsAreLimited
  OBVIOUS
<1>1. Host!TypeOK
  <2>1. \A p \in Pids :
          \/ proc[p] \in {Host!Off, Host!Starting}
          \/ proc[p].at = "claiming" /\ proc[p].overtaken \in BOOLEAN
          \/ /\ proc[p].at = "up" /\ proc[p].downSince \in Clock \cup {-1}
             /\ proc[p].known \subseteq Clock
    <3> SUFFICES ASSUME NEW p \in Pids
                 PROVE  \/ proc[p] \in {[at |-> "off"], [at |-> "starting"]}
                        \/ proc[p].at = "claiming" /\ proc[p].overtaken \in BOOLEAN
                        \/ /\ proc[p].at = "up" /\ proc[p].downSince \in Clock \cup {-1}
                           /\ proc[p].known \subseteq Clock
      BY IdleProcesses
    <3>1. proc[p] \in Process
      BY DEF HostInv, HostTypes
    <3>2. CASE proc[p] \in [at : {"off", "starting"}]
      BY <3>2
    <3>3. CASE proc[p] \in [at : {"claiming"}, overtaken : BOOLEAN]
      BY <3>3
    <3>4. CASE proc[p] \in UpProcess
      BY <3>4 DEF UpProcess
    <3> QED
      BY <3>1, <3>2, <3>3, <3>4 DEF Process
  <2> QED
    BY <2>1, IdleProcesses DEF HostInv, HostTypes, Host!TypeOK, Host!Times, Host!IsUp, Clock
<1>2. Host!OneAgent
  <2> DEFINE ups == {p \in Pids : proc[p].at = "up"}
  <2> SUFFICES ASSUME raced = FALSE, abandoned = FALSE
               PROVE  Cardinality(ups) <= 1
    BY SameCardinality DEF HostInv, HostTypes, Host!OneAgent, Host!IsUp
  <2>1. \A p, q \in ups : p = q
    BY DEF HostInv, LockIsHeld
  <2>2. CASE ups = {}
    BY <2>2, FS_EmptySet
  <2>3. CASE ups # {}
    <3>1. PICK p : ups = {p}
      BY <2>1, <2>3
    <3> QED
      BY <3>1, FS_Singleton
  <2> QED
    BY <2>2, <2>3
<1>3. Host!RestartsAreLimited
  BY DEF Host!RestartsAreLimited, HostInv, HostTypes, RestartsAreApart
<1> QED
  BY <1>1, <1>2, <1>3

-----------------------------------------------------------------------------
(* The outbox (DmOutbox).                                                   *)

\* A queue of the rows 1 .. n in the order they occurred, each with no more
\* attempts than answers that left it unconfirmed, and fewer than the limit.
Queue(q, n, a) ==
    /\ q \in Seq([row : Nat, attempts : Nat])
    /\ \A i \in 1 .. Len(q) :
          q[i].row \in 1 .. n /\ q[i].attempts < MAX_ATTEMPTS /\ q[i].attempts <= a[q[i].row]
    /\ \A i, j \in 1 .. Len(q) : i < j => q[i].row < q[j].row

\* The rows that n backlogs hold.
Room(n) == MAX_PENDING * n

OutboxTypes ==
    /\ service \in {"takes", "ignores", "refuses"}
    /\ store \subseteq Rows
    /\ up \in BOOLEAN /\ torn \in BOOLEAN /\ unsupported \in BOOLEAN
    /\ recorded \in Nat /\ 1 .. recorded \subseteq Rows
    /\ answers \in [Rows -> 0 .. MAX_ATTEMPTS]
    /\ Queue(waiting, recorded, answers) /\ Queue(saved, recorded, answers)
    /\ poll \in {Outbox!Idle} \cup [sent : {TRUE}, rows : SUBSET (1 .. recorded)]
    /\ ~up => poll = Outbox!Idle
    /\ faults \in Nat

\* The file is never behind: what the memory need not hold any more, the file may
\* still hold, and a kill loses nothing that has to arrive.
NothingIsLost ==
    \A r \in 1 .. recorded :
        /\ r \in store \cup excused \cup Outbox!RowsOf(saved)
        /\ up => r \in store \cup excused \cup Outbox!RowsOf(waiting)

\* The file keeps a backlog more than the memory for every write that failed.
BacklogFits ==
    /\ Cardinality(Outbox!RowsOf(waiting)) <= Room(faults + 1)
    /\ Cardinality(Outbox!RowsOf(saved)) <= Room(faults + 1)
    /\ up => Cardinality(Outbox!RowsOf(saved) \ Outbox!RowsOf(waiting)) <= Room(faults)

OutboxInv == OutboxTypes /\ NothingIsLost /\ BacklogFits

LEMMA SameKept ==
    \A s, K : Outbox!Kept(s, K) = Kept(s, K)
BY DEF Outbox!Kept, Kept

LEMMA RoomFacts ==
    /\ Room(0) = 0
    /\ \A n \in Nat : Room(n) \in Nat /\ Room(n + 1) = Room(n) + MAX_PENDING
<1>1. MAX_PENDING \in Nat
  BY OutboxAssumption
<1> QED
  BY <1>1 DEF Room

LEMMA QueueEntries ==
    ASSUME NEW q, NEW n \in Nat, NEW a, Queue(q, n, a)
    PROVE  /\ Len(q) \in Nat /\ DOMAIN q = 1 .. Len(q)
           /\ \A i \in 1 .. Len(q) :
                q[i] \in [row : Nat, attempts : Nat] /\ q[i].row \in Nat /\ q[i].attempts \in Nat
<1>1. PICK E : E = [row : Nat, attempts : Nat]
  OBVIOUS
<1>2. q \in Seq(E)
  BY <1>1 DEF Queue
<1>3. Len(q) \in Nat /\ DOMAIN q = 1 .. Len(q) /\ \A i \in 1 .. Len(q) : q[i] \in E
  BY <1>2
<1> QED
  BY <1>1, <1>3

LEMMA QueueGrows ==
    ASSUME NEW q, NEW n \in Nat, NEW m \in Nat, n <= m, NEW a, NEW b,
           Queue(q, n, a), \A r \in 1 .. n : a[r] \in Nat /\ b[r] \in Nat /\ a[r] <= b[r]
    PROVE  Queue(q, m, b)
<1>1. ASSUME NEW i \in 1 .. Len(q)
      PROVE  q[i].row \in 1 .. m /\ q[i].attempts <= b[q[i].row]
  <2>1. q[i].attempts \in Nat
    BY QueueEntries
  <2>2. q[i].row \in 1 .. n /\ q[i].attempts <= a[q[i].row] /\ q[i].attempts \in Nat
    BY <2>1 DEF Queue
  <2>3. PICK r \in 1 .. n : r = q[i].row
    BY <2>2
  <2>4. a[r] \in Nat /\ b[r] \in Nat /\ a[r] <= b[r] /\ r \in 1 .. m
    BY <2>3
  <2> QED
    BY <2>2, <2>3, <2>4
<1> QED
  BY <1>1 DEF Queue

LEMMA QueueRows ==
    ASSUME NEW q, NEW n \in Nat, NEW a, Queue(q, n, a)
    PROVE  /\ Outbox!RowsOf(q) = {q[i].row : i \in 1 .. Len(q)}
           /\ Outbox!RowsOf(q) \subseteq 1 .. n
           /\ IsFiniteSet(Outbox!RowsOf(q))
           /\ Cardinality(Outbox!RowsOf(q)) = Len(q)
<1>1. Len(q) \in Nat /\ DOMAIN q = 1 .. Len(q)
  BY QueueEntries
<1>2. Outbox!RowsOf(q) = {q[i].row : i \in 1 .. Len(q)}
  BY <1>1 DEF Outbox!RowsOf
<1>3. Outbox!RowsOf(q) \subseteq 1 .. n
  BY <1>2 DEF Queue
<1> DEFINE f == [i \in 1 .. Len(q) |-> q[i].row]
<1>4. IsFiniteSet(1 .. Len(q)) /\ Cardinality(1 .. Len(q)) = Len(q)
  <2>1. PICK n1 \in Nat : n1 = Len(q)
    BY <1>1
  <2>2. IsFiniteSet(1 .. n1) /\ Cardinality(1 .. n1) = IF 1 > n1 THEN 0 ELSE n1 - 1 + 1
    BY FS_Interval
  <2> QED
    BY <2>1, <2>2
<1>5. \A i \in 1 .. Len(q) : q[i].row \in Nat
  BY QueueEntries
<1>6. f \in Bijection(1 .. Len(q), Outbox!RowsOf(q))
  <2>1. f \in [1 .. Len(q) -> Outbox!RowsOf(q)]
    BY <1>2
  <2>2. \A i, j \in 1 .. Len(q) : f[i] = f[j] => i = j
    <3> SUFFICES ASSUME NEW i \in 1 .. Len(q), NEW j \in 1 .. Len(q), f[i] = f[j], i # j
                 PROVE  FALSE
      OBVIOUS
    <3>1. q[i].row = q[j].row /\ q[i].row \in Nat
      BY <1>5
    <3>2. i < j \/ j < i
      OBVIOUS
    <3>3. q[i].row < q[j].row \/ q[j].row < q[i].row
      BY <3>2 DEF Queue
    <3> QED
      BY <3>1, <3>3
  <2>3. \A r \in Outbox!RowsOf(q) : \E i \in 1 .. Len(q) : f[i] = r
    BY <1>2
  <2> QED
    BY <2>1, <2>2, <2>3 DEF Bijection, Injection, Surjection, IsInjective
<1>7. IsFiniteSet(Outbox!RowsOf(q)) /\ Cardinality(Outbox!RowsOf(q)) = Cardinality(1 .. Len(q))
  BY <1>4, <1>6, FS_Bijection DEF ExistsBijection
<1> QED
  BY <1>2, <1>3, <1>4, <1>7

LEMMA QueueEmpty ==
    ASSUME NEW n \in Nat, NEW a
    PROVE  Queue(<<>>, n, a) /\ Outbox!RowsOf(<<>>) = {}
<1>1. \A S : <<>> \in Seq(S)
  OBVIOUS
<1> QED
  BY <1>1 DEF Queue, Outbox!RowsOf

LEMMA QueueAppended ==
    ASSUME NEW q, NEW n \in Nat, NEW a, Queue(q, n, a), a[n + 1] \in Nat,
           NEW e, e = [row |-> n + 1, attempts |-> 0]
    PROVE  /\ Queue(Append(q, e), n + 1, a)
           /\ Outbox!RowsOf(Append(q, e)) = Outbox!RowsOf(q) \cup {n + 1}
           /\ Len(Append(q, e)) = Len(q) + 1
<1>1. PICK E : E = [row : Nat, attempts : Nat]
  OBVIOUS
<1>2. PICK p : p = Append(q, e)
  OBVIOUS
<1>3. q \in Seq(E) /\ e \in E
  BY <1>1 DEF Queue
<1>4. PICK len \in Nat : len = Len(q)
  BY <1>3
<1>5. /\ p \in Seq(E) /\ Len(p) = len + 1
      /\ \A i \in 1 .. len : p[i] = q[i]
      /\ p[len + 1] = e
  BY <1>2, <1>3, <1>4
<1>6. ASSUME NEW i \in 1 .. len
      PROVE  /\ p[i].row \in 1 .. n /\ p[i].attempts < MAX_ATTEMPTS /\ p[i].attempts <= a[p[i].row]
  BY <1>4, <1>5 DEF Queue
<1>7. p[len + 1].row = n + 1 /\ p[len + 1].attempts = 0
  BY <1>5
<1>8. \A i \in 1 .. len + 1 :
        p[i].row \in 1 .. n + 1 /\ p[i].attempts < MAX_ATTEMPTS /\ p[i].attempts <= a[p[i].row]
  <2>1. 0 < MAX_ATTEMPTS
    BY OutboxAssumption
  <2> SUFFICES ASSUME NEW i \in 1 .. len + 1
               PROVE  p[i].row \in 1 .. n + 1 /\ p[i].attempts < MAX_ATTEMPTS /\ p[i].attempts <= a[p[i].row]
    OBVIOUS
  <2>2. CASE i = len + 1
    BY <1>7, <2>1, <2>2
  <2>3. CASE i \in 1 .. len
    BY <1>6, <2>3
  <2> QED
    BY <2>2, <2>3
<1>9. \A i, j \in 1 .. len + 1 : i < j => p[i].row < p[j].row
  <2> SUFFICES ASSUME NEW i \in 1 .. len + 1, NEW j \in 1 .. len + 1, i < j
               PROVE  p[i].row < p[j].row
    OBVIOUS
  <2>1. i \in 1 .. len
    OBVIOUS
  <2>2. CASE j = len + 1
    BY <1>6, <1>7, <2>1, <2>2
  <2>3. CASE j \in 1 .. len
    <3>1. q[i].row < q[j].row
      BY <1>4, <2>1, <2>3 DEF Queue
    <3> QED
      BY <1>5, <2>1, <2>3, <3>1
  <2> QED
    BY <2>2, <2>3
<1>10. Queue(p, n + 1, a)
  BY <1>1, <1>5, <1>8, <1>9 DEF Queue
<1>11. Outbox!RowsOf(q) = {q[i].row : i \in 1 .. len}
  BY <1>4, QueueRows
<1>12. Outbox!RowsOf(p) = {p[i].row : i \in 1 .. len + 1}
  BY <1>5, <1>10, QueueRows
<1>13. Outbox!RowsOf(p) = Outbox!RowsOf(q) \cup {n + 1}
  <2>1. ASSUME NEW r \in Outbox!RowsOf(p)  PROVE r \in Outbox!RowsOf(q) \cup {n + 1}
    <3>1. PICK i \in 1 .. len + 1 : r = p[i].row
      BY <1>12, <2>1
    <3>2. CASE i = len + 1
      BY <1>7, <3>1, <3>2
    <3>3. CASE i \in 1 .. len
      BY <1>5, <1>11, <3>1, <3>3
    <3> QED
      BY <3>2, <3>3
  <2>2. ASSUME NEW r \in Outbox!RowsOf(q)  PROVE r \in Outbox!RowsOf(p)
    <3>1. PICK i \in 1 .. len : r = q[i].row
      BY <1>11, <2>2
    <3>2. i \in 1 .. len + 1 /\ p[i].row = r
      BY <1>5, <3>1
    <3> QED
      BY <1>12, <3>2
  <2>3. n + 1 \in Outbox!RowsOf(p)
    <3>1. len + 1 \in 1 .. len + 1
      OBVIOUS
    <3> QED
      BY <1>7, <1>12, <3>1
  <2> QED
    BY <2>1, <2>2, <2>3
<1> QED
  BY <1>2, <1>4, <1>5, <1>10, <1>13

\* Of a queue, the latest rows that the backlog holds.
LEMMA QueueLatest ==
    ASSUME NEW q, NEW n \in Nat, NEW a, Queue(q, n, a)
    PROVE  /\ Queue(Outbox!WithinBacklog(q), n, a)
           /\ Outbox!RowsOf(Outbox!WithinBacklog(q)) \subseteq Outbox!RowsOf(q)
           /\ Len(Outbox!WithinBacklog(q)) <= MAX_PENDING
           /\ Len(q) <= MAX_PENDING => Outbox!WithinBacklog(q) = q
<1>1. PICK E : E = [row : Nat, attempts : Nat]
  OBVIOUS
<1>2. PICK len \in Nat : len = Len(q)
  BY QueueEntries
<1>3. PICK max \in Nat : max = MAX_PENDING
  BY OutboxAssumption
<1>4. CASE ~(len > max)
  <2>1. Outbox!WithinBacklog(q) = q
    BY <1>2, <1>3, <1>4 DEF Outbox!WithinBacklog
  <2> QED
    BY <1>2, <1>3, <1>4, <2>1
<1>5. CASE len > max
  <2>1. PICK p : p = SubSeq(q, len - max + 1, len)
    OBVIOUS
  <2>2. Outbox!WithinBacklog(q) = p
    BY <1>2, <1>3, <1>5, <2>1 DEF Outbox!WithinBacklog
  <2>3. q \in Seq(E)
    BY <1>1 DEF Queue
  <2>4. /\ p \in Seq(E) /\ Len(p) = max
        /\ \A i \in 1 .. max : p[i] = q[i + (len - max)]
    BY <1>2, <1>5, <2>1, <2>3
  <2>5. \A i \in 1 .. max : i + (len - max) \in 1 .. len
    BY <1>5
  <2>6. Queue(p, n, a)
    <3>1. ASSUME NEW i \in 1 .. max
          PROVE  p[i].row \in 1 .. n /\ p[i].attempts < MAX_ATTEMPTS /\ p[i].attempts <= a[p[i].row]
      BY <1>2, <2>4, <2>5 DEF Queue
    <3>2. ASSUME NEW i \in 1 .. max, NEW j \in 1 .. max, i < j
          PROVE  p[i].row < p[j].row
      <4>1. i + (len - max) < j + (len - max)
        BY <3>2
      <4> QED
        BY <1>2, <2>4, <2>5, <4>1 DEF Queue
    <3> QED
      BY <1>1, <2>4, <3>1, <3>2 DEF Queue
  <2>7. Outbox!RowsOf(p) = {p[i].row : i \in 1 .. max} /\ Outbox!RowsOf(q) = {q[i].row : i \in 1 .. len}
    BY <1>2, <2>4, <2>6, QueueRows
  <2>8. Outbox!RowsOf(p) \subseteq Outbox!RowsOf(q)
    BY <2>4, <2>5, <2>7
  <2> QED
    BY <1>2, <1>3, <1>5, <2>2, <2>4, <2>6, <2>8
<1> QED
  BY <1>4, <1>5

\* The history of answers after one that leaves the rows `left` unconfirmed.
Counted(left) ==
    [r \in Rows |-> IF r \in left /\ answers[r] < MAX_ATTEMPTS THEN answers[r] + 1 ELSE answers[r]]

LEMMA CountedGrows ==
    ASSUME OutboxTypes, NEW left
    PROVE  /\ Counted(left) \in [Rows -> 0 .. MAX_ATTEMPTS]
           /\ \A r \in Rows : /\ answers[r] \in Nat /\ Counted(left)[r] \in Nat
                              /\ answers[r] <= Counted(left)[r]
                              /\ r \in left => Counted(left)[r] = IF answers[r] < MAX_ATTEMPTS
                                                                  THEN answers[r] + 1 ELSE MAX_ATTEMPTS
<1>1. PICK max \in Nat : max = MAX_ATTEMPTS
  BY OutboxAssumption
<1>2. answers \in [Rows -> 0 .. max]
  BY <1>1 DEF OutboxTypes
<1>3. \A r \in Rows : Counted(left)[r] = IF r \in left /\ answers[r] < max THEN answers[r] + 1 ELSE answers[r]
  BY <1>1 DEF Counted
<1>4. \A r \in Rows : answers[r] \in 0 .. max /\ Counted(left)[r] \in 0 .. max
  BY <1>2, <1>3
<1>5. Counted(left) = [r \in Rows |-> Counted(left)[r]]
  BY DEF Counted
<1>6. Counted(left) \in [Rows -> 0 .. max]
  BY <1>4, <1>5
<1> QED
  BY <1>1, <1>3, <1>4, <1>6

\* settle keeps the rows that are neither confirmed nor out of attempts, in their order.
LEMMA QueueSettled ==
    ASSUME OutboxTypes,
           NEW accepted \in SUBSET poll.rows, NEW rejected \in SUBSET poll.rows,
           NEW b, b = Counted(poll.rows \ (accepted \cup rejected)),
           NEW kept, kept = Outbox!Settled(accepted, rejected)
    PROVE  /\ Queue(kept, recorded, b)
           /\ Outbox!RowsOf(kept) \subseteq Outbox!RowsOf(waiting)
           /\ \A r \in Outbox!RowsOf(waiting) :
                \/ r \in Outbox!RowsOf(kept)
                \/ r \in accepted \cup rejected
                \/ r \in poll.rows /\ b[r] = MAX_ATTEMPTS
<1>1. PICK E : E = [row : Nat, attempts : Nat]
  OBVIOUS
<1>2. PICK len \in Nat : len = Len(waiting)
  BY QueueEntries DEF OutboxTypes
<1>3. PICK max \in Nat : max = MAX_ATTEMPTS
  BY OutboxAssumption
<1>4. PICK n \in Nat : n = recorded
  BY DEF OutboxTypes
<1>5. PICK confirmed : confirmed = accepted \cup rejected
  OBVIOUS
<1>6. PICK rows : rows = poll.rows
  OBVIOUS
<1>7. waiting \in Seq(E) /\ DOMAIN waiting = 1 .. len
  BY <1>1, <1>2, QueueEntries DEF OutboxTypes, Queue
<1>8. \A i \in 1 .. len :
        /\ waiting[i] \in E
        /\ waiting[i].row \in 1 .. n
        /\ waiting[i].attempts \in Nat /\ waiting[i].attempts < max
        /\ waiting[i].attempts <= answers[waiting[i].row]
  BY <1>1, <1>2, <1>3, <1>4, QueueEntries DEF OutboxTypes, Queue
<1>9. \A i, j \in 1 .. len : i < j => waiting[i].row < waiting[j].row
  BY <1>2 DEF OutboxTypes, Queue
<1>10. \A r \in 1 .. n : /\ answers[r] \in Nat /\ b[r] \in Nat /\ answers[r] <= b[r]
                         /\ r \in rows \ confirmed => b[r] = IF answers[r] < max THEN answers[r] + 1 ELSE max
  <2>1. 1 .. n \subseteq Rows
    BY <1>4 DEF OutboxTypes
  <2> QED
    BY <1>3, <1>5, <1>6, <2>1, CountedGrows
<1> DEFINE tried == [i \in DOMAIN waiting |-> Outbox!Attempted(waiting[i])]
           staying == {e \in {tried[i] : i \in DOMAIN tried} :
                          e.row \notin Outbox!Confirmed(accepted, rejected) /\ e.attempts < MAX_ATTEMPTS}
<1>11. Outbox!Settled(accepted, rejected) = Kept(tried, staying)
  BY SameKept DEF Outbox!Settled
<1>12. \A i \in 1 .. len : tried[i] = Outbox!Attempted(waiting[i])
  BY <1>7
<1>13. DOMAIN tried = 1 .. len
  BY <1>7
<1>14. \A e : e \in staying <=> /\ \E i \in 1 .. len : e = tried[i]
                               /\ e.row \notin confirmed /\ e.attempts < max
  BY <1>3, <1>5, <1>13 DEF Outbox!Confirmed
<1>15. \A i \in 1 .. len :
         /\ tried[i] \in E
         /\ tried[i].row = waiting[i].row
         /\ tried[i].attempts = IF waiting[i].row \in rows THEN waiting[i].attempts + 1 ELSE waiting[i].attempts
  <2> SUFFICES ASSUME NEW i \in 1 .. len
               PROVE  /\ tried[i] \in E
                      /\ tried[i].row = waiting[i].row
                      /\ tried[i].attempts = IF waiting[i].row \in rows THEN waiting[i].attempts + 1
                                                                        ELSE waiting[i].attempts
    OBVIOUS
  <2>1. PICK e : e = waiting[i] /\ e \in [row : Nat, attempts : Nat]
    BY <1>1, <1>8
  <2>2. tried[i] = IF e.row \in rows THEN [e EXCEPT !.attempts = @ + 1] ELSE e
    BY <1>6, <1>12, <2>1 DEF Outbox!Attempted
  <2> QED
    BY <1>1, <2>1, <2>2
<1>16. tried = [i \in 1 .. len |-> tried[i]]
  BY <1>7
<1> HIDE DEF tried, staying
<1>17. tried \in Seq(E) /\ Len(tried) = len
  BY <1>15, <1>16
<1>18. kept = Kept(tried, staying)
  BY <1>11
<1>19. kept \in Seq(E) /\ \A i \in 1 .. Len(kept) : kept[i] \in staying
  BY <1>17, <1>18, KeptElements
<1>20. PICK at : Places(kept, len, at, tried, staying)
  BY <1>17, <1>18, KeptPlaces
<1>21. PICK size \in Nat : size = Len(kept)
  BY <1>19
<1>22. \A i \in 1 .. size : at[i] \in 1 .. len /\ kept[i] = tried[at[i]]
  BY <1>20, <1>21 DEF Places
<1>23. \A i \in 1 .. size : kept[i].row = waiting[at[i]].row
  BY <1>15, <1>22
<1>24. Queue(kept, n, b)
  <2>1. ASSUME NEW i \in 1 .. size
        PROVE  kept[i].row \in 1 .. n /\ kept[i].attempts < max /\ kept[i].attempts <= b[kept[i].row]
    <3>1. PICK k \in 1 .. len : k = at[i]
      BY <1>22
    <3>2. kept[i] = tried[k] /\ kept[i] \in staying
      BY <1>19, <1>21, <1>22, <3>1
    <3>3. PICK r \in 1 .. n : r = waiting[k].row
      BY <1>8
    <3>4. tried[k].row = r /\ r \notin confirmed /\ tried[k].attempts < max
      BY <1>14, <1>15, <3>2, <3>3
    <3>5. PICK count \in Nat : count = waiting[k].attempts
      BY <1>8
    <3>6. count < max /\ count <= answers[r]
      BY <1>8, <3>3, <3>5
    <3>7. CASE r \in rows
      <4>1. tried[k].attempts = count + 1
        BY <1>15, <3>3, <3>5, <3>7
      <4>2. b[r] = IF answers[r] < max THEN answers[r] + 1 ELSE max
        BY <1>10, <3>4, <3>7
      <4>3. answers[r] \in Nat
        BY <1>10
      <4>4. count + 1 <= b[r]
        BY <3>4, <3>6, <4>1, <4>2, <4>3
      <4> QED
        BY <3>2, <3>4, <4>1, <4>4
    <3>8. CASE r \notin rows
      <4>1. tried[k].attempts = count
        BY <1>15, <3>3, <3>5, <3>8
      <4>2. answers[r] \in Nat /\ b[r] \in Nat /\ answers[r] <= b[r]
        BY <1>10
      <4>3. count <= b[r]
        BY <3>6, <4>2
      <4> QED
        BY <3>2, <3>4, <4>1, <4>3
    <3> QED
      BY <3>7, <3>8
  <2>2. ASSUME NEW i \in 1 .. size, NEW j \in 1 .. size, i < j
        PROVE  kept[i].row < kept[j].row
    <3>1. at[i] < at[j]
      BY <1>20, <1>21, <2>2 DEF Places
    <3> QED
      BY <1>9, <1>22, <1>23, <3>1
  <2> QED
    BY <1>1, <1>3, <1>19, <1>21, <2>1, <2>2 DEF Queue
<1>25. Outbox!RowsOf(kept) = {kept[i].row : i \in 1 .. size}
  BY <1>21, <1>24, QueueRows
<1>26. Outbox!RowsOf(waiting) = {waiting[i].row : i \in 1 .. len}
  BY <1>2, QueueRows DEF OutboxTypes
<1>27. Outbox!RowsOf(kept) \subseteq Outbox!RowsOf(waiting)
  BY <1>22, <1>23, <1>25, <1>26
<1>28. ASSUME NEW r \in Outbox!RowsOf(waiting),
              r \notin confirmed, ~(r \in rows /\ b[r] = max)
       PROVE  r \in Outbox!RowsOf(kept)
  <2>1. PICK k \in 1 .. len : r = waiting[k].row
    BY <1>26
  <2>2. PICK count \in Nat : count = waiting[k].attempts
    BY <1>8
  <2>3. count < max /\ count <= answers[r] /\ r \in 1 .. n
    BY <1>8, <2>1, <2>2
  <2>4. tried[k].attempts < max
    <3>1. CASE r \in rows
      <4>1. tried[k].attempts = count + 1
        BY <1>15, <2>1, <2>2, <3>1
      <4>2. b[r] = IF answers[r] < max THEN answers[r] + 1 ELSE max
        BY <1>10, <1>28, <2>3, <3>1
      <4>3. answers[r] \in Nat /\ b[r] # max
        BY <1>10, <1>28, <2>3, <3>1
      <4> QED
        BY <2>3, <4>1, <4>2, <4>3
    <3>2. CASE r \notin rows
      BY <1>15, <2>1, <2>2, <2>3, <3>2
    <3> QED
      BY <3>1, <3>2
  <2>5. tried[k] \in staying
    BY <1>14, <1>15, <1>28, <2>1, <2>4
  <2>6. PICK i \in 1 .. size : at[i] = k
    BY <1>20, <1>21, <2>5 DEF Places
  <2>7. kept[i].row = r
    BY <1>23, <2>1, <2>6
  <2> QED
    BY <1>25, <2>7
<1> QED
  BY <1>3, <1>4, <1>5, <1>6, <1>24, <1>27, <1>28

LEMMA OutboxInit == Outbox!Init => OutboxInv
<1> SUFFICES ASSUME Outbox!Init
             PROVE  OutboxInv
  OBVIOUS
<1> USE DEF Outbox!Init
<1>1. /\ Queue(waiting, recorded, answers) /\ Queue(saved, recorded, answers)
      /\ Outbox!RowsOf(waiting) = {} /\ Outbox!RowsOf(saved) = {}
  <2>1. recorded \in Nat /\ waiting = <<>> /\ saved = <<>>
    OBVIOUS
  <2> QED
    BY <2>1, QueueEmpty
<1>2. answers \in [Rows -> 0 .. MAX_ATTEMPTS]
  <2>1. 0 \in 0 .. MAX_ATTEMPTS
    BY OutboxAssumption
  <2> QED
    BY <2>1
<1>3. OutboxTypes
  <2>1. 1 .. recorded \subseteq Rows
    OBVIOUS
  <2> QED
    BY <1>1, <1>2, <2>1 DEF OutboxTypes
<1>4. Cardinality({}) = 0 /\ {} \ {} = {}
  BY FS_EmptySet
<1>5. Room(0) = 0 /\ Room(0 + 1) \in Nat
  BY RoomFacts
<1>6. BacklogFits
  <2>1. 0 <= Room(0 + 1) /\ 0 <= Room(0)
    BY <1>5
  <2>2. faults = 0
    OBVIOUS
  <2> QED
    BY <1>1, <1>4, <2>1, <2>2 DEF BacklogFits
<1>7. NothingIsLost
  BY DEF NothingIsLost
<1> QED
  BY <1>3, <1>6, <1>7 DEF OutboxInv

LEMMA RoomGrows ==
    ASSUME faults \in Nat, faults' \in {faults, faults + 1}
    PROVE  /\ faults' \in Nat
           /\ Room(faults) \in Nat /\ Room(faults + 1) = Room(faults) + MAX_PENDING
           /\ Room(faults') \in Nat /\ Room(faults' + 1) = Room(faults') + MAX_PENDING
           /\ Room(faults) <= Room(faults') /\ Room(faults + 1) <= Room(faults' + 1)
           /\ faults' = faults + 1 => Room(faults') = Room(faults + 1)
<1>1. MAX_PENDING \in Nat
  BY OutboxAssumption
<1>2. faults' \in Nat /\ faults + 1 \in Nat
  OBVIOUS
<1>3. /\ Room(faults) \in Nat /\ Room(faults + 1) = Room(faults) + MAX_PENDING
      /\ Room(faults') \in Nat /\ Room(faults' + 1) = Room(faults') + MAX_PENDING
  BY <1>2, RoomFacts
<1>4. CASE faults' = faults
  BY <1>1, <1>2, <1>3, <1>4
<1>5. CASE faults' = faults + 1
  BY <1>1, <1>2, <1>3, <1>5
<1> QED
  BY <1>4, <1>5

\* Steps of the poll and of the service leave the queues as they are.
LEMMA QuietOutbox ==
    ASSUME OutboxInv,
           UNCHANGED <<up, waiting, saved, torn, recorded, answers, excused>>,
           service' \in {"takes", "ignores", "refuses"}, unsupported' \in BOOLEAN,
           store \subseteq store', store' \subseteq Rows,
           poll' \in {Outbox!Idle} \cup [sent : {TRUE}, rows : SUBSET (1 .. recorded)],
           ~up => poll' = Outbox!Idle,
           faults' \in {faults, faults + 1}
    PROVE  OutboxInv'
<1>1. /\ faults' \in Nat
      /\ Room(faults) \in Nat /\ Room(faults') \in Nat /\ Room(faults + 1) \in Nat /\ Room(faults' + 1) \in Nat
      /\ Room(faults) <= Room(faults') /\ Room(faults + 1) <= Room(faults' + 1)
  <2>1. faults \in Nat /\ MAX_PENDING \in Nat
    BY OutboxAssumption DEF OutboxInv, OutboxTypes
  <2> QED
    BY <2>1, RoomGrows
<1>2. OutboxTypes'
  BY <1>1 DEF OutboxInv, OutboxTypes
<1>3. NothingIsLost'
  BY DEF OutboxInv, NothingIsLost
<1>4. BacklogFits'
  <2>1. /\ IsFiniteSet(Outbox!RowsOf(waiting)) /\ IsFiniteSet(Outbox!RowsOf(saved))
        /\ IsFiniteSet(Outbox!RowsOf(saved) \ Outbox!RowsOf(waiting))
    <3>1. IsFiniteSet(Outbox!RowsOf(waiting)) /\ IsFiniteSet(Outbox!RowsOf(saved))
      BY QueueRows DEF OutboxInv, OutboxTypes
    <3> QED
      BY <3>1, FS_Subset
  <2>2. PICK w, s, d : /\ w = Cardinality(Outbox!RowsOf(waiting)) /\ s = Cardinality(Outbox!RowsOf(saved))
                       /\ d = Cardinality(Outbox!RowsOf(saved) \ Outbox!RowsOf(waiting))
    OBVIOUS
  <2>3. w \in Nat /\ s \in Nat /\ d \in Nat
    BY <2>1, <2>2, FS_CardinalityType
  <2>4. w <= Room(faults + 1) /\ s <= Room(faults + 1) /\ (up => d <= Room(faults))
    BY <2>2 DEF OutboxInv, BacklogFits
  <2>5. w <= Room(faults' + 1) /\ s <= Room(faults' + 1) /\ (up => d <= Room(faults'))
    BY <1>1, <2>3, <2>4
  <2>6. /\ w = Cardinality(Outbox!RowsOf(waiting')) /\ s = Cardinality(Outbox!RowsOf(saved'))
        /\ d = Cardinality(Outbox!RowsOf(saved') \ Outbox!RowsOf(waiting'))
    BY <2>2
  <2> QED
    BY <2>5, <2>6 DEF BacklogFits
<1> QED
  BY <1>2, <1>3, <1>4 DEF OutboxInv

\* What a write leaves in the file, when a row is recorded: the memory's rows, the rows it
\* had, or those and the new one.
LEMMA RecordedFits ==
    ASSUME OutboxInv, Queue(waiting', recorded + 1, answers), Queue(saved', recorded + 1, answers),
           Outbox!RowsOf(waiting') \subseteq Outbox!RowsOf(waiting) \cup {recorded + 1},
           Len(waiting') <= MAX_PENDING,
           up,
           \/ saved' = waiting' /\ faults' = faults
           \/ saved' = saved /\ faults' = faults + 1
           \/ /\ Outbox!RowsOf(waiting) \cup {recorded + 1} = Outbox!RowsOf(waiting')
              /\ Outbox!RowsOf(saved') \subseteq Outbox!RowsOf(saved) \cup {recorded + 1}
              /\ faults' = faults
    PROVE  BacklogFits' /\ faults' \in Nat
<1> DEFINE W == Outbox!RowsOf(waiting)
           S == Outbox!RowsOf(saved)
           W1 == Outbox!RowsOf(waiting')
           S1 == Outbox!RowsOf(saved')
<1>1. PICK n \in Nat : n = recorded
  BY DEF OutboxInv, OutboxTypes
<1>2. n + 1 \in Nat /\ Queue(waiting', n + 1, answers) /\ Queue(saved', n + 1, answers)
  BY <1>1
<1>3. /\ IsFiniteSet(W) /\ IsFiniteSet(S) /\ IsFiniteSet(W1) /\ IsFiniteSet(S1)
      /\ Cardinality(W1) = Len(waiting')
  BY <1>1, <1>2, QueueRows DEF OutboxInv, OutboxTypes
<1>4. Cardinality(S) <= Room(faults + 1) /\ Cardinality(S \ W) <= Room(faults) /\ faults \in Nat
  BY DEF OutboxInv, OutboxTypes, BacklogFits
<1>5. faults' \in {faults, faults + 1} /\ faults' \in Nat
  BY <1>4
<1>6. PICK max \in Nat : max = MAX_PENDING
  BY OutboxAssumption
<1>7. PICK r, r1, R, R1 \in Nat : /\ r = Room(faults) /\ r1 = Room(faults + 1)
                                  /\ R = Room(faults') /\ R1 = Room(faults' + 1)
  BY <1>4, <1>5, RoomGrows, OutboxAssumption
<1>8. r1 = r + max /\ R1 = R + max /\ r <= R /\ (faults' = faults + 1 => R = r1)
  BY <1>4, <1>5, <1>6, <1>7, RoomGrows
<1>9. IsFiniteSet(S \ W) /\ IsFiniteSet(S1 \ W1)
  BY <1>3, FS_Subset
<1>10. PICK w1, s, s1, d, d1 \in Nat : /\ w1 = Cardinality(W1) /\ s = Cardinality(S) /\ s1 = Cardinality(S1)
                                       /\ d = Cardinality(S \ W) /\ d1 = Cardinality(S1 \ W1)
  BY <1>3, <1>9, FS_CardinalityType
<1>11. w1 <= max /\ s <= r1 /\ d <= r
  BY <1>3, <1>4, <1>6, <1>7, <1>10
<1> HIDE DEF W, S, W1, S1
<1>12. s1 <= R1 /\ d1 <= R
  <2>1. CASE saved' = waiting' /\ faults' = faults
    <3>1. s1 = w1
      BY <1>10, <2>1 DEF S1, W1
    <3>2. S1 \ W1 = {}
      BY <2>1 DEF S1, W1
    <3>3. d1 = 0
      BY <1>10, <3>2, FS_EmptySet
    <3> QED
      BY <1>8, <1>11, <3>1, <3>3
  <2>2. CASE saved' = saved /\ faults' = faults + 1
    <3>1. s1 = s
      BY <1>10, <2>2 DEF S1, S
    <3>2. S1 \ W1 \subseteq S
      BY <2>2 DEF S1, S
    <3>3. d1 <= s
      BY <1>3, <1>10, <3>2, FS_Subset
    <3> QED
      BY <1>8, <1>11, <2>2, <3>1, <3>3
  <2>3. CASE /\ Outbox!RowsOf(waiting) \cup {recorded + 1} = Outbox!RowsOf(waiting')
             /\ Outbox!RowsOf(saved') \subseteq Outbox!RowsOf(saved) \cup {recorded + 1}
             /\ faults' = faults
    <3>1. S1 \ W1 \subseteq S \ W
      BY <2>3 DEF S1, W1, S, W
    <3>2. d1 <= d
      BY <1>9, <1>10, <3>1, FS_Subset
    <3>3. S1 \subseteq (S \ W) \cup W1
      BY <2>3 DEF S1, W1, S, W
    <3>4. /\ IsFiniteSet((S \ W) \cup W1)
          /\ Cardinality((S \ W) \cup W1) = d + w1 - Cardinality((S \ W) \cap W1)
      BY <1>3, <1>9, <1>10, FS_Union
    <3>5. IsFiniteSet((S \ W) \cap W1)
      BY <1>3, FS_Subset
    <3>6. Cardinality((S \ W) \cap W1) \in Nat
      BY <3>5, FS_CardinalityType
    <3>7. s1 <= Cardinality((S \ W) \cup W1)
      BY <1>10, <3>3, <3>4, FS_Subset
    <3>8. s1 <= d + w1
      BY <3>4, <3>6, <3>7
    <3> QED
      BY <1>8, <1>11, <3>2, <3>8
  <2> QED
    BY <2>1, <2>2, <2>3
<1>13. w1 <= R1
  BY <1>8, <1>11
<1>14. /\ Cardinality(Outbox!RowsOf(waiting')) <= Room(faults' + 1)
       /\ Cardinality(Outbox!RowsOf(saved')) <= Room(faults' + 1)
       /\ Cardinality(Outbox!RowsOf(saved') \ Outbox!RowsOf(waiting')) <= Room(faults')
  BY <1>7, <1>10, <1>12, <1>13 DEF S1, W1
<1> QED
  BY <1>5, <1>14 DEF BacklogFits

LEMMA RecordPreserves ==
    ASSUME OutboxInv, Outbox!RecordOverflow \/ Outbox!RecordAppended
    PROVE  OutboxInv'
<1>1. PICK n \in Nat : n = recorded
  BY DEF OutboxInv, OutboxTypes
<1>2. PICK e : e = [row |-> n + 1, attempts |-> 0]
  OBVIOUS
<1>3. Outbox!Row = n + 1 /\ Outbox!Entry = e
  BY <1>1, <1>2 DEF Outbox!Row, Outbox!Entry
<1>4. /\ up /\ n + 1 \in Rows /\ recorded' = n + 1
      /\ waiting' = Outbox!WithinBacklog(Append(waiting, e))
      /\ UNCHANGED <<service, store, up, poll, unsupported, answers, kills>>
  BY <1>3 DEF Outbox!RecordOverflow, Outbox!RecordAppended, Outbox!Record
<1>5. Queue(waiting, n, answers) /\ Queue(saved, n, answers) /\ answers \in [Rows -> 0 .. MAX_ATTEMPTS]
  BY <1>1 DEF OutboxInv, OutboxTypes
<1>6. answers[n + 1] \in Nat /\ \A r \in 1 .. n : answers[r] \in Nat
  BY <1>1, <1>4 DEF OutboxInv, OutboxTypes
<1>7. /\ \A q : Queue(q, n, answers) => /\ Queue(Append(q, e), n + 1, answers)
                                        /\ Outbox!RowsOf(Append(q, e)) = Outbox!RowsOf(q) \cup {n + 1}
                                        /\ Len(Append(q, e)) = Len(q) + 1
                                        /\ Queue(q, n + 1, answers)
  BY <1>2, <1>6, QueueAppended, QueueGrows
<1>8. /\ Queue(waiting', n + 1, answers) /\ Len(waiting') <= MAX_PENDING
      /\ Outbox!RowsOf(waiting') \subseteq Outbox!RowsOf(waiting) \cup {n + 1}
      /\ Len(waiting) + 1 <= MAX_PENDING => Outbox!RowsOf(waiting') = Outbox!RowsOf(waiting) \cup {n + 1}
  <2>1. PICK p : p = Append(waiting, e)
    OBVIOUS
  <2>2. /\ Queue(p, n + 1, answers) /\ Len(p) = Len(waiting) + 1
        /\ Outbox!RowsOf(p) = Outbox!RowsOf(waiting) \cup {n + 1}
    BY <1>5, <1>7, <2>1
  <2>3. waiting' = Outbox!WithinBacklog(p)
    BY <1>4, <2>1
  <2>4. n + 1 \in Nat
    OBVIOUS
  <2> QED
    BY <2>2, <2>3, <2>4, QueueLatest
<1>9. Len(waiting) \in Nat /\ MAX_PENDING \in Nat
  BY <1>5, QueueEntries, OutboxAssumption
<1>10. \/ /\ saved' = waiting' /\ faults' = faults /\ torn' = FALSE
       \/ /\ saved' = saved /\ faults' = faults + 1 /\ torn' = torn
       \/ /\ Outbox!RowsOf(waiting) \cup {n + 1} = Outbox!RowsOf(waiting')
          /\ saved' \in {saved, Append(saved, e)} /\ faults' = faults /\ torn' = FALSE
  <2>1. CASE Outbox!RecordOverflow
    BY <2>1 DEF Outbox!RecordOverflow, Outbox!Well, Outbox!Fault
  <2>2. CASE Outbox!RecordAppended
    <3>1. Outbox!RowsOf(waiting) \cup {n + 1} = Outbox!RowsOf(waiting')
      BY <1>8, <1>9, <2>2 DEF Outbox!RecordAppended
    <3> QED
      BY <1>3, <2>2, <3>1 DEF Outbox!RecordAppended, Outbox!Written, Outbox!Well, Outbox!Fault
  <2> QED
    BY <2>1, <2>2
<1>11. /\ Queue(saved', n + 1, answers)
       /\ \/ saved' = waiting'
          \/ Outbox!RowsOf(saved) \subseteq Outbox!RowsOf(saved')
             /\ Outbox!RowsOf(saved') \subseteq Outbox!RowsOf(saved) \cup {n + 1}
  BY <1>5, <1>7, <1>8, <1>10
<1>12. BacklogFits' /\ faults' \in Nat
  <2>1. \/ saved' = waiting' /\ faults' = faults
        \/ saved' = saved /\ faults' = faults + 1
        \/ /\ Outbox!RowsOf(waiting) \cup {n + 1} = Outbox!RowsOf(waiting')
           /\ Outbox!RowsOf(saved') \subseteq Outbox!RowsOf(saved) \cup {n + 1}
           /\ faults' = faults
    BY <1>5, <1>7, <1>10
  <2> QED
    BY <1>1, <1>4, <1>8, <1>11, <2>1, RecordedFits
<1>13. OutboxTypes'
  <2>1. 1 .. n + 1 \subseteq Rows
    <3>1. 1 .. n \subseteq Rows
      BY <1>1 DEF OutboxInv, OutboxTypes
    <3> QED
      BY <1>4, <3>1
  <2>2. torn' \in BOOLEAN
    BY <1>10 DEF OutboxInv, OutboxTypes
  <2>3. poll' \in {Outbox!Idle} \cup [sent : {TRUE}, rows : SUBSET (1 .. n + 1)]
    <3>1. poll \in {Outbox!Idle} \cup [sent : {TRUE}, rows : SUBSET (1 .. n)]
      BY <1>1 DEF OutboxInv, OutboxTypes
    <3>2. 1 .. n \subseteq 1 .. n + 1
      OBVIOUS
    <3>3. poll \in {Outbox!Idle} \cup [sent : {TRUE}, rows : SUBSET (1 .. n + 1)]
      BY <3>1, <3>2
    <3> QED
      BY <1>4, <3>3
  <2>4. Queue(waiting', recorded', answers') /\ Queue(saved', recorded', answers')
    BY <1>4, <1>8, <1>11
  <2>5. recorded' \in Nat /\ 1 .. recorded' \subseteq Rows
    BY <1>4, <2>1
  <2>6. poll' \in {Outbox!Idle} \cup [sent : {TRUE}, rows : SUBSET (1 .. recorded')]
    BY <1>4, <2>3
  <2> QED
    BY <1>4, <1>12, <2>2, <2>4, <2>5, <2>6 DEF OutboxInv, OutboxTypes
<1>14. excused \subseteq excused' /\ {n + 1} \ Outbox!RowsOf(saved') \subseteq excused'
  BY <1>3 DEF Outbox!RecordOverflow, Outbox!RecordAppended
<1>15. /\ Outbox!RowsOf(waiting) \ Outbox!RowsOf(waiting') \subseteq excused'
       /\ n + 1 \in Outbox!RowsOf(waiting') \cup excused'
  <2>1. CASE Outbox!RecordOverflow
    <3>1. Outbox!RowsOf(waiting) \ Outbox!RowsOf(waiting') \subseteq excused'
      BY <2>1 DEF Outbox!RecordOverflow
    <3>2. CASE saved' = waiting'
      BY <1>14, <3>1, <3>2
    <3>3. CASE saved' = saved
      <4>1. n + 1 \notin Outbox!RowsOf(saved)
        BY <1>5, QueueRows
      <4> QED
        BY <1>14, <3>1, <3>3, <4>1
    <3> QED
      BY <2>1, <3>2, <3>3 DEF Outbox!RecordOverflow
  <2>2. CASE Outbox!RecordAppended
    BY <1>8, <1>9, <2>2 DEF Outbox!RecordAppended
  <2> QED
    BY <2>1, <2>2
<1>16. NothingIsLost'
  <2>1. ASSUME NEW r \in 1 .. n + 1
        PROVE  /\ r \in store \cup excused' \cup Outbox!RowsOf(saved')
               /\ r \in store \cup excused' \cup Outbox!RowsOf(waiting')
    <3>1. CASE r = n + 1
      BY <1>14, <1>15, <3>1
    <3>2. CASE r \in 1 .. n
      <4>1. /\ r \in store \cup excused \cup Outbox!RowsOf(saved)
            /\ r \in store \cup excused \cup Outbox!RowsOf(waiting)
        BY <1>1, <1>4, <3>2 DEF OutboxInv, NothingIsLost
      <4>2. r \in store \cup excused' \cup Outbox!RowsOf(waiting')
        BY <1>14, <1>15, <4>1
      <4> QED
        BY <1>11, <1>14, <4>1, <4>2
    <3> QED
      BY <3>1, <3>2
  <2> QED
    BY <1>4, <2>1 DEF NothingIsLost
<1> QED
  BY <1>12, <1>13, <1>16 DEF OutboxInv

LEMMA AnsweredPreserves ==
    ASSUME OutboxInv, poll.sent,
           NEW accepted \in SUBSET poll.rows, NEW rejected \in SUBSET poll.rows,
           Outbox!Answered(accepted, rejected)
    PROVE  OutboxInv'
<1>1. PICK n \in Nat : n = recorded
  BY DEF OutboxInv, OutboxTypes
<1>2. PICK left : left = poll.rows \ (accepted \cup rejected)
  OBVIOUS
<1>3. /\ up /\ store' = store \cup accepted /\ waiting' = Outbox!Settled(accepted, rejected)
      /\ answers' = Counted(left)
      /\ excused' = excused \cup rejected \cup {r \in poll.rows : answers'[r] = MAX_ATTEMPTS}
      /\ poll' = Outbox!Idle
      /\ UNCHANGED <<service, up, unsupported, recorded, kills>>
  BY <1>2 DEF Outbox!Answered, Counted
<1>4. \/ saved' = waiting' /\ torn' = FALSE /\ faults' = faults
      \/ saved' = saved /\ torn' = torn /\ faults' = faults + 1
  BY DEF Outbox!Answered, Outbox!Well, Outbox!Fault
<1>5. OutboxTypes /\ poll.rows \subseteq 1 .. n /\ 1 .. n \subseteq Rows
  <2>1. poll # Outbox!Idle
    BY DEF Outbox!Idle
  <2> QED
    BY <1>1, <2>1 DEF OutboxInv, OutboxTypes
<1>6. /\ Queue(waiting', n, answers')
      /\ Outbox!RowsOf(waiting') \subseteq Outbox!RowsOf(waiting)
      /\ \A r \in Outbox!RowsOf(waiting) :
           \/ r \in Outbox!RowsOf(waiting') \/ r \in accepted \cup rejected
           \/ r \in poll.rows /\ answers'[r] = MAX_ATTEMPTS
  <2>1. PICK b : b = Counted(poll.rows \ (accepted \cup rejected))
    OBVIOUS
  <2>2. PICK kept : kept = Outbox!Settled(accepted, rejected)
    OBVIOUS
  <2>3. /\ Queue(kept, recorded, b)
        /\ Outbox!RowsOf(kept) \subseteq Outbox!RowsOf(waiting)
        /\ \A r \in Outbox!RowsOf(waiting) :
             \/ r \in Outbox!RowsOf(kept) \/ r \in accepted \cup rejected
             \/ r \in poll.rows /\ b[r] = MAX_ATTEMPTS
    BY <1>5, <2>1, <2>2, QueueSettled
  <2>4. b = answers' /\ kept = waiting'
    BY <1>2, <1>3, <2>1, <2>2
  <2> QED
    BY <1>1, <2>3, <2>4
<1>7. /\ answers' \in [Rows -> 0 .. MAX_ATTEMPTS]
      /\ \A r \in 1 .. n : answers[r] \in Nat /\ answers'[r] \in Nat /\ answers[r] <= answers'[r]
  BY <1>3, <1>5, CountedGrows
<1>8. Queue(saved, n, answers) /\ Queue(waiting, n, answers)
  BY <1>1, <1>5 DEF OutboxTypes
<1>9. Queue(saved', n, answers')
  <2>1. Queue(saved, n, answers')
    BY <1>7, <1>8, QueueGrows
  <2> QED
    BY <1>4, <1>6, <2>1
<1>10. faults' \in {faults, faults + 1} /\ faults \in Nat /\ faults' \in Nat
  BY <1>4, <1>5 DEF OutboxTypes
<1>11. OutboxTypes'
  <2>1. torn' \in BOOLEAN
    BY <1>4, <1>5 DEF OutboxTypes
  <2>2. store' \subseteq Rows
    BY <1>3, <1>5 DEF OutboxTypes
  <2>3. Queue(waiting', recorded', answers') /\ Queue(saved', recorded', answers')
    BY <1>1, <1>3, <1>6, <1>9
  <2> QED
    BY <1>3, <1>5, <1>7, <1>10, <2>1, <2>2, <2>3 DEF OutboxTypes
<1>12. NothingIsLost'
  <2>1. /\ excused \cup rejected \subseteq excused' /\ store \cup accepted \subseteq store'
        /\ \A r \in poll.rows : answers'[r] = MAX_ATTEMPTS => r \in excused'
    BY <1>3
  <2>2. \A r \in 1 .. n : /\ r \in store \cup excused \cup Outbox!RowsOf(saved)
                          /\ r \in store \cup excused \cup Outbox!RowsOf(waiting)
    BY <1>1, <1>3 DEF OutboxInv, NothingIsLost
  <2>3. \A r \in 1 .. n : r \in store' \cup excused' \cup Outbox!RowsOf(waiting')
    BY <1>6, <2>1, <2>2
  <2>4. \A r \in 1 .. n : r \in store' \cup excused' \cup Outbox!RowsOf(saved')
    BY <1>4, <2>1, <2>2, <2>3
  <2> QED
    BY <1>1, <1>3, <2>3, <2>4 DEF NothingIsLost
<1>13. BacklogFits'
  <2> DEFINE W == Outbox!RowsOf(waiting)
             S == Outbox!RowsOf(saved)
             W1 == Outbox!RowsOf(waiting')
             S1 == Outbox!RowsOf(saved')
  <2>1. IsFiniteSet(W) /\ IsFiniteSet(S) /\ IsFiniteSet(W1) /\ IsFiniteSet(S1) /\ W1 \subseteq W
    BY <1>6, <1>8, <1>9, QueueRows
  <2>2. Cardinality(W) <= Room(faults + 1) /\ Cardinality(S) <= Room(faults + 1)
    BY DEF OutboxInv, BacklogFits
  <2>3. PICK r, r1, R, R1 \in Nat : /\ r = Room(faults) /\ r1 = Room(faults + 1)
                                    /\ R = Room(faults') /\ R1 = Room(faults' + 1)
    BY <1>10, RoomGrows, OutboxAssumption
  <2>4. r1 <= R1 /\ (faults' = faults + 1 => R = r1)
    BY <1>10, <2>3, RoomGrows
  <2>5. IsFiniteSet(S1 \ W1)
    BY <2>1, FS_Subset
  <2>6. PICK w, s, w1, s1, d1 \in Nat : /\ w = Cardinality(W) /\ s = Cardinality(S)
                                        /\ w1 = Cardinality(W1) /\ s1 = Cardinality(S1)
                                        /\ d1 = Cardinality(S1 \ W1)
    BY <2>1, <2>5, FS_CardinalityType
  <2>7. w <= r1 /\ s <= r1
    BY <2>2, <2>3, <2>6
  <2> HIDE DEF W, S, W1, S1
  <2>8. w1 <= w
    BY <2>1, <2>6, FS_Subset
  <2>9. s1 <= R1 /\ d1 <= R
    <3>1. CASE saved' = waiting' /\ faults' = faults
      <4>1. s1 = w1 /\ S1 \ W1 = {}
        BY <2>6, <3>1 DEF S1, W1
      <4>2. d1 = 0
        BY <2>6, <4>1, FS_EmptySet
      <4> QED
        BY <2>4, <2>7, <2>8, <4>1, <4>2
    <3>2. CASE saved' = saved /\ faults' = faults + 1
      <4>1. s1 = s /\ S1 \ W1 \subseteq S
        BY <2>6, <3>2 DEF S1, S
      <4>2. d1 <= s
        BY <2>1, <2>6, <4>1, FS_Subset
      <4> QED
        BY <2>4, <2>7, <3>2, <4>1, <4>2
    <3> QED
      BY <1>4, <3>1, <3>2
  <2>10. w1 <= R1
    BY <2>4, <2>7, <2>8
  <2>11. /\ Cardinality(Outbox!RowsOf(waiting')) <= Room(faults' + 1)
         /\ Cardinality(Outbox!RowsOf(saved')) <= Room(faults' + 1)
         /\ Cardinality(Outbox!RowsOf(saved') \ Outbox!RowsOf(waiting')) <= Room(faults')
    BY <2>3, <2>6, <2>9, <2>10 DEF S1, W1
  <2> QED
    BY <2>11 DEF BacklogFits
<1> QED
  BY <1>11, <1>12, <1>13 DEF OutboxInv

\* A kill and a start: the memory is gone, and is read back from the file.
LEMMA RestartPreserves ==
    ASSUME OutboxInv, Outbox!Die \/ Outbox!Start
    PROVE  OutboxInv'
<1>1. PICK n \in Nat : n = recorded
  BY DEF OutboxInv, OutboxTypes
<1>2. /\ Queue(waiting, n, answers) /\ Queue(saved, n, answers) /\ faults \in Nat
      /\ \A r \in 1 .. n : r \in store \cup excused \cup Outbox!RowsOf(saved)
      /\ Cardinality(Outbox!RowsOf(saved)) <= Room(faults + 1)
      /\ Room(faults) \in Nat /\ Room(faults + 1) \in Nat
  BY <1>1, RoomFacts DEF OutboxInv, OutboxTypes, NothingIsLost, BacklogFits
<1>3. CASE Outbox!Die
  <2>1. /\ up' = FALSE /\ poll' = Outbox!Idle /\ waiting' = <<>> /\ unsupported' = FALSE
        /\ UNCHANGED <<service, store, saved, answers, faults>>
        /\ \/ UNCHANGED <<torn, recorded, excused>>
           \/ n + 1 \in Rows /\ torn' = TRUE /\ recorded' = n + 1 /\ excused' = excused \cup {n + 1}
    BY <1>1, <1>3 DEF Outbox!Die, Outbox!Row
  <2>2. PICK m \in {n, n + 1} : m = recorded'
    BY <1>1, <2>1
  <2>3. Queue(waiting', m, answers) /\ Outbox!RowsOf(waiting') = {}
    BY <2>1, QueueEmpty
  <2>4. Queue(saved, m, answers) /\ 1 .. m \subseteq Rows
    <3>1. 1 .. n \subseteq Rows /\ \A r \in 1 .. n : answers[r] \in Nat
      BY <1>1 DEF OutboxInv, OutboxTypes
    <3>2. Queue(saved, m, answers)
      BY <1>2, <3>1, QueueGrows
    <3> QED
      BY <1>1, <2>1, <2>2, <3>1, <3>2
  <2>5. OutboxTypes'
    <3>1. Queue(waiting', recorded', answers') /\ Queue(saved', recorded', answers')
      BY <2>1, <2>2, <2>3, <2>4
    <3>2. recorded' \in Nat /\ 1 .. recorded' \subseteq Rows /\ torn' \in BOOLEAN
      <4>1. torn \in BOOLEAN
        BY DEF OutboxInv, OutboxTypes
      <4>2. torn' \in BOOLEAN
        BY <2>1, <4>1
      <4> QED
        BY <1>1, <2>2, <2>4, <4>2
    <3> QED
      BY <2>1, <3>1, <3>2 DEF OutboxInv, OutboxTypes
  <2>6. NothingIsLost'
    <3>1. \A r \in 1 .. m : r \in store \cup excused' \cup Outbox!RowsOf(saved)
      BY <1>1, <1>2, <2>1, <2>2
    <3> QED
      BY <2>1, <2>2, <3>1 DEF NothingIsLost
  <2>7. BacklogFits'
    <3>1. Cardinality(Outbox!RowsOf(waiting')) = 0
      BY <2>3, FS_EmptySet
    <3>2. Cardinality(Outbox!RowsOf(waiting')) <= Room(faults + 1)
      BY <1>2, <3>1
    <3> QED
      BY <1>2, <2>1, <3>2 DEF BacklogFits
  <2> QED
    BY <2>5, <2>6, <2>7 DEF OutboxInv
<1>4. CASE Outbox!Start
  <2>1. /\ up' = TRUE /\ waiting' = saved
        /\ UNCHANGED <<service, store, saved, torn, poll, unsupported, recorded, answers, excused, faults, kills>>
    BY <1>4 DEF Outbox!Start
  <2>2. OutboxTypes'
    BY <2>1 DEF OutboxInv, OutboxTypes
  <2>3. NothingIsLost'
    BY <1>1, <1>2, <2>1 DEF NothingIsLost
  <2>4. BacklogFits'
    <3>1. Cardinality(Outbox!RowsOf(saved) \ Outbox!RowsOf(saved)) = 0
      <4>1. Outbox!RowsOf(saved) \ Outbox!RowsOf(saved) = {}
        OBVIOUS
      <4> QED
        BY <4>1, FS_EmptySet
    <3>2. Cardinality(Outbox!RowsOf(saved) \ Outbox!RowsOf(saved)) <= Room(faults)
      BY <1>2, <3>1
    <3> QED
      BY <1>2, <2>1, <3>2 DEF BacklogFits
  <2> QED
    BY <2>2, <2>3, <2>4 DEF OutboxInv
<1> QED
  BY <1>3, <1>4

LEMMA OutboxNext == OutboxInv /\ [Outbox!Next]_uploading => OutboxInv'
<1> SUFFICES ASSUME OutboxInv, [Outbox!Next]_uploading
             PROVE  OutboxInv'
  OBVIOUS
<1>1. /\ OutboxTypes /\ faults \in Nat /\ store \subseteq Rows
      /\ service \in {"takes", "ignores", "refuses"} /\ unsupported \in BOOLEAN
      /\ poll \in {Outbox!Idle} \cup [sent : {TRUE}, rows : SUBSET (1 .. recorded)]
      /\ ~up => poll = Outbox!Idle
      /\ 1 .. recorded \subseteq Rows
  BY DEF OutboxInv, OutboxTypes
<1>2. CASE UNCHANGED uploading
  BY <1>1, <1>2, QuietOutbox DEF uploading
<1>3. CASE Outbox!RecordOverflow \/ Outbox!RecordAppended
  BY <1>3, RecordPreserves
<1>4. CASE Outbox!SendPoll
  <2>1. /\ up
        /\ poll' = [sent |-> TRUE, rows |-> Outbox!RowsOf(Outbox!Batch)]
        /\ UNCHANGED <<service, store, up, waiting, saved, torn, unsupported, recorded, answers, excused, faults, kills>>
    BY <1>4 DEF Outbox!SendPoll
  <2>2. Outbox!RowsOf(Outbox!Batch) \subseteq 1 .. recorded
    <3>1. PICK E : E = [row : Nat, attempts : Nat]
      OBVIOUS
    <3>2. waiting \in Seq(E) /\ Queue(waiting, recorded, answers)
      BY <1>1, <3>1 DEF OutboxTypes, Queue
    <3>3. PICK m \in Nat : m = IF Len(waiting) < MAX_BATCH THEN Len(waiting) ELSE MAX_BATCH
      BY <3>2, OutboxAssumption
    <3>4. m <= Len(waiting)
      BY <3>2, <3>3, OutboxAssumption
    <3>5. PICK b : b = SubSeq(waiting, 1, m)
      OBVIOUS
    <3>6. DOMAIN b = 1 .. m /\ \A i \in 1 .. m : b[i] = waiting[i] /\ i \in 1 .. Len(waiting)
      BY <3>2, <3>4, <3>5
    <3>7. Outbox!Batch = b
      BY <3>3, <3>5 DEF Outbox!Batch
    <3>8. \A i \in 1 .. m : b[i].row \in 1 .. recorded
      BY <3>2, <3>6 DEF Queue
    <3> QED
      BY <3>6, <3>7, <3>8 DEF Outbox!RowsOf
  <2>3. poll' \in [sent : {TRUE}, rows : SUBSET (1 .. recorded)]
    BY <2>1, <2>2
  <2> QED
    BY <1>1, <2>1, <2>3, QuietOutbox
<1>5. CASE Outbox!Refused
  BY <1>1, <1>5, QuietOutbox DEF Outbox!Refused
<1>6. CASE poll.sent /\ Outbox!Answer
  BY <1>6, AnsweredPreserves DEF Outbox!Answer
<1>7. CASE Outbox!AnsweredWithout
  BY <1>1, <1>7, QuietOutbox DEF Outbox!AnsweredWithout
<1>8. CASE Outbox!Lost
  <2>1. poll.rows \subseteq 1 .. recorded
    <3>1. poll # Outbox!Idle
      BY <1>8 DEF Outbox!Lost, Outbox!Idle
    <3> QED
      BY <1>1, <3>1
  <2>2. store \subseteq store' /\ store' \subseteq Rows
    BY <1>1, <1>8, <2>1 DEF Outbox!Lost
  <2>3. faults' = faults + 1 /\ poll' = Outbox!Idle
    BY <1>8 DEF Outbox!Lost, Outbox!Fault
  <2>4. UNCHANGED <<service, up, waiting, saved, torn, unsupported, recorded, answers, excused, kills>>
    BY <1>8 DEF Outbox!Lost
  <2> QED
    BY <1>1, <2>2, <2>3, <2>4, QuietOutbox
<1>9. CASE Outbox!Die \/ Outbox!Start
  BY <1>9, RestartPreserves
<1>10. CASE Outbox!Deploy
  BY <1>1, <1>10, QuietOutbox DEF Outbox!Deploy
<1> QED
  BY <1>2, <1>3, <1>4, <1>5, <1>6, <1>7, <1>8, <1>9, <1>10 DEF Outbox!Next

LEMMA OutboxSafe ==
    OutboxInv => Outbox!TypeOK /\ Outbox!RowsAreAccounted /\ Outbox!RowsWaitInOrder
<1> SUFFICES ASSUME OutboxInv
             PROVE  Outbox!TypeOK /\ Outbox!RowsAreAccounted /\ Outbox!RowsWaitInOrder
  OBVIOUS
<1>1. /\ recorded \in Nat /\ Queue(waiting, recorded, answers) /\ Queue(saved, recorded, answers)
      /\ faults \in Nat
  BY DEF OutboxInv, OutboxTypes
<1>2. ASSUME NEW q \in {waiting, saved}
      PROVE  /\ \A i \in DOMAIN q : q[i].row \in 1 .. recorded /\ q[i].attempts \in 0 .. MAX_ATTEMPTS - 1
             /\ \A i, j \in DOMAIN q : i < j => q[i].row < q[j].row
  <2>1. Queue(q, recorded, answers)
    BY <1>1
  <2>2. DOMAIN q = 1 .. Len(q) /\ \A i \in 1 .. Len(q) : q[i].attempts \in Nat
    BY <1>1, <2>1, QueueEntries
  <2>3. MAX_ATTEMPTS \in Nat
    BY OutboxAssumption
  <2> QED
    BY <2>1, <2>2, <2>3 DEF Queue
<1>3. Len(waiting) <= MAX_PENDING * (1 + faults)
  <2>1. Len(waiting) <= Room(faults + 1)
    BY <1>1, QueueRows DEF OutboxInv, BacklogFits
  <2>2. faults + 1 = 1 + faults
    BY <1>1
  <2> QED
    BY <2>1, <2>2 DEF Room
<1>4. poll = Outbox!Idle \/ poll.rows \subseteq 1 .. recorded
  BY DEF OutboxInv, OutboxTypes
<1>5. Outbox!TypeOK
  <2>1. \A b \in {up, torn, unsupported} : b \in BOOLEAN
    BY DEF OutboxInv, OutboxTypes
  <2> QED
    BY <1>2, <1>3, <1>4, <2>1 DEF Outbox!TypeOK, OutboxInv, OutboxTypes
<1>6. Outbox!RowsWaitInOrder
  BY <1>2 DEF Outbox!RowsWaitInOrder
<1>7. Outbox!RowsAreAccounted
  BY DEF Outbox!RowsAreAccounted, OutboxInv, NothingIsLost
<1> QED
  BY <1>5, <1>6, <1>7

-----------------------------------------------------------------------------
(* The gate (DmGate).                                                       *)

\* The owner agreed to the call, or it is one that needs no agreement.
IsAgreed(c) == c.tool = "ToolSearch" \/ Gate!AutoAllowed(c) \/ Gate!About(c) \in agreed

GateTypes ==
    /\ <<policy, wanted>> \in Scenes
    /\ turn \in 0 .. MaxTurns /\ running \in BOOLEAN /\ (running => turn > 0)
    /\ calls \in 0 .. MaxCalls
    /\ escalations \in 0 .. MAX_ESCALATIONS_PER_TURN
    /\ slot \in [Slots -> {Gate!Free} \cup
                          [open : {TRUE}, call : wanted, turn : 1 .. turn, cancelled : BOOLEAN]]
    /\ file \in [Slots -> {"none", "open", "torn", "allow", "deny"}]
    /\ cli \in [Slots -> Gate!Decisions]
    /\ memo \in [Gate!Calls -> Gate!Decisions]
    /\ grants \in [Gate!Keys -> Gate!Decisions] /\ stored \in [Gate!Keys -> Gate!Decisions]

\* Whatever answers a call without asking was agreed to: the memo about this call, the
\* grants, in memory and in the state file, about whatever they are about.
KeptIsAgreed ==
    /\ \A c \in Gate!Calls : memo[c] = "allow" => ~Gate!OffLimits(c) /\ IsAgreed(c)
    /\ \A k \in Gate!Keys : grants[k] = "allow" \/ stored[k] = "allow" =>
          [tool |-> "any", place |-> "any", about |-> k] \in agreed
    /\ Gate!Claude /\ policy.guest => \A k \in Gate!Keys : grants[k] = "none" /\ stored[k] = "none"

\* A yes that is in a question's file, or on its way there, is about that question.
QuestionsAreFair ==
    \A s \in Slots : Gate!Asked(s) =>
        /\ ~Gate!OffLimits(slot[s].call)
        /\ file[s] = "allow" \/ cli[s] = "allow" => Gate!About(slot[s].call) \in agreed

DecisionIsTheOwners ==
    decided.allow => ~Gate!OffLimits(decided.call) /\ IsAgreed(decided.call) /\ ~decided.cancelled

\* The questions that wait, and those of them that this turn asked.
Open == {s \in Slots : Gate!Asked(s)}
Own == {s \in Slots : Gate!Asked(s) /\ slot[s].turn = turn}

\* The clock counts its turn's questions, as long as no question of an earlier turn
\* was closed in this one.
ClockCounts ==
    /\ armed \in BOOLEAN /\ (armed => running)
    /\ open \in Nat /\ open <= Cardinality(Open)
    /\ ~Gate!Claude \/ ~running => open = 0
    /\ armed => open = 0
    /\ Gate!Claude /\ running /\ ~strayed => open = Cardinality(Own)

GateInv == GateTypes /\ KeptIsAgreed /\ QuestionsAreFair /\ DecisionIsTheOwners /\ ClockCounts

LEMMA SceneFacts ==
    /\ \A scene \in Scenes : scene[2] \subseteq Gate!Calls
    /\ \A c \in Gate!Calls : /\ c = [tool |-> c.tool, place |-> c.place, about |-> c.about]
                             /\ c.tool = "ToolSearch" => c.place = "none"
                             /\ c.about \in Gate!Keys
<1>1. \A scene \in Scenes : \A c \in scene[2] :
         /\ c = [tool |-> c.tool, place |-> c.place, about |-> c.about]
         /\ c.tool = "ToolSearch" => c.place = "none"
  BY DEF Scenes, C
<1>2. \A c \in Gate!Calls : \E scene \in Scenes : c \in scene[2]
  BY DEF Gate!Calls
<1>3. \A scene \in Scenes : scene[2] \subseteq Gate!Calls
  BY DEF Gate!Calls
<1> QED
  BY <1>1, <1>2, <1>3 DEF Gate!Keys

\* What the policy says does not change in a behaviour.
LEMMA SamePolicy ==
    ASSUME UNCHANGED policy
    PROVE  /\ Gate!Claude' <=> Gate!Claude
           /\ \A c : /\ Gate!OffLimits(c)' <=> Gate!OffLimits(c)
                     /\ Gate!AutoAllowed(c)' <=> Gate!AutoAllowed(c)
                     /\ Gate!About(c)' = Gate!About(c)
           /\ agreed \subseteq agreed' => \A c : IsAgreed(c) => IsAgreed(c)'
<1>1. Gate!Claude' <=> Gate!Claude
  BY DEF Gate!Claude
<1>2. \A c : Gate!Enabled(c)' <=> Gate!Enabled(c)
  BY DEF Gate!Enabled
<1>3. \A c : Gate!OffLimits(c)' <=> Gate!OffLimits(c)
  BY <1>2 DEF Gate!OffLimits
<1>4. \A c : Gate!AutoAllowed(c)' <=> Gate!AutoAllowed(c)
  BY <1>1 DEF Gate!AutoAllowed
<1>5. \A c : Gate!Standing(c)' <=> Gate!Standing(c)
  BY <1>1, <1>2 DEF Gate!Standing, Gate!KeptByClaude, Gate!KeptByCodex
<1>6. \A c : Gate!About(c)' = Gate!About(c)
  BY <1>5 DEF Gate!About
<1>7. agreed \subseteq agreed' => \A c : IsAgreed(c) => IsAgreed(c)'
  BY <1>4, <1>6 DEF IsAgreed
<1> QED
  BY <1>1, <1>3, <1>4, <1>6, <1>7

LEMMA QuestionFacts ==
    ASSUME GateTypes, NEW s \in Slots
    PROVE  /\ Gate!Asked(s) =>
                 /\ slot[s] \in [open : {TRUE}, call : wanted, turn : 1 .. turn, cancelled : BOOLEAN]
                 /\ slot[s].call \in wanted /\ slot[s].call \in Gate!Calls
                 /\ slot[s].turn \in 1 .. turn /\ slot[s].cancelled \in BOOLEAN
           /\ ~Gate!Asked(s) => slot[s] = Gate!Free
<1>1. slot[s] \in {Gate!Free} \cup [open : {TRUE}, call : wanted, turn : 1 .. turn, cancelled : BOOLEAN]
  BY DEF GateTypes
<1>2. wanted \subseteq Gate!Calls
  BY SceneFacts DEF GateTypes
<1>3. CASE slot[s] = Gate!Free
  BY <1>3 DEF Gate!Free, Gate!Asked
<1>4. CASE slot[s] \in [open : {TRUE}, call : wanted, turn : 1 .. turn, cancelled : BOOLEAN]
  BY <1>2, <1>4 DEF Gate!Asked
<1> QED
  BY <1>1, <1>3, <1>4

\* What is brought to the gate and not refused is not off limits.
LEMMA WhatIsNotRefused ==
    ASSUME NEW c, Gate!Brings(c), ~Gate!Refused(c)
    PROVE  ~Gate!OffLimits(c)
<1> USE DEF Gate!OffLimits, Gate!Walled, Gate!Capability
<1>1. CASE Gate!Claude
  BY <1>1 DEF Gate!Refused, Gate!RefusedByClaude, Gate!CommandRefused, Gate!Declared
<1>2. CASE ~Gate!Claude
  BY <1>2 DEF Gate!Refused, Gate!RefusedByCodex, Gate!ChangeRefusedByCodex, Gate!Brings, Gate!Declared
<1> QED
  BY <1>1, <1>2

LEMMA OpenIsFinite ==
    /\ IsFiniteSet(Open) /\ IsFiniteSet(Own)
    /\ Cardinality(Open) \in Nat /\ Cardinality(Own) \in Nat
    /\ Cardinality(Own) <= Cardinality(Open) /\ Cardinality(Open) <= Cardinality(Slots)
<1>1. Open \subseteq Slots /\ Own \subseteq Open
  BY DEF Open, Own
<1>2. IsFiniteSet(Slots)
  BY GateAssumption
<1>3. IsFiniteSet(Open) /\ Cardinality(Open) <= Cardinality(Slots)
  BY <1>1, <1>2, FS_Subset
<1>4. IsFiniteSet(Own) /\ Cardinality(Own) <= Cardinality(Open)
  BY <1>1, <1>3, FS_Subset
<1> QED
  BY <1>3, <1>4, FS_CardinalityType

LEMMA GateInit == Gate!Init => GateInv
<1> SUFFICES ASSUME Gate!Init
             PROVE  GateInv
  OBVIOUS
<1> USE DEF Gate!Init
<1>1. \A s \in Slots : ~Gate!Asked(s)
  BY DEF Gate!Asked, Gate!Free
<1>2. GateTypes
  <2>1. <<policy, wanted>> \in Scenes
    <3>1. PICK scene \in Scenes : policy = scene[1] /\ wanted = scene[2]
      OBVIOUS
    <3>2. \A sc \in Scenes : sc = <<sc[1], sc[2]>>
      BY DEF Scenes
    <3> QED
      BY <3>1, <3>2
  <2>2. turn \in 0 .. MaxTurns /\ calls \in 0 .. MaxCalls /\ escalations \in 0 .. MAX_ESCALATIONS_PER_TURN
    BY GateAssumption
  <2> QED
    BY <2>1, <2>2 DEF GateTypes, Gate!Decisions
<1>3. KeptIsAgreed
  BY DEF KeptIsAgreed
<1>4. QuestionsAreFair
  BY <1>1 DEF QuestionsAreFair
<1>5. DecisionIsTheOwners
  BY DEF DecisionIsTheOwners, Gate!Nothing
<1>6. ClockCounts
  <2>1. 0 <= Cardinality(Open)
    BY OpenIsFinite
  <2> QED
    BY <2>1 DEF ClockCounts
<1> QED
  BY <1>2, <1>3, <1>4, <1>5, <1>6 DEF GateInv

LEMMA KeptStays ==
    ASSUME KeptIsAgreed, UNCHANGED policy, agreed \subseteq agreed',
           \A c \in Gate!Calls : memo'[c] \in {memo[c], "none"},
           \A k \in Gate!Keys : grants'[k] \in {grants[k], stored[k]} /\ stored'[k] \in {stored[k], "none"}
    PROVE  KeptIsAgreed'
<1>1. \A c \in Gate!Calls : memo'[c] = "allow" => ~Gate!OffLimits(c)' /\ IsAgreed(c)'
  BY SamePolicy DEF KeptIsAgreed
<1>2. \A k \in Gate!Keys : grants'[k] = "allow" \/ stored'[k] = "allow" =>
         [tool |-> "any", place |-> "any", about |-> k] \in agreed'
  BY DEF KeptIsAgreed
<1>3. Gate!Claude' /\ policy'.guest => \A k \in Gate!Keys : grants'[k] = "none" /\ stored'[k] = "none"
  BY SamePolicy DEF KeptIsAgreed
<1> QED
  BY <1>1, <1>2, <1>3 DEF KeptIsAgreed

LEMMA QuestionsStay ==
    ASSUME QuestionsAreFair, UNCHANGED policy, agreed \subseteq agreed',
           \A s \in Slots : Gate!Asked(s)' =>
               /\ Gate!Asked(s) /\ slot'[s].call = slot[s].call
               /\ file'[s] = "allow" \/ cli'[s] = "allow" =>
                     file[s] = "allow" \/ cli[s] = "allow" \/ Gate!About(slot[s].call) \in agreed'
    PROVE  QuestionsAreFair'
<1> SUFFICES ASSUME NEW s \in Slots, Gate!Asked(s)'
             PROVE  (/\ ~Gate!OffLimits(slot[s].call)
                     /\ file[s] = "allow" \/ cli[s] = "allow" => Gate!About(slot[s].call) \in agreed)'
  BY DEF QuestionsAreFair
<1>1. PICK c : c = slot[s].call /\ c = slot'[s].call
  OBVIOUS
<1>2. ~Gate!OffLimits(c) /\ (file[s] = "allow" \/ cli[s] = "allow" => Gate!About(c) \in agreed)
  BY <1>1 DEF QuestionsAreFair
<1>3. UNCHANGED policy
  OBVIOUS
<1>4. Gate!OffLimits(slot[s].call)' <=> Gate!OffLimits(c)
  BY <1>1, <1>3 DEF Gate!OffLimits, Gate!Walled, Gate!Capability, Gate!Enabled
<1>5. Gate!About(slot[s].call)' = Gate!About(c)
  BY <1>1, <1>3 DEF Gate!About, Gate!Standing, Gate!KeptByClaude, Gate!KeptByCodex, Gate!Claude,
                    Gate!OutsideFile, Gate!Capability, Gate!Enabled
<1>6. file'[s] = "allow" \/ cli'[s] = "allow" => Gate!About(c) \in agreed'
  BY <1>1, <1>2
<1> QED
  BY <1>2, <1>4, <1>5, <1>6

LEMMA NoDecision ==
    ASSUME decided' = Gate!Nothing
    PROVE  DecisionIsTheOwners'
BY DEF DecisionIsTheOwners, Gate!Nothing

LEMMA ClockStays ==
    ASSUME ClockCounts, UNCHANGED <<policy, turn, running, armed, open, slot, strayed>>
    PROVE  ClockCounts'
<1>1. Open' = Open /\ Own' = Own /\ (Gate!Claude' <=> Gate!Claude)
  BY DEF Open, Own, Gate!Asked, Gate!Claude
<1> QED
  BY <1>1 DEF ClockCounts

\* A turn that begins, or is over: the clock stands, and no question is this turn's.
LEMMA TurnStepsPreserve ==
    ASSUME GateInv,
           Gate!BeginTurn \/ Gate!EndTurn \/ Gate!ClockFires \/ Gate!Stop \/ Gate!Restart
    PROVE  GateInv'
<1> USE DEF Gate!BeginTurn, Gate!EndTurn, Gate!ClockFires, Gate!Stop, Gate!Restart, Gate!TurnOver,
            Gate!setup, Gate!asking, Gate!answers, Gate!clock
<1>1. UNCHANGED <<policy, wanted, agreed, calls>> /\ decided' = Gate!Nothing /\ open' = 0
  OBVIOUS
<1>2. \/ turn' = turn + 1 /\ turn < MaxTurns /\ running' = TRUE /\ armed' = TRUE /\ escalations' = 0
         /\ UNCHANGED slot
      \/ turn' = turn /\ running' = FALSE /\ armed' = FALSE /\ escalations' = escalations
  OBVIOUS
<1>3. \/ UNCHANGED slot
      \/ slot' = [s \in Slots |-> IF Gate!Asked(s) THEN [slot[s] EXCEPT !.cancelled = TRUE] ELSE slot[s]]
      \/ slot' = [s \in Slots |-> Gate!Free]
  OBVIOUS
<1>4. \/ UNCHANGED <<file, cli, memo, grants, stored>>
      \/ /\ file' = [s \in Slots |-> "none"] /\ memo' = [c \in Gate!Calls |-> "none"]
         /\ grants' = stored /\ UNCHANGED <<cli, stored>>
         /\ slot' = [s \in Slots |-> Gate!Free]
  OBVIOUS
<1>5. turn \in Nat /\ turn' \in Nat /\ turn <= turn'
  BY <1>2, GateAssumption DEF GateInv, GateTypes
<1>6. ASSUME NEW s \in Slots
      PROVE  /\ slot'[s] \in {Gate!Free} \cup
                     [open : {TRUE}, call : wanted, turn : 1 .. turn, cancelled : BOOLEAN]
             /\ Gate!Asked(s)' => Gate!Asked(s) /\ slot'[s].call = slot[s].call /\ slot'[s].turn \in 1 .. turn
  <2>1. /\ slot[s] \in {Gate!Free} \cup [open : {TRUE}, call : wanted, turn : 1 .. turn, cancelled : BOOLEAN]
        /\ Gate!Asked(s) => slot[s] \in [open : {TRUE}, call : wanted, turn : 1 .. turn, cancelled : BOOLEAN]
    BY QuestionFacts DEF GateInv, GateTypes
  <2>2. slot' = [i \in Slots |-> slot'[i]]
    BY <1>3 DEF GateInv, GateTypes
  <2>3. CASE slot'[s] = slot[s]
    BY <2>1, <2>3 DEF Gate!Asked
  <2>4. CASE Gate!Asked(s) /\ slot'[s] = [slot[s] EXCEPT !.cancelled = TRUE]
    <3>1. PICK q \in [open : {TRUE}, call : wanted, turn : 1 .. turn, cancelled : BOOLEAN] : q = slot[s]
      BY <2>1, <2>4
    <3>2. slot'[s] = [q EXCEPT !.cancelled = TRUE]
      BY <2>4, <3>1
    <3> QED
      BY <2>4, <3>1, <3>2
  <2>5. CASE slot'[s] = Gate!Free
    BY <2>5 DEF Gate!Asked, Gate!Free
  <2> QED
    BY <1>3, <2>3, <2>4, <2>5
<1>7. GateTypes'
  <2>1. slot' \in [Slots -> {Gate!Free} \cup
                            [open : {TRUE}, call : wanted', turn : 1 .. turn', cancelled : BOOLEAN]]
    <3>1. \A s \in Slots : slot'[s] \in {Gate!Free} \cup
              [open : {TRUE}, call : wanted', turn : 1 .. turn', cancelled : BOOLEAN]
      <4>1. 1 .. turn \subseteq 1 .. turn' /\ wanted' = wanted
        BY <1>1, <1>5
      <4> QED
        BY <1>6, <4>1
    <3>2. slot' = [i \in Slots |-> slot'[i]]
      BY <1>3 DEF GateInv, GateTypes
    <3> QED
      BY <3>1, <3>2
  <2>2. turn' \in 0 .. MaxTurns /\ running' \in BOOLEAN /\ (running' => turn' > 0)
        /\ escalations' \in 0 .. MAX_ESCALATIONS_PER_TURN
    <3>1. PICK max \in Nat : max = MaxTurns
      BY GateAssumption
    <3>2. turn \in 0 .. max /\ 0 \in 0 .. MAX_ESCALATIONS_PER_TURN
      BY <3>1, GateAssumption DEF GateInv, GateTypes
    <3>3. escalations \in 0 .. MAX_ESCALATIONS_PER_TURN
      BY DEF GateInv, GateTypes
    <3>4. CASE turn' = turn + 1 /\ turn < MaxTurns /\ running' = TRUE /\ escalations' = 0
      BY <3>1, <3>2, <3>4
    <3>5. CASE turn' = turn /\ running' = FALSE /\ escalations' = escalations
      BY <3>1, <3>2, <3>3, <3>5
    <3> QED
      BY <1>2, <3>4, <3>5
  <2>3. /\ file' \in [Slots -> {"none", "open", "torn", "allow", "deny"}]
        /\ cli' \in [Slots -> Gate!Decisions] /\ memo' \in [Gate!Calls -> Gate!Decisions]
        /\ grants' \in [Gate!Keys -> Gate!Decisions] /\ stored' \in [Gate!Keys -> Gate!Decisions]
    <3>1. CASE UNCHANGED <<file, cli, memo, grants, stored>>
      BY <3>1 DEF GateInv, GateTypes
    <3>2. CASE /\ file' = [s \in Slots |-> "none"] /\ memo' = [c \in Gate!Calls |-> "none"]
               /\ grants' = stored /\ UNCHANGED <<cli, stored>>
      BY <3>2 DEF GateInv, GateTypes, Gate!Decisions
    <3> QED
      BY <1>4, <3>1, <3>2
  <2> QED
    BY <1>1, <2>1, <2>2, <2>3 DEF GateInv, GateTypes
<1>8. KeptIsAgreed'
  <2>1. /\ \A c \in Gate!Calls : memo'[c] \in {memo[c], "none"}
        /\ \A k \in Gate!Keys : grants'[k] \in {grants[k], stored[k]} /\ stored'[k] \in {stored[k], "none"}
    BY <1>4
  <2> QED
    BY <1>1, <2>1, KeptStays DEF GateInv
<1>9. QuestionsAreFair'
  <2>1. ASSUME NEW s \in Slots, Gate!Asked(s)'
        PROVE  file'[s] = file[s] /\ cli'[s] = cli[s]
    <3>1. CASE UNCHANGED <<file, cli>>
      BY <3>1
    <3>2. CASE slot' = [i \in Slots |-> Gate!Free]
      BY <2>1, <3>2 DEF Gate!Asked, Gate!Free
    <3> QED
      BY <1>4, <3>1, <3>2
  <2> QED
    BY <1>1, <1>6, <2>1, QuestionsStay DEF GateInv
<1>10. ClockCounts'
  <2>1. Cardinality(Open)' \in Nat
    <3>1. IsFiniteSet(Open')
      <4>1. Open' \subseteq Slots
        BY DEF Open
      <4> QED
        BY <4>1, GateAssumption, FS_Subset
    <3> QED
      BY <3>1, FS_CardinalityType
  <2>2. running' => Cardinality(Own)' = 0
    <3>1. SUFFICES ASSUME running'
                   PROVE  Own' = {}
      BY FS_EmptySet
    <3>2. ASSUME NEW s \in Slots, Gate!Asked(s)'  PROVE slot'[s].turn # turn'
      <4>1. turn' = turn + 1 /\ slot'[s].turn \in 1 .. turn
        BY <1>2, <1>6, <3>1, <3>2
      <4> QED
        BY <1>5, <4>1
    <3> QED
      BY <3>2 DEF Own
  <2>3. armed' \in BOOLEAN /\ (armed' => running')
    BY <1>2
  <2> QED
    BY <1>1, <2>1, <2>2, <2>3 DEF ClockCounts
<1> QED
  BY <1>1, <1>7, <1>8, <1>9, <1>10, NoDecision DEF GateInv

LEMMA KeptBecomes ==
    ASSUME GateTypes, KeptIsAgreed, UNCHANGED policy, agreed \subseteq agreed',
           NEW c \in Gate!Calls, NEW answer \in {"allow", "deny"},
           memo' \in {memo, [memo EXCEPT ![c] = answer]},
           \/ grants' = grants /\ stored' = stored
           \/ /\ Gate!Standing(c)
              /\ grants' = [grants EXCEPT ![c.about] = answer] /\ stored' = grants'
              /\ answer = "allow" => Gate!About(c) \in agreed',
           answer = "allow" => ~Gate!OffLimits(c) /\ (IsAgreed(c) \/ Gate!About(c) \in agreed')
    PROVE  /\ KeptIsAgreed'
           /\ memo' \in [Gate!Calls -> Gate!Decisions]
           /\ grants' \in [Gate!Keys -> Gate!Decisions] /\ stored' \in [Gate!Keys -> Gate!Decisions]
<1>1. /\ memo \in [Gate!Calls -> Gate!Decisions]
      /\ grants \in [Gate!Keys -> Gate!Decisions] /\ stored \in [Gate!Keys -> Gate!Decisions]
      /\ answer \in Gate!Decisions
  BY DEF GateTypes, Gate!Decisions
<1>2. c.about \in Gate!Keys /\ c = [tool |-> c.tool, place |-> c.place, about |-> c.about]
  BY SceneFacts
<1>3. /\ memo' \in [Gate!Calls -> Gate!Decisions]
      /\ grants' \in [Gate!Keys -> Gate!Decisions] /\ stored' \in [Gate!Keys -> Gate!Decisions]
  BY <1>1, <1>2
<1>4. answer = "allow" => ~Gate!OffLimits(c)' /\ IsAgreed(c)'
  <2> SUFFICES ASSUME answer = "allow"
               PROVE  ~Gate!OffLimits(c)' /\ IsAgreed(c)'
    OBVIOUS
  <2>1. ~Gate!OffLimits(c)'
    BY SamePolicy
  <2>2. CASE IsAgreed(c)
    BY <2>1, <2>2, SamePolicy
  <2>3. CASE Gate!About(c) \in agreed'
    <3>1. Gate!About(c)' = Gate!About(c)
      BY SamePolicy
    <3> QED
      BY <2>1, <2>3, <3>1 DEF IsAgreed
  <2> QED
    BY <2>2, <2>3
<1>5. \A d \in Gate!Calls : memo'[d] = "allow" => ~Gate!OffLimits(d)' /\ IsAgreed(d)'
  <2> SUFFICES ASSUME NEW d \in Gate!Calls, memo'[d] = "allow"
               PROVE  ~Gate!OffLimits(d)' /\ IsAgreed(d)'
    OBVIOUS
  <2>1. CASE memo[d] = "allow"
    <3>1. ~Gate!OffLimits(d) /\ IsAgreed(d)
      BY <2>1 DEF KeptIsAgreed
    <3> QED
      BY <3>1, SamePolicy
  <2>2. CASE memo[d] # "allow"
    <3>1. d = c /\ answer = "allow"
      BY <1>1, <2>2
    <3> QED
      BY <1>4, <3>1
  <2> QED
    BY <2>1, <2>2
<1>6. \A k \in Gate!Keys : grants'[k] = "allow" \/ stored'[k] = "allow" =>
         [tool |-> "any", place |-> "any", about |-> k] \in agreed'
  <2>1. CASE grants' = grants /\ stored' = stored
    BY <2>1 DEF KeptIsAgreed
  <2>2. CASE /\ Gate!Standing(c)
             /\ grants' = [grants EXCEPT ![c.about] = answer] /\ stored' = grants'
             /\ answer = "allow" => Gate!About(c) \in agreed'
    <3>1. PICK tool, place, k : c = [tool |-> tool, place |-> place, about |-> k] /\ k = c.about
      BY <1>2
    <3>2. Gate!About(c) = [tool |-> "any", place |-> "any", about |-> k]
      BY <2>2, <3>1 DEF Gate!About
    <3>3. ASSUME NEW j \in Gate!Keys, grants'[j] = "allow"
          PROVE  [tool |-> "any", place |-> "any", about |-> j] \in agreed'
      <4>1. CASE j = k
        <5>1. answer = "allow"
          BY <1>1, <2>2, <3>1, <3>3, <4>1
        <5> QED
          BY <2>2, <3>2, <4>1, <5>1
      <4>2. CASE j # k
        <5>1. grants[j] = "allow"
          BY <1>1, <2>2, <3>1, <3>3, <4>2
        <5> QED
          BY <5>1 DEF KeptIsAgreed
      <4> QED
        BY <4>1, <4>2
    <3> QED
      BY <2>2, <3>3
  <2> QED
    BY <2>1, <2>2
<1>7. Gate!Claude' /\ policy'.guest => \A k \in Gate!Keys : grants'[k] = "none" /\ stored'[k] = "none"
  <2> SUFFICES ASSUME Gate!Claude', policy'.guest
               PROVE  \A k \in Gate!Keys : grants'[k] = "none" /\ stored'[k] = "none"
    OBVIOUS
  <2>1. Gate!Claude /\ policy.guest
    BY SamePolicy
  <2>2. ~Gate!Standing(c)
    BY <2>1 DEF Gate!Standing, Gate!KeptByClaude
  <2> QED
    BY <2>1, <2>2 DEF KeptIsAgreed
<1>8. KeptIsAgreed'
  BY <1>5, <1>6, <1>7 DEF KeptIsAgreed
<1> QED
  BY <1>3, <1>8

LEMMA DecisionIs ==
    ASSUME UNCHANGED policy, NEW c, NEW allow \in BOOLEAN, NEW cancelled,
           decided' = [call |-> c, allow |-> allow, cancelled |-> cancelled],
           agreed \subseteq agreed',
           allow => ~Gate!OffLimits(c) /\ (IsAgreed(c) \/ Gate!About(c) \in agreed') /\ cancelled = FALSE
    PROVE  DecisionIsTheOwners'
<1>1. decided'.allow = allow /\ decided'.call = c /\ decided'.cancelled = cancelled
  OBVIOUS
<1>2. Gate!OffLimits(decided.call)' <=> Gate!OffLimits(c)
  BY <1>1 DEF Gate!OffLimits, Gate!Walled, Gate!Capability, Gate!Enabled
<1>3. Gate!About(decided.call)' = Gate!About(c)
  BY <1>1 DEF Gate!About, Gate!Standing, Gate!KeptByClaude, Gate!KeptByCodex, Gate!Claude,
              Gate!OutsideFile, Gate!Capability, Gate!Enabled
<1>4. Gate!AutoAllowed(decided.call)' <=> Gate!AutoAllowed(c)
  BY <1>1 DEF Gate!AutoAllowed, Gate!Claude
<1>5. IsAgreed(c) \/ Gate!About(c) \in agreed' => IsAgreed(decided.call)'
  BY <1>1, <1>3, <1>4 DEF IsAgreed
<1> QED
  BY <1>1, <1>2, <1>5 DEF DecisionIsTheOwners

\* The owner's other processes, and a memo that expires.
LEMMA OwnersStepsPreserve ==
    ASSUME GateInv,
           \/ \E s \in Slots : Gate!Approve(s) \/ Gate!Truncate(s) \/ Gate!WriteDecision(s)
           \/ \E k \in Gate!Keys : Gate!Revoke(k)
           \/ \E c \in wanted : Gate!Expire(c)
    PROVE  GateInv'
<1> USE DEF Gate!setup, Gate!clock, Gate!asking, Gate!answers
<1>1. /\ UNCHANGED <<policy, wanted, turn, running, calls, escalations, armed, open, slot, grants, strayed>>
      /\ decided' = Gate!Nothing
  BY DEF Gate!Approve, Gate!Truncate, Gate!WriteDecision, Gate!Revoke, Gate!Expire
<1>2. \A s \in Slots : Gate!Asked(s)' <=> Gate!Asked(s)
  BY <1>1 DEF Gate!Asked
<1>3. ClockCounts' /\ DecisionIsTheOwners'
  BY <1>1, ClockStays, NoDecision DEF GateInv
<1>4. /\ file \in [Slots -> {"none", "open", "torn", "allow", "deny"}]
      /\ cli \in [Slots -> Gate!Decisions] /\ memo \in [Gate!Calls -> Gate!Decisions]
      /\ stored \in [Gate!Keys -> Gate!Decisions]
  BY DEF GateInv, GateTypes
<1>5. CASE \E s \in Slots : Gate!Approve(s)
  <2>1. PICK s \in Slots : Gate!Approve(s)
    BY <1>5
  <2>2. PICK answer \in {"allow", "deny"} : cli' = [cli EXCEPT ![s] = answer] /\ Gate!Said(s, answer)
    BY <2>1 DEF Gate!Approve
  <2>3. UNCHANGED <<file, memo, stored>>
    BY <2>1 DEF Gate!Approve
  <2>4. /\ agreed \subseteq agreed'
        /\ answer = "allow" /\ Gate!Asked(s) => Gate!About(slot[s].call) \in agreed'
    BY <2>2 DEF Gate!Said
  <2>5. GateTypes'
    BY <1>1, <1>4, <2>2, <2>3 DEF GateInv, GateTypes, Gate!Decisions
  <2>6. KeptIsAgreed'
    BY <1>1, <2>3, <2>4, KeptStays DEF GateInv
  <2>7. \A r \in Slots : Gate!Asked(r)' =>
          /\ Gate!Asked(r) /\ slot'[r].call = slot[r].call
          /\ file'[r] = "allow" \/ cli'[r] = "allow" =>
                file[r] = "allow" \/ cli[r] = "allow" \/ Gate!About(slot[r].call) \in agreed'
    <3> SUFFICES ASSUME NEW r \in Slots, Gate!Asked(r)'
                 PROVE  /\ Gate!Asked(r) /\ slot'[r].call = slot[r].call
                        /\ file'[r] = "allow" \/ cli'[r] = "allow" =>
                              file[r] = "allow" \/ cli[r] = "allow" \/ Gate!About(slot[r].call) \in agreed'
      OBVIOUS
    <3>1. Gate!Asked(r) /\ slot'[r].call = slot[r].call /\ file'[r] = file[r]
      BY <1>1, <1>2, <2>3
    <3>2. CASE r = s
      <4>1. cli'[r] = answer
        BY <1>4, <2>2, <3>2
      <4> QED
        BY <2>4, <3>1, <3>2, <4>1
    <3>3. CASE r # s
      <4>1. cli'[r] = cli[r]
        BY <1>4, <2>2, <3>3
      <4> QED
        BY <3>1, <4>1
    <3> QED
      BY <3>2, <3>3
  <2>8. QuestionsAreFair'
    BY <1>1, <2>4, <2>7, QuestionsStay DEF GateInv
  <2> QED
    BY <1>3, <2>5, <2>6, <2>8 DEF GateInv
<1>6. CASE \E s \in Slots : Gate!Truncate(s) \/ Gate!WriteDecision(s)
  <2>1. PICK s \in Slots : Gate!Truncate(s) \/ Gate!WriteDecision(s)
    BY <1>6
  <2>2. /\ UNCHANGED <<memo, stored, agreed>>
        /\ \/ file' = [file EXCEPT ![s] = "torn"] /\ cli' = cli
           \/ /\ file' = [file EXCEPT ![s] = cli[s]] /\ cli' = [cli EXCEPT ![s] = "none"]
              /\ cli[s] # "none"
    BY <2>1 DEF Gate!Truncate, Gate!WriteDecision
  <2>3. GateTypes'
    <3>1. cli[s] # "none" => cli[s] \in {"allow", "deny"}
      BY <1>4 DEF Gate!Decisions
    <3>2. file' \in [Slots -> {"none", "open", "torn", "allow", "deny"}]
      BY <1>4, <2>2, <3>1
    <3>3. cli' \in [Slots -> Gate!Decisions]
      BY <1>4, <2>2 DEF Gate!Decisions
    <3> QED
      BY <1>1, <2>2, <3>2, <3>3 DEF GateInv, GateTypes
  <2>4. KeptIsAgreed'
    BY <1>1, <2>2, KeptStays DEF GateInv
  <2>5. \A r \in Slots : file'[r] = "allow" \/ cli'[r] = "allow" => file[r] = "allow" \/ cli[r] = "allow"
    BY <1>4, <2>2
  <2>6. QuestionsAreFair'
    BY <1>1, <1>2, <2>2, <2>5, QuestionsStay DEF GateInv
  <2> QED
    BY <1>3, <2>3, <2>4, <2>6 DEF GateInv
<1>7. CASE \E k \in Gate!Keys : Gate!Revoke(k)
  <2>1. PICK k \in Gate!Keys : stored' = [stored EXCEPT ![k] = "none"]
    BY <1>7 DEF Gate!Revoke
  <2>2. UNCHANGED <<file, cli, memo, agreed>>
    BY <1>7 DEF Gate!Revoke
  <2>3. GateTypes'
    <3>1. stored' \in [Gate!Keys -> Gate!Decisions]
      BY <1>4, <2>1 DEF Gate!Decisions
    <3> QED
      BY <1>1, <2>2, <3>1 DEF GateInv, GateTypes
  <2>4. KeptIsAgreed'
    <3>1. \A j \in Gate!Keys : stored'[j] \in {stored[j], "none"}
      BY <1>4, <2>1
    <3> QED
      BY <1>1, <2>2, <3>1, KeptStays DEF GateInv
  <2>5. QuestionsAreFair'
    BY <1>1, <1>2, <2>2, QuestionsStay DEF GateInv
  <2> QED
    BY <1>3, <2>3, <2>4, <2>5 DEF GateInv
<1>8. CASE \E c \in wanted : Gate!Expire(c)
  <2>1. PICK c \in wanted : memo' = [memo EXCEPT ![c] = "none"]
    BY <1>8 DEF Gate!Expire
  <2>2. UNCHANGED <<file, cli, stored, agreed>>
    BY <1>8 DEF Gate!Expire
  <2>3. GateTypes'
    <3>1. memo' \in [Gate!Calls -> Gate!Decisions]
      BY <1>4, <2>1 DEF Gate!Decisions
    <3> QED
      BY <1>1, <2>2, <3>1 DEF GateInv, GateTypes
  <2>4. KeptIsAgreed'
    <3>1. \A d \in Gate!Calls : memo'[d] \in {memo[d], "none"}
      BY <1>4, <2>1
    <3> QED
      BY <1>1, <2>2, <3>1, KeptStays DEF GateInv
  <2>5. QuestionsAreFair'
    BY <1>1, <1>2, <2>2, QuestionsStay DEF GateInv
  <2> QED
    BY <1>3, <2>3, <2>4, <2>5 DEF GateInv
<1> QED
  BY <1>5, <1>6, <1>7, <1>8

\* What the gate answers at once is allowed only if it may be.
LEMMA AtOnceIsAgreed ==
    ASSUME GateInv, NEW c \in Gate!Calls, Gate!Brings(c)
    PROVE  /\ Gate!AtOnce(c) \in {"allow", "deny", "ask"}
           /\ Gate!AtOnce(c) = "allow" => ~Gate!OffLimits(c) /\ IsAgreed(c)
           /\ Gate!AtOnce(c) = "ask" => ~Gate!OffLimits(c) /\ ~Gate!Refused(c)
<1>1. c.about \in Gate!Keys /\ c = [tool |-> c.tool, place |-> c.place, about |-> c.about]
  BY SceneFacts
<1>2. CASE c.tool = "ToolSearch"
  <2>1. c.place = "none"
    BY <1>2, SceneFacts
  <2>2. ~Gate!OffLimits(c)
    BY <1>2, <2>1 DEF Gate!OffLimits, Gate!Walled, Gate!Capability
  <2> QED
    BY <1>2, <2>2 DEF Gate!AtOnce, IsAgreed
<1>3. CASE c.tool # "ToolSearch" /\ Gate!Refused(c)
  BY <1>3 DEF Gate!AtOnce
<1>4. CASE c.tool # "ToolSearch" /\ ~Gate!Refused(c)
  <2>1. ~Gate!OffLimits(c)
    BY <1>4, WhatIsNotRefused
  <2>2. CASE Gate!Remembered(c)
    <3>1. Gate!AtOnce(c) = grants[c.about] /\ Gate!Standing(c) /\ grants[c.about] # "none"
      BY <1>4, <2>2 DEF Gate!AtOnce, Gate!Remembered
    <3>2. grants[c.about] \in {"allow", "deny"}
      BY <1>1, <3>1 DEF GateInv, GateTypes, Gate!Decisions
    <3>3. Gate!About(c) = [tool |-> "any", place |-> "any", about |-> c.about]
      <4>1. PICK tool, place, k : c = [tool |-> tool, place |-> place, about |-> k] /\ k = c.about
        BY <1>1
      <4> QED
        BY <3>1, <4>1 DEF Gate!About
    <3>4. grants[c.about] = "allow" => Gate!About(c) \in agreed
      BY <1>1, <3>3 DEF GateInv, KeptIsAgreed
    <3> QED
      BY <2>1, <3>1, <3>2, <3>4 DEF IsAgreed
  <2>3. CASE ~Gate!Remembered(c)
    BY <1>4, <2>1, <2>3 DEF Gate!AtOnce, IsAgreed
  <2> QED
    BY <2>2, <2>3
<1> QED
  BY <1>2, <1>3, <1>4

LEMMA CallAsksPreserves ==
    ASSUME GateInv, NEW s \in Slots, NEW c \in wanted, Gate!CallAsks(s, c)
    PROVE  GateInv'
<1> USE DEF Gate!setup, Gate!clock, Gate!asking, Gate!answers
<1>1. /\ UNCHANGED <<policy, wanted, turn, running, strayed, cli, memo, grants, stored, agreed>>
      /\ running /\ calls < MaxCalls /\ calls' = calls + 1
      /\ slot[s] = Gate!Free /\ file[s] = "none" /\ cli[s] = "none"
      /\ decided' = Gate!Nothing
      /\ file' = [file EXCEPT ![s] = "open"]
      /\ escalations' = IF Gate!Claude /\ Gate!OutsideFile(c) THEN escalations + 1 ELSE escalations
      /\ Gate!Brings(c) /\ Gate!AtOnce(c) = "ask"
      /\ Gate!Paused
  BY DEF Gate!CallAsks, Gate!Calling, Gate!NextIdle, Gate!Idle
<1>2. PICK q : q = [open |-> TRUE, call |-> c, turn |-> turn, cancelled |-> FALSE]
  OBVIOUS
<1>3. slot' = [slot EXCEPT ![s] = q]
  BY <1>2 DEF Gate!CallAsks
<1>4. c \in Gate!Calls
  BY SceneFacts DEF GateInv, GateTypes
<1>5. ~Gate!OffLimits(c) /\ ~Gate!Refused(c)
  BY <1>1, <1>4, AtOnceIsAgreed
<1>6. turn \in 1 .. turn /\ turn \in Nat
  <2>1. turn \in 0 .. MaxTurns /\ MaxTurns \in Nat /\ turn > 0
    BY <1>1, GateAssumption DEF GateInv, GateTypes
  <2> QED
    BY <2>1
<1>7. /\ slot'[s] = q /\ Gate!Asked(s)' /\ slot'[s].call = c /\ slot'[s].turn = turn
      /\ \A r \in Slots : r # s => slot'[r] = slot[r] /\ (Gate!Asked(r)' <=> Gate!Asked(r))
      /\ ~Gate!Asked(s)
  <2>1. slot'[s] = q /\ \A r \in Slots : r # s => slot'[r] = slot[r]
    BY <1>3 DEF GateInv, GateTypes
  <2> QED
    BY <1>1, <1>2, <2>1 DEF Gate!Asked, Gate!Free
<1>8. GateTypes'
  <2>1. q \in [open : {TRUE}, call : wanted, turn : 1 .. turn, cancelled : BOOLEAN]
    BY <1>2, <1>6
  <2>2. slot' \in [Slots -> {Gate!Free} \cup
                            [open : {TRUE}, call : wanted, turn : 1 .. turn, cancelled : BOOLEAN]]
    BY <1>3, <2>1 DEF GateInv, GateTypes
  <2>3. escalations' \in 0 .. MAX_ESCALATIONS_PER_TURN
    <3>1. PICK max \in Nat : max = MAX_ESCALATIONS_PER_TURN
      BY GateAssumption
    <3>2. escalations \in 0 .. max
      BY <3>1 DEF GateInv, GateTypes
    <3>3. CASE Gate!Claude /\ Gate!OutsideFile(c)
      <4>1. ~(escalations >= max)
        BY <1>5, <3>1, <3>3 DEF Gate!Refused, Gate!RefusedByClaude, Gate!OutsideRefused
      <4>2. escalations' = escalations + 1
        BY <1>1, <3>3
      <4> QED
        BY <3>1, <3>2, <4>1, <4>2
    <3>4. CASE ~(Gate!Claude /\ Gate!OutsideFile(c))
      <4>1. escalations' = escalations
        BY <1>1, <3>4
      <4> QED
        BY <3>1, <3>2, <4>1
    <3> QED
      BY <3>3, <3>4
  <2>4. calls' \in 0 .. MaxCalls
    <3>1. calls \in 0 .. MaxCalls /\ MaxCalls \in Nat
      BY GateAssumption DEF GateInv, GateTypes
    <3> QED
      BY <1>1, <3>1
  <2>5. file' \in [Slots -> {"none", "open", "torn", "allow", "deny"}]
    BY <1>1 DEF GateInv, GateTypes
  <2> QED
    BY <1>1, <2>2, <2>3, <2>4, <2>5 DEF GateInv, GateTypes
<1>9. KeptIsAgreed'
  BY <1>1, KeptStays DEF GateInv
<1>10. QuestionsAreFair'
  <2> SUFFICES ASSUME NEW r \in Slots, Gate!Asked(r)'
               PROVE  (/\ ~Gate!OffLimits(slot[r].call)
                       /\ file[r] = "allow" \/ cli[r] = "allow" => Gate!About(slot[r].call) \in agreed)'
    BY DEF QuestionsAreFair
  <2>1. CASE r = s
    <3>1. file'[r] = "open" /\ cli'[r] = "none"
      BY <1>1, <2>1 DEF GateInv, GateTypes
    <3>2. ~Gate!OffLimits(slot[r].call)'
      BY <1>1, <1>5, <1>7, <2>1 DEF Gate!OffLimits, Gate!Walled, Gate!Capability, Gate!Enabled
    <3> QED
      BY <3>1, <3>2
  <2>2. CASE r # s
    <3>1. /\ Gate!Asked(r) /\ slot'[r] = slot[r] /\ file'[r] = file[r] /\ cli'[r] = cli[r]
      BY <1>1, <1>7, <2>2 DEF GateInv, GateTypes
    <3>2. /\ ~Gate!OffLimits(slot[r].call)
          /\ file[r] = "allow" \/ cli[r] = "allow" => Gate!About(slot[r].call) \in agreed
      BY <3>1 DEF GateInv, QuestionsAreFair
    <3>3. Gate!OffLimits(slot[r].call)' <=> Gate!OffLimits(slot[r].call)
      BY <1>1, <3>1 DEF Gate!OffLimits, Gate!Walled, Gate!Capability, Gate!Enabled
    <3>4. Gate!About(slot[r].call)' = Gate!About(slot[r].call)
      BY <1>1, <3>1 DEF Gate!About, Gate!Standing, Gate!KeptByClaude, Gate!KeptByCodex, Gate!Claude,
                        Gate!OutsideFile, Gate!Capability, Gate!Enabled
    <3>5. file'[r] = "allow" \/ cli'[r] = "allow" => Gate!About(slot[r].call) \in agreed'
      BY <1>1, <3>1, <3>2
    <3> QED
      BY <3>2, <3>3, <3>4, <3>5
  <2> QED
    BY <2>1, <2>2
<1>11. ClockCounts'
  <2>1. Open' = Open \cup {s} /\ s \notin Open
    BY <1>7 DEF Open
  <2>2. Own' = Own \cup {s} /\ s \notin Own
    BY <1>1, <1>7 DEF Own
  <2>3. PICK n, m \in Nat : n = Cardinality(Open) /\ m = Cardinality(Own)
    BY OpenIsFinite
  <2>4. Cardinality(Open)' = n + 1 /\ Cardinality(Own)' = m + 1
    <3>1. PICK A, B : A = Open' /\ B = Own'
      OBVIOUS
    <3>2. Cardinality(A) = n + 1 /\ Cardinality(B) = m + 1
      BY <2>1, <2>2, <2>3, <3>1, OpenIsFinite, FS_AddElement
    <3> QED
      BY <3>1, <3>2
  <2>5. /\ open \in Nat /\ open <= n /\ armed \in BOOLEAN /\ (armed => running) /\ (armed => open = 0)
        /\ ~Gate!Claude => open = 0
        /\ Gate!Claude /\ ~strayed => open = m
    BY <1>1, <2>3 DEF GateInv, ClockCounts
  <2>6. Gate!Claude' <=> Gate!Claude
    BY <1>1, SamePolicy
  <2>7. CASE Gate!Claude
    <3>1. open' = open + 1 /\ armed' = FALSE
      BY <1>1, <2>7 DEF Gate!Paused
    <3>2. open' \in Nat /\ open' <= n + 1 /\ (~strayed => open' = m + 1)
      BY <2>5, <2>7, <3>1
    <3> QED
      BY <1>1, <2>4, <2>6, <2>7, <3>1, <3>2 DEF ClockCounts
  <2>8. CASE ~Gate!Claude
    <3>1. open' = open /\ armed' = armed
      BY <1>1, <2>8 DEF Gate!Paused
    <3>2. open' = 0 /\ open' <= n + 1
      BY <2>5, <2>8, <3>1
    <3> QED
      BY <1>1, <2>4, <2>5, <2>6, <2>8, <3>1, <3>2 DEF ClockCounts
  <2> QED
    BY <2>7, <2>8
<1>12. DecisionIsTheOwners'
  BY <1>1, NoDecision
<1> QED
  BY <1>8, <1>9, <1>10, <1>11, <1>12 DEF GateInv

\* A call that is answered, from the memo or by the policy, asks nobody.
LEMMA CallAnsweredPreserves ==
    ASSUME GateInv, NEW s \in Slots, NEW c \in wanted,
           Gate!CallMemoized(s, c) \/ Gate!CallAnswered(s, c)
    PROVE  GateInv'
<1> USE DEF Gate!setup, Gate!clock, Gate!asking, Gate!answers
<1>1. /\ UNCHANGED <<policy, wanted, turn, running, strayed, escalations, armed, open, slot, file, cli,
                     grants, stored, agreed>>
      /\ calls < MaxCalls /\ calls' = calls + 1 /\ Gate!Brings(c)
  BY DEF Gate!CallMemoized, Gate!CallAnswered, Gate!Calling
<1>2. c \in Gate!Calls
  BY SceneFacts DEF GateInv, GateTypes
<1>3. PICK answer \in {"allow", "deny"} :
        /\ decided' = [call |-> c, allow |-> answer = "allow", cancelled |-> FALSE]
        /\ memo' \in {memo, [memo EXCEPT ![c] = answer]}
        /\ answer = "allow" => ~Gate!OffLimits(c) /\ IsAgreed(c)
  <2>1. CASE Gate!CallMemoized(s, c)
    <3>1. PICK answer : answer = memo[c]
      OBVIOUS
    <3>2. answer \in {"allow", "deny"}
      BY <1>2, <2>1, <3>1 DEF Gate!CallMemoized, GateInv, GateTypes, Gate!Decisions
    <3>3. decided' = [call |-> c, allow |-> answer = "allow", cancelled |-> FALSE] /\ memo' = memo
      BY <2>1, <3>1 DEF Gate!CallMemoized, Gate!Decide
    <3>4. answer = "allow" => ~Gate!OffLimits(c) /\ IsAgreed(c)
      BY <1>2, <3>1 DEF GateInv, KeptIsAgreed
    <3> QED
      BY <3>2, <3>3, <3>4
  <2>2. CASE Gate!CallAnswered(s, c)
    <3>1. PICK answer : answer = Gate!AtOnce(c)
      OBVIOUS
    <3>2. answer \in {"allow", "deny"} /\ (answer = "allow" => ~Gate!OffLimits(c) /\ IsAgreed(c))
      BY <1>1, <1>2, <2>2, <3>1, AtOnceIsAgreed DEF Gate!CallAnswered
    <3>3. decided' = [call |-> c, allow |-> answer = "allow", cancelled |-> FALSE]
      BY <2>2, <3>1 DEF Gate!CallAnswered, Gate!Decide
    <3>4. memo' \in {memo, [memo EXCEPT ![c] = answer]}
      BY <2>2, <3>1 DEF Gate!CallAnswered, Gate!Memoized
    <3> QED
      BY <3>2, <3>3, <3>4
  <2> QED
    BY <2>1, <2>2
<1>4. KeptIsAgreed' /\ memo' \in [Gate!Calls -> Gate!Decisions]
  BY <1>1, <1>2, <1>3, KeptBecomes DEF GateInv
<1>5. GateTypes'
  <2>1. calls' \in 0 .. MaxCalls
    <3>1. calls \in 0 .. MaxCalls /\ MaxCalls \in Nat
      BY GateAssumption DEF GateInv, GateTypes
    <3> QED
      BY <1>1, <3>1
  <2> QED
    BY <1>1, <1>4, <2>1 DEF GateInv, GateTypes
<1>6. QuestionsAreFair'
  <2>1. \A r \in Slots : Gate!Asked(r)' <=> Gate!Asked(r)
    BY <1>1 DEF Gate!Asked
  <2> QED
    BY <1>1, <2>1, QuestionsStay DEF GateInv
<1>7. DecisionIsTheOwners'
  <2>1. PICK allow \in BOOLEAN : allow = (answer = "allow")
    OBVIOUS
  <2>2. decided' = [call |-> c, allow |-> allow, cancelled |-> FALSE]
    BY <1>3, <2>1
  <2>3. allow => ~Gate!OffLimits(c) /\ IsAgreed(c)
    BY <1>3, <2>1
  <2> QED
    BY <1>1, <2>2, <2>3, DecisionIs
<1>8. ClockCounts'
  BY <1>1, ClockStays DEF GateInv
<1> QED
  BY <1>4, <1>5, <1>6, <1>7, <1>8 DEF GateInv

\* A question is over, with a yes only if the owner said so, and not after Ctrl-C.
LEMMA ClosePreserves ==
    ASSUME GateInv, NEW s \in Slots, Gate!Asked(s),
           NEW answer \in {"allow", "deny"}, Gate!Close(s, answer), agreed \subseteq agreed',
           answer = "allow" => Gate!About(slot[s].call) \in agreed' /\ ~slot[s].cancelled
    PROVE  GateInv'
<1> USE DEF Gate!setup, Gate!clock, Gate!asking, Gate!answers
<1>1. PICK c \in wanted : c = slot[s].call
  BY QuestionFacts DEF GateInv
<1>2. /\ c \in Gate!Calls /\ slot[s].turn \in 1 .. turn /\ slot[s].cancelled \in BOOLEAN
      /\ ~Gate!OffLimits(c)
  <2>1. c \in Gate!Calls
    BY SceneFacts DEF GateInv, GateTypes
  <2> QED
    BY <1>1, <2>1, QuestionFacts DEF GateInv, QuestionsAreFair
<1>3. /\ slot' = [slot EXCEPT ![s] = Gate!Free]
      /\ Gate!Decide(c, answer, slot[s].cancelled)
      /\ file' = [file EXCEPT ![s] = "none"]
      /\ Gate!Keep(c, answer) /\ Gate!Memoized(c, answer) /\ Gate!Resumed
      /\ strayed' = (strayed \/ (running /\ slot[s].turn # turn))
      /\ UNCHANGED <<policy, wanted, turn, running, calls, escalations, cli>>
  BY <1>1 DEF Gate!Close
<1>4. /\ ~Gate!Asked(s)'
      /\ \A r \in Slots : r # s => slot'[r] = slot[r] /\ (Gate!Asked(r)' <=> Gate!Asked(r))
  <2>1. slot'[s] = Gate!Free /\ \A r \in Slots : r # s => slot'[r] = slot[r]
    BY <1>3 DEF GateInv, GateTypes
  <2> QED
    BY <2>1 DEF Gate!Asked, Gate!Free
<1>5. answer = "allow" => Gate!About(c) \in agreed' /\ slot[s].cancelled = FALSE
  BY <1>1, <1>2
<1>6. KeptIsAgreed' /\ memo' \in [Gate!Calls -> Gate!Decisions]
      /\ grants' \in [Gate!Keys -> Gate!Decisions] /\ stored' \in [Gate!Keys -> Gate!Decisions]
  <2>1. memo' \in {memo, [memo EXCEPT ![c] = answer]}
    BY <1>3 DEF Gate!Memoized
  <2>2. \/ grants' = grants /\ stored' = stored
        \/ /\ Gate!Standing(c)
           /\ grants' = [grants EXCEPT ![c.about] = answer] /\ stored' = grants'
           /\ answer = "allow" => Gate!About(c) \in agreed'
    BY <1>3, <1>5 DEF Gate!Keep
  <2>3. GateTypes /\ KeptIsAgreed /\ UNCHANGED policy
    BY <1>3 DEF GateInv
  <2> QED
    BY <1>2, <1>5, <2>1, <2>2, <2>3, KeptBecomes
<1>7. GateTypes'
  <2>1. slot' \in [Slots -> {Gate!Free} \cup
                            [open : {TRUE}, call : wanted, turn : 1 .. turn, cancelled : BOOLEAN]]
    BY <1>3 DEF GateInv, GateTypes
  <2>2. file' \in [Slots -> {"none", "open", "torn", "allow", "deny"}]
    BY <1>3 DEF GateInv, GateTypes
  <2> QED
    BY <1>3, <1>6, <2>1, <2>2 DEF GateInv, GateTypes
<1>8. QuestionsAreFair'
  <2>1. \A r \in Slots : Gate!Asked(r)' =>
          /\ Gate!Asked(r) /\ slot'[r].call = slot[r].call
          /\ file'[r] = "allow" \/ cli'[r] = "allow" => file[r] = "allow" \/ cli[r] = "allow"
    <3> SUFFICES ASSUME NEW r \in Slots, Gate!Asked(r)'
                 PROVE  /\ Gate!Asked(r) /\ slot'[r].call = slot[r].call
                        /\ file'[r] = "allow" \/ cli'[r] = "allow" => file[r] = "allow" \/ cli[r] = "allow"
      OBVIOUS
    <3>1. r # s
      BY <1>4
    <3>2. file'[r] = file[r] /\ cli'[r] = cli[r]
      BY <1>3, <3>1 DEF GateInv, GateTypes
    <3> QED
      BY <1>4, <3>1, <3>2
  <2> QED
    BY <1>3, <2>1, QuestionsStay DEF GateInv
<1>9. DecisionIsTheOwners'
  <2>1. PICK allow \in BOOLEAN : allow = (answer = "allow")
    OBVIOUS
  <2>2. PICK cancelled \in BOOLEAN : cancelled = slot[s].cancelled
    BY <1>2
  <2>3. decided' = [call |-> c, allow |-> allow, cancelled |-> cancelled]
    BY <1>3, <2>1, <2>2 DEF Gate!Decide
  <2>4. allow => ~Gate!OffLimits(c) /\ Gate!About(c) \in agreed' /\ cancelled = FALSE
    BY <1>2, <1>5, <2>1, <2>2
  <2> QED
    BY <1>3, <2>3, <2>4, DecisionIs
<1>10. ClockCounts'
  <2>1. Open' = Open \ {s} /\ s \in Open
    BY <1>4 DEF Open
  <2>2. /\ Own' = Own \ {s}
        /\ slot[s].turn = turn => s \in Own
    BY <1>3, <1>4 DEF Own
  <2>3. PICK n, m \in Nat : n = Cardinality(Open) /\ m = Cardinality(Own)
    BY OpenIsFinite
  <2>4. /\ Cardinality(Open)' = n - 1 /\ n >= 1
        /\ slot[s].turn = turn => Cardinality(Own)' = m - 1 /\ m >= 1
    <3>1. PICK A, B : A = Open' /\ B = Own'
      OBVIOUS
    <3>2. Cardinality(A) = n - 1
      BY <2>1, <2>3, <3>1, OpenIsFinite, FS_RemoveElement
    <3>3. slot[s].turn = turn => Cardinality(B) = m - 1
      BY <2>2, <2>3, <3>1, OpenIsFinite, FS_RemoveElement
    <3>4. Cardinality(A) \in Nat /\ Cardinality(B) \in Nat
      <4>1. IsFiniteSet(A) /\ IsFiniteSet(B)
        BY <2>1, <2>2, <3>1, OpenIsFinite, FS_Subset
      <4> QED
        BY <4>1, FS_CardinalityType
    <3> QED
      BY <2>3, <3>1, <3>2, <3>3, <3>4
  <2>5. /\ open \in Nat /\ open <= n /\ armed \in BOOLEAN /\ (armed => running) /\ (armed => open = 0)
        /\ ~Gate!Claude \/ ~running => open = 0
        /\ Gate!Claude /\ running /\ ~strayed => open = m
    BY <2>3 DEF GateInv, ClockCounts
  <2>6. (Gate!Claude' <=> Gate!Claude) /\ running' = running
    BY <1>3, SamePolicy
  <2>7. CASE Gate!Claude /\ running
    <3>1. open' = (IF open = 0 THEN 0 ELSE open - 1)
      BY <1>3, <2>7 DEF Gate!Resumed
    <3>2. armed' = (open' = 0)
      BY <1>3, <2>7 DEF Gate!Resumed
    <3>3. open' \in Nat /\ open' <= n - 1
      BY <2>4, <2>5, <3>1
    <3>4. armed' \in BOOLEAN /\ (armed' => open' = 0)
      BY <3>2
    <3>5. ~strayed' => open' = Cardinality(Own)'
      <4>1. SUFFICES ASSUME ~strayed'
                     PROVE  open' = Cardinality(Own)'
        OBVIOUS
      <4>2. ~strayed /\ slot[s].turn = turn
        BY <1>3, <2>7, <4>1
      <4>3. open = m /\ m >= 1 /\ Cardinality(Own)' = m - 1
        BY <2>4, <2>5, <2>7, <4>2
      <4>4. open' = m - 1
        BY <2>3, <3>1, <4>3
      <4> QED
        BY <4>3, <4>4
    <3> QED
      BY <2>4, <2>6, <2>7, <3>3, <3>4, <3>5 DEF ClockCounts
  <2>8. CASE ~(Gate!Claude /\ running)
    <3>1. open' = open /\ armed' = armed
      BY <1>3, <2>8 DEF Gate!Resumed
    <3>2. open' = 0 /\ open' <= n - 1
      BY <2>4, <2>5, <2>8, <3>1
    <3> QED
      BY <2>4, <2>5, <2>6, <2>8, <3>1, <3>2 DEF ClockCounts
  <2> QED
    BY <2>7, <2>8
<1> QED
  BY <1>6, <1>7, <1>8, <1>9, <1>10 DEF GateInv

LEMMA AnswerPreserves ==
    ASSUME GateInv, NEW s \in Slots, Gate!Answer(s)
    PROVE  GateInv'
<1>1. CASE Gate!AnsweredAtTerminal(s)
  <2>1. PICK answer \in {"allow", "deny"} :
          Gate!Asked(s) /\ ~slot[s].cancelled /\ Gate!Close(s, answer) /\ Gate!Said(s, answer)
    BY <1>1 DEF Gate!AnsweredAtTerminal
  <2>2. agreed \subseteq agreed' /\ (answer = "allow" => Gate!About(slot[s].call) \in agreed')
    BY <2>1 DEF Gate!Said
  <2> QED
    BY <2>1, <2>2, ClosePreserves
<1>2. CASE Gate!WatchFile(s)
  <2>1. PICK answer \in {"allow", "deny"} : answer = Gate!AnswerInFile(s)
    BY DEF Gate!AnswerInFile
  <2>2. Gate!Asked(s) /\ ~slot[s].cancelled /\ Gate!Close(s, answer) /\ agreed' = agreed
    BY <1>2, <2>1 DEF Gate!WatchFile
  <2>3. answer = "allow" => Gate!About(slot[s].call) \in agreed
    BY <2>1, <2>2 DEF Gate!AnswerInFile, GateInv, QuestionsAreFair
  <2> QED
    BY <2>2, <2>3, ClosePreserves
<1>3. CASE Gate!Unanswered(s)
  <2>1. Gate!Asked(s) /\ Gate!Close(s, "deny") /\ agreed' = agreed
    BY <1>3 DEF Gate!Unanswered
  <2> QED
    BY <2>1, ClosePreserves
<1> QED
  BY <1>1, <1>2, <1>3 DEF Gate!Answer

LEMMA GateNext == GateInv /\ [Gate!Next]_gating => GateInv'
<1> SUFFICES ASSUME GateInv, [Gate!Next]_gating
             PROVE  GateInv'
  OBVIOUS
<1>1. CASE UNCHANGED gating
  <2>1. /\ UNCHANGED <<policy, wanted, turn, running, calls, escalations, armed, open, slot, decided, file, cli>>
        /\ UNCHANGED <<memo, grants, stored, agreed, strayed>>
    BY <1>1 DEF gating
  <2>2. GateTypes'
    BY <2>1 DEF GateInv, GateTypes
  <2>3. KeptIsAgreed'
    BY <2>1, KeptStays DEF GateInv
  <2>4. QuestionsAreFair'
    <3>1. \A r \in Slots : Gate!Asked(r)' <=> Gate!Asked(r)
      BY <2>1 DEF Gate!Asked
    <3> QED
      BY <2>1, <3>1, QuestionsStay DEF GateInv
  <2>5. ClockCounts'
    BY <2>1, ClockStays DEF GateInv
  <2>6. DecisionIsTheOwners'
    <3>1. Gate!OffLimits(decided.call)' <=> Gate!OffLimits(decided.call)
      BY <2>1 DEF Gate!OffLimits, Gate!Walled, Gate!Capability, Gate!Enabled
    <3>2. Gate!About(decided.call)' = Gate!About(decided.call)
      BY <2>1 DEF Gate!About, Gate!Standing, Gate!KeptByClaude, Gate!KeptByCodex, Gate!Claude,
                  Gate!OutsideFile, Gate!Capability, Gate!Enabled
    <3>3. Gate!AutoAllowed(decided.call)' <=> Gate!AutoAllowed(decided.call)
      BY <2>1 DEF Gate!AutoAllowed, Gate!Claude
    <3>4. IsAgreed(decided.call)' <=> IsAgreed(decided.call)
      BY <2>1, <3>2, <3>3 DEF IsAgreed
    <3> QED
      BY <2>1, <3>1, <3>4 DEF GateInv, DecisionIsTheOwners
  <2> QED
    BY <2>2, <2>3, <2>4, <2>5, <2>6 DEF GateInv
<1>2. CASE Gate!BeginTurn \/ Gate!EndTurn \/ Gate!ClockFires \/ Gate!Stop \/ Gate!Restart
  BY <1>2, TurnStepsPreserve
<1>3. ASSUME NEW s \in Slots, Gate!Call(s)  PROVE GateInv'
  BY <1>3, CallAsksPreserves, CallAnsweredPreserves DEF Gate!Call
<1>4. ASSUME NEW s \in Slots, Gate!Answer(s)  PROVE GateInv'
  BY <1>4, AnswerPreserves
<1>5. CASE \/ \E s \in Slots : Gate!Approve(s) \/ Gate!Truncate(s) \/ Gate!WriteDecision(s)
           \/ \E k \in Gate!Keys : Gate!Revoke(k)
           \/ \E c \in wanted : Gate!Expire(c)
  BY <1>5, OwnersStepsPreserve
<1> QED
  BY <1>1, <1>2, <1>3, <1>4, <1>5 DEF Gate!Next

LEMMA GateSafe == GateInv => GateHolds
<1> SUFFICES ASSUME GateInv
             PROVE  GateHolds
  OBVIOUS
<1>1. Gate!TypeOK
  <2>1. open \in 0 .. Gate!Cardinality(Slots)
    <3>1. PICK n, m \in Nat : n = Cardinality(Open) /\ m = Cardinality(Slots)
      BY OpenIsFinite, GateAssumption, FS_CardinalityType
    <3>2. open \in Nat /\ open <= n /\ n <= m
      BY <3>1, OpenIsFinite DEF GateInv, ClockCounts
    <3>3. Gate!Cardinality(Slots) = m
      BY <3>1, SameCardinality
    <3> QED
      BY <3>2, <3>3
  <2>2. \A s \in Slots : slot[s] = Gate!Free \/ (slot[s].call \in wanted /\ slot[s].turn \in 1 .. turn)
    BY QuestionFacts DEF GateInv
  <2> QED
    BY <2>1, <2>2 DEF Gate!TypeOK, GateInv, GateTypes, ClockCounts
<1>2. Gate!WallsHold
  BY DEF Gate!WallsHold, GateInv, QuestionsAreFair, DecisionIsTheOwners
<1>3. Gate!AllowedByOwner
  BY DEF Gate!AllowedByOwner, GateInv, DecisionIsTheOwners, IsAgreed
<1>4. Gate!GuestLeavesNothing
  BY DEF Gate!GuestLeavesNothing, GateInv, KeptIsAgreed
<1>5. Gate!ClockWaitsForOwner
  <2> SUFFICES ASSUME Gate!Claude, armed, ~strayed
               PROVE  Own = {}
    BY DEF Gate!ClockWaitsForOwner, Own
  <2>1. Cardinality(Own) = 0
    BY DEF GateInv, ClockCounts
  <2> QED
    BY <2>1, OpenIsFinite, FS_EmptySet
<1>6. Gate!CancelledMeansNo
  BY DEF Gate!CancelledMeansNo, GateInv, DecisionIsTheOwners
<1> QED
  BY <1>1, <1>2, <1>3, <1>4, <1>5, <1>6 DEF GateHolds

-----------------------------------------------------------------------------
(* The agent as a whole.                                                    *)

LEMMA PartsRun ==
    [DmNext]_<<part, vars, gating, hosting, uploading, turning>> =>
        /\ [Gate!Next]_gating
        /\ [Host!Next]_hosting
        /\ [Outbox!Next]_uploading
        /\ [Runtime!Next]_turning
BY DEF DmNext

\* One agent holds the lock and restarts no more often than its limits allow, as long as
\* nobody removed a lock that was in use; every row that was recorded has arrived or still
\* waits, in its order, unless the outbox may be without it; and no visitor is ever in a
\* session of somebody else's, whatever is killed, lost or started again.
THEOREM HostIsSound == DmSpec => []HostSound
<1>1. DmInit => HostInv /\ OutboxInv /\ TurnInv
  BY HostInit, OutboxInit, TurnInit DEF DmInit
<1>2. /\ HostInv /\ OutboxInv /\ TurnInv
      /\ [DmNext]_<<part, vars, gating, hosting, uploading, turning>>
      => (HostInv /\ OutboxInv /\ TurnInv)'
  BY PartsRun, HostNext, OutboxNext, TurnNext
<1>3. HostInv /\ OutboxInv /\ TurnInv => HostSound
  BY HostSafe, OutboxSafe, TurnSafe DEF HostSound
<1> QED
  BY <1>1, <1>2, <1>3, PTL DEF DmSpec

\* Whatever channel the owner answers on, and whatever clock, restart, revocation or late
\* file comes between: a call that is allowed is not off limits and is one the owner agreed
\* to, a guest leaves nothing behind, and the clock waits for the owner.
THEOREM GateAlwaysHolds == DmSpec => []GateHolds
<1>1. DmInit => GateInv
  BY GateInit DEF DmInit
<1>2. GateInv /\ [DmNext]_<<part, vars, gating, hosting, uploading, turning>> => GateInv'
  BY PartsRun, GateNext
<1> QED
  BY <1>1, <1>2, GateSafe, PTL DEF DmSpec
=============================================================================
