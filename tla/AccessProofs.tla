----------------------------- MODULE AccessProofs -----------------------------
(***************************************************************************)
(* The safety of what collaborators may do and how it changes, for any      *)
(* sessions, peers, calls and bounds.                                       *)
(*                                                                          *)
(*   - updates of a relationship: a session that no reset has missed holds  *)
(*     what the file grants, but for those of the peer that is about to be  *)
(*     reset, and the file itself holds what the newest acknowledged update *)
(*     or a later one gave;                                                 *)
(*   - continuations: where an execution is, what was injected and what the *)
(*     owner has answered all follow from the state of the checkpoint,      *)
(*     which only moves on;                                                 *)
(*   - decisions: what a session captured at its launch allows a tool       *)
(*     exactly where one grant of that time does, and a path that passes    *)
(*     this and the boundary of now passes each of them by itself;          *)
(*   - policies: what is in the file, about to be written to it or answered *)
(*     by the control plane accounts for every use, holds every revision    *)
(*     that was handled, and never steps back, whichever process writes.    *)
(***************************************************************************)
EXTENDS MCAccess, SequenceLemmas, FiniteSetTheorems, TLAPS

-----------------------------------------------------------------------------
(* Updates of a relationship (RelationshipUpdates).                         *)

Held == [peer : Peers, holds : {"none", "mcp"}, marked : BOOLEAN, missed : BOOLEAN]

UpdatingTypes ==
    /\ updates \in Seq([peer : Peers, content : {"none", "mcp"}, run : {None} \cup 0 .. MaxRestarts])
    /\ Len(updates) <= MaxUpdates
    /\ file \in [Peers -> {"none", "mcp"}] /\ applied \in 0 .. Len(updates)
    /\ handling \in {"idle", "invalidate", "acknowledge"}
    /\ sessions \in [Sessions -> {None} \cup Held]
    /\ pending \subseteq 1 .. applied /\ acked \subseteq 1 .. applied
    /\ restarts \in 0 .. MaxRestarts /\ ackFaults \in 0 .. MaxAckFaults

\* The event being handled is in the file.
HandledIsWritten ==
    handling # "idle" =>
        /\ applied < Len(updates)
        /\ file[updates[applied + 1].peer] = updates[applied + 1].content

\* p has content c from revision r on, or from a later one.
GivenFrom(p, c, r) == \E k \in r .. Len(updates) : updates[k].peer = p /\ c = updates[k].content

\* The file grants a peer what a revision about to be acknowledged, or a later one, gave.
FileIsCurrent ==
    \A r \in acked \cup pending : \A p \in Peers :
        updates[r].peer = p /\ file[p] # "none" => GivenFrom(p, file[p], r)

\* So does every session that no reset has missed, but while its peer is about to be reset
\* it may still hold what the file had before.
SessionsAreCurrent ==
    \A s \in Sessions :
        sessions[s] # None /\ ~sessions[s].missed /\ sessions[s].holds # "none" =>
            /\ \/ sessions[s].holds = file[sessions[s].peer]
               \/ handling = "invalidate" /\ sessions[s].peer = updates[applied + 1].peer
            /\ \A r \in acked \cup pending :
                  updates[r].peer = sessions[s].peer => GivenFrom(sessions[s].peer, sessions[s].holds, r)

UpdatingInv == UpdatingTypes /\ HandledIsWritten /\ FileIsCurrent /\ SessionsAreCurrent

-----------------------------------------------------------------------------
(* Continuations (Continuation).                                            *)

Checkpoint == [state : Continuing!States, approvalId : BOOLEAN, expected : 0 .. MaxTaskFaults]

ContinuingTypes ==
    /\ asked \in [Calls -> [status : {"none", "pending", "allow", "deny", "expired"},
                            activation : Continuing!Activations, manifest : 0 .. MaxTaskFaults]]
    /\ policies \subseteq Calls /\ resumed \subseteq Calls /\ stored \subseteq Continuing!Turns
    /\ manifest \in 0 .. taskFaults /\ taskFaults \in 0 .. MaxTaskFaults /\ taskCrashes \in 0 .. MaxTaskCrashes
    /\ checkpoint \in [Calls -> Checkpoint \cup {None}]
    /\ events \in Seq([by : Continuing!Turns, type : {"reply", "turn_failed"}])
    /\ bound \in BOOLEAN /\ stopped \in BOOLEAN
    /\ waiter \in [Calls -> {"idle", "asking", "waiting"}]
    /\ step \in [Calls -> {"idle", "quiesce", "rebuild", "resume"}]
    /\ turn \in Continuing!Turns \cup {None} /\ boundary \in {"original", None} \cup Calls
    /\ injected \in [Calls -> Nat]

\* The owner allowed the call, with a folder that covers it.
OwnerAgreed(c) == asked[c].status = "allow" /\ asked[c].activation \in {"covers", "narrow"}

Over == Continuing!Terminal

\* The checkpoint of a call says what may be under way for it.
CheckpointRules(c) ==
    /\ waiter[c] = "asking" => Continuing!StateOf(c) = "awaiting_approval" /\ ~checkpoint[c].approvalId
    /\ waiter[c] = "waiting" => asked[c].status # "none"
    /\ Continuing!StateOf(c) \in Continuing!Recoverable \cup {"completed", "resume_failed"} => OwnerAgreed(c)
    /\ step[c] \in {"quiesce", "rebuild"} => Continuing!StateOf(c) = "rebuilding_session"
    /\ step[c] = "resume" => Continuing!StateOf(c) \in {"resuming", "completed", "resume_failed"}
    /\ turn = c => Continuing!StateOf(c) \notin {None, "awaiting_approval"} /\ OwnerAgreed(c) /\ boundary = c
    /\ step[c] # "idle" => injected[c] = 0
    /\ injected[c] <= 1
    /\ injected[c] = 1 => c \in resumed \/ Continuing!StateOf(c) \in Over
    /\ Continuing!StateOf(c) = "completed" => stored # {}

ContinuingInv ==
    /\ ContinuingTypes
    /\ \A c \in Calls : CheckpointRules(c)
    /\ stopped => stored # {}

-----------------------------------------------------------------------------
(* Updates of a relationship: the proof.                                    *)

UpdateRow == [peer : Peers, content : {"none", "mcp"}, run : {None} \cup 0 .. MaxRestarts]

LEMMA UpdateFacts ==
  ASSUME UpdatingTypes
  PROVE  /\ updates \in Seq(UpdateRow) /\ Len(updates) \in Nat /\ DOMAIN updates = 1 .. Len(updates)
         /\ \A k \in 1 .. Len(updates) : /\ updates[k] \in UpdateRow
                                         /\ updates[k].peer \in Peers /\ updates[k].content \in {"none", "mcp"}
         /\ applied \in Nat /\ applied <= Len(updates)
         /\ applied < Len(updates) => applied + 1 \in 1 .. Len(updates)
<1>1. PICK E : E = UpdateRow
  OBVIOUS
<1>2. updates \in Seq(E)
  BY <1>1 DEF UpdatingTypes, UpdateRow
<1>3. Len(updates) \in Nat /\ DOMAIN updates = 1 .. Len(updates) /\ \A k \in 1 .. Len(updates) : updates[k] \in E
  BY <1>2
<1>4. applied \in 0 .. Len(updates)
  BY DEF UpdatingTypes
<1> QED
  BY <1>1, <1>2, <1>3, <1>4 DEF UpdateRow

LEMMA UpdatingInit == Updating!Init => UpdatingInv
<1> SUFFICES ASSUME Updating!Init
             PROVE  UpdatingInv
  OBVIOUS
<1> USE DEF Updating!Init
<1>1. \A S : <<>> \in Seq(S)
  OBVIOUS
<1>2. MaxUpdates \in Nat /\ MaxRestarts \in Nat /\ MaxAckFaults \in Nat
  BY AccessAssumption DEF AccessAssumption
<1>3. UpdatingTypes
  BY <1>1, <1>2 DEF UpdatingTypes
<1> QED
  BY <1>3 DEF UpdatingInv, HandledIsWritten, FileIsCurrent, SessionsAreCurrent

\* The control plane issues another update: what was given stays given.
LEMMA UpdatePreserves ==
  ASSUME UpdatingInv, NEW p \in Peers, NEW content \in {"none", "mcp"}, NEW only \in BOOLEAN,
         Updating!Update(p, content, only)
  PROVE  UpdatingInv'
<1>0. UpdatingTypes
  BY DEF UpdatingInv
<1>1. /\ updates \in Seq(UpdateRow) /\ Len(updates) \in Nat
      /\ applied \in Nat /\ applied <= Len(updates)
  BY <1>0, UpdateFacts
<1>a. /\ UNCHANGED <<file, applied, handling, sessions, pending, acked, restarts, ackFaults>>
      /\ Len(updates) < MaxUpdates
      /\ updates' = Append(updates, [peer |-> p, content |-> content, run |-> IF only THEN restarts ELSE None])
  BY DEF Updating!Update
<1>2. PICK new : new = [peer |-> p, content |-> content, run |-> IF only THEN restarts ELSE None]
  OBVIOUS
<1>3. new \in UpdateRow
  BY <1>0, <1>2 DEF UpdateRow, UpdatingTypes
<1>4. /\ updates' \in Seq(UpdateRow) /\ Len(updates') = Len(updates) + 1
      /\ \A k \in 1 .. Len(updates) : updates'[k] = updates[k]
  <2>1. PICK E : E = UpdateRow
    OBVIOUS
  <2>2. updates \in Seq(E) /\ new \in E /\ updates' = Append(updates, new)
    BY <1>1, <1>2, <1>3, <1>a, <2>1
  <2> QED
    BY <2>1, <2>2
<1>5. Len(updates') <= MaxUpdates /\ applied \in 0 .. Len(updates')
  <2>1. MaxUpdates \in Nat
    BY AccessAssumption DEF AccessAssumption
  <2> QED
    BY <1>1, <1>4, <1>a, <2>1
<1>6. UpdatingTypes'
  BY <1>0, <1>4, <1>5, <1>a DEF UpdatingTypes, UpdateRow
<1>7. acked \cup pending \subseteq 1 .. applied /\ 1 .. applied \subseteq 1 .. Len(updates)
  BY <1>0, <1>1 DEF UpdatingTypes
<1>8. ASSUME NEW q, NEW c, NEW r \in 1 .. Len(updates), GivenFrom(q, c, r)
      PROVE  GivenFrom(q, c, r)'
  <2>1. PICK k \in r .. Len(updates) : updates[k].peer = q /\ c = updates[k].content
    BY <1>8 DEF GivenFrom
  <2>2. k \in r .. Len(updates') /\ k \in 1 .. Len(updates)
    BY <1>1, <1>4
  <2> QED
    BY <1>4, <2>1, <2>2 DEF GivenFrom
<1>9. FileIsCurrent'
  BY <1>4, <1>7, <1>8, <1>a DEF UpdatingInv, FileIsCurrent
<1>10. handling # "idle" => applied + 1 \in 1 .. Len(updates)
  BY <1>1 DEF UpdatingInv, HandledIsWritten
<1>11. HandledIsWritten'
  BY <1>1, <1>4, <1>10, <1>a DEF UpdatingInv, HandledIsWritten
<1>12. SessionsAreCurrent'
  <2> SUFFICES ASSUME NEW s \in Sessions, sessions[s] # None, ~sessions[s].missed, sessions[s].holds # "none"
               PROVE  /\ \/ sessions[s].holds = file[sessions[s].peer]
                         \/ handling = "invalidate" /\ sessions[s].peer = updates'[applied + 1].peer
                      /\ \A r \in acked \cup pending :
                            updates'[r].peer = sessions[s].peer => GivenFrom(sessions[s].peer, sessions[s].holds, r)'
    BY <1>a DEF SessionsAreCurrent
  <2>1. /\ \/ sessions[s].holds = file[sessions[s].peer]
           \/ handling = "invalidate" /\ sessions[s].peer = updates[applied + 1].peer
        /\ \A r \in acked \cup pending :
              updates[r].peer = sessions[s].peer => GivenFrom(sessions[s].peer, sessions[s].holds, r)
    BY DEF UpdatingInv, SessionsAreCurrent
  <2>2. \A r \in acked \cup pending : updates'[r] = updates[r] /\ r \in 1 .. Len(updates)
    BY <1>4, <1>7
  <2>3. handling = "invalidate" => updates'[applied + 1] = updates[applied + 1]
    BY <1>4, <1>10
  <2>4. PICK q, c : q = sessions[s].peer /\ c = sessions[s].holds /\ q = sessions'[s].peer /\ c = sessions'[s].holds
    BY <1>a
  <2>5. \A r \in acked \cup pending : updates'[r].peer = q => GivenFrom(q, c, r)'
    BY <1>8, <2>1, <2>2, <2>4
  <2>6. \A r \in acked \cup pending :
            updates'[r].peer = sessions[s].peer => GivenFrom(sessions[s].peer, sessions[s].holds, r)'
    BY <2>4, <2>5
  <2> QED
    BY <2>1, <2>3, <2>6
<1> QED
  BY <1>6, <1>9, <1>11, <1>12 DEF UpdatingInv

\* The next update is written to the file, or skipped.
LEMMA ApplyPreserves == UpdatingInv /\ Updating!Apply => UpdatingInv'
<1> SUFFICES ASSUME UpdatingInv, Updating!Apply
             PROVE  UpdatingInv'
  OBVIOUS
<1>0. UpdatingTypes /\ HandledIsWritten /\ FileIsCurrent /\ SessionsAreCurrent
  BY DEF UpdatingInv
<1> DEFINE e == updates[applied + 1]
<1>a. /\ handling = "idle" /\ applied < Len(updates)
      /\ UNCHANGED <<updates, sessions, pending, acked, restarts, ackFaults>>
      /\ \/ applied' = applied + 1 /\ UNCHANGED <<file, handling>>
         \/ /\ file' = [file EXCEPT ![e.peer] = e.content]
            /\ handling' = IF Updating!Changed(e.peer, e.content) THEN "invalidate" ELSE "acknowledge"
            /\ UNCHANGED applied
  BY DEF Updating!Apply, Updating!Next1
<1>1. /\ Len(updates) \in Nat /\ applied \in Nat /\ applied + 1 \in 1 .. Len(updates)
      /\ e.peer \in Peers /\ e.content \in {"none", "mcp"}
  BY <1>0, <1>a, UpdateFacts
<1>2. acked \cup pending \subseteq 1 .. applied
  BY <1>0 DEF UpdatingTypes
<1>g. \A q, c, r : GivenFrom(q, c, r)' <=> GivenFrom(q, c, r)
  BY <1>a DEF GivenFrom
<1>3. CASE applied' = applied + 1 /\ UNCHANGED <<file, handling>>
  <2>1. applied' \in 0 .. Len(updates) /\ 1 .. applied \subseteq 1 .. applied'
    BY <1>1, <1>3
  <2>2. UpdatingTypes'
    BY <1>0, <1>3, <1>a, <2>1 DEF UpdatingTypes
  <2>3. HandledIsWritten' /\ FileIsCurrent'
    BY <1>0, <1>3, <1>a, <1>g DEF HandledIsWritten, FileIsCurrent
  <2>4. SessionsAreCurrent'
    BY <1>0, <1>3, <1>a, <1>g DEF SessionsAreCurrent
  <2> QED
    BY <2>2, <2>3, <2>4 DEF UpdatingInv
<1>4. CASE /\ file' = [file EXCEPT ![e.peer] = e.content]
           /\ handling' = IF Updating!Changed(e.peer, e.content) THEN "invalidate" ELSE "acknowledge"
           /\ UNCHANGED applied
  <2>1. file' \in [Peers -> {"none", "mcp"}] /\ \A p \in Peers : file'[p] = IF p = e.peer THEN e.content ELSE file[p]
    BY <1>0, <1>1, <1>4 DEF UpdatingTypes
  <2>2. handling' \in {"invalidate", "acknowledge"}
    BY <1>4
  <2>3. UpdatingTypes'
    BY <1>0, <1>4, <1>a, <2>1, <2>2 DEF UpdatingTypes
  <2>4. HandledIsWritten'
    BY <1>1, <1>4, <1>a, <2>1 DEF HandledIsWritten
  <2>5. FileIsCurrent'
    <3> SUFFICES ASSUME NEW r \in acked \cup pending, NEW p \in Peers, updates[r].peer = p, file'[p] # "none"
                 PROVE  GivenFrom(p, file'[p], r)
      BY <1>a, <1>g DEF FileIsCurrent
    <3>1. CASE p = e.peer
      <4>1. applied + 1 \in r .. Len(updates)
        BY <1>1, <1>2
      <4> QED
        BY <2>1, <3>1, <4>1 DEF GivenFrom
    <3>2. CASE p # e.peer
      BY <1>0, <2>1, <3>2 DEF FileIsCurrent
    <3> QED
      BY <3>1, <3>2
  <2>6. SessionsAreCurrent'
    <3> SUFFICES ASSUME NEW s \in Sessions, sessions[s] # None, ~sessions[s].missed, sessions[s].holds # "none"
                 PROVE  /\ \/ sessions[s].holds = file'[sessions[s].peer]
                           \/ handling' = "invalidate" /\ sessions[s].peer = e.peer
                        /\ \A r \in acked \cup pending :
                              updates[r].peer = sessions[s].peer => GivenFrom(sessions[s].peer, sessions[s].holds, r)
      BY <1>4, <1>a, <1>g DEF SessionsAreCurrent
    <3>1. /\ sessions[s].holds = file[sessions[s].peer]
          /\ \A r \in acked \cup pending :
                updates[r].peer = sessions[s].peer => GivenFrom(sessions[s].peer, sessions[s].holds, r)
      BY <1>0, <1>a DEF SessionsAreCurrent
    <3>2. sessions[s].peer \in Peers
      BY <1>0 DEF UpdatingTypes, Held
    <3>3. \/ sessions[s].holds = file'[sessions[s].peer]
          \/ handling' = "invalidate" /\ sessions[s].peer = e.peer
      BY <1>4, <2>1, <3>1, <3>2 DEF Updating!Changed
    <3> QED
      BY <3>1, <3>3
  <2> QED
    BY <2>3, <2>4, <2>5, <2>6 DEF UpdatingInv
<1> QED
  BY <1>3, <1>4, <1>a

\* Steps after which no session holds more than before.
LEMMA FewerSessions ==
  ASSUME UpdatingInv, UNCHANGED <<updates, file, applied, acked, pending, handling>>,
         NEW s \in Sessions, NEW new \in {None} \cup Held, sessions' = [sessions EXCEPT ![s] = new],
         new = None \/ (sessions[s] # None /\ new.peer = sessions[s].peer /\ new.holds = sessions[s].holds
                                           /\ new.missed = sessions[s].missed)
  PROVE  HandledIsWritten' /\ FileIsCurrent' /\ SessionsAreCurrent'
<1>g. \A q, c, r : GivenFrom(q, c, r)' <=> GivenFrom(q, c, r)
  BY DEF GivenFrom
<1>1. HandledIsWritten' /\ FileIsCurrent'
  BY <1>g DEF UpdatingInv, HandledIsWritten, FileIsCurrent
<1>2. \A t \in Sessions : sessions'[t] = IF t = s THEN new ELSE sessions[t]
  BY DEF UpdatingInv, UpdatingTypes
<1>3. \A t \in Sessions : sessions'[t] # None =>
          /\ sessions[t] # None
          /\ sessions'[t].peer = sessions[t].peer /\ sessions'[t].holds = sessions[t].holds
          /\ sessions'[t].missed = sessions[t].missed
  BY <1>2
<1>4. SessionsAreCurrent'
  BY <1>3, <1>g DEF UpdatingInv, SessionsAreCurrent
<1> QED
  BY <1>1, <1>4

LEMMA InvalidatePreserves == UpdatingInv /\ Updating!Invalidate => UpdatingInv'
<1> SUFFICES ASSUME UpdatingInv, Updating!Invalidate
             PROVE  UpdatingInv'
  OBVIOUS
<1>0. UpdatingTypes /\ HandledIsWritten /\ FileIsCurrent /\ SessionsAreCurrent
  BY DEF UpdatingInv
<1> DEFINE p == updates[applied + 1].peer
<1>a. /\ handling = "invalidate" /\ handling' = "acknowledge"
      /\ UNCHANGED <<updates, file, applied, pending, acked, restarts, ackFaults>>
      /\ sessions' = [s \in Sessions |->
            IF sessions[s] = None \/ sessions[s].peer # p THEN sessions[s]
            ELSE IF Updating!Of(s, p) THEN None ELSE [sessions[s] EXCEPT !.missed = TRUE]]
  BY DEF Updating!Invalidate, Updating!Next1
<1>g. \A q, c, r : GivenFrom(q, c, r)' <=> GivenFrom(q, c, r)
  BY <1>a DEF GivenFrom
<1>1. \A h \in Held : [h EXCEPT !.missed = TRUE] \in Held /\ [h EXCEPT !.missed = TRUE].missed = TRUE
  BY DEF Held
<1>2. ASSUME NEW s \in Sessions
      PROVE  /\ sessions'[s] \in {None} \cup Held
             /\ \/ sessions'[s] = None
                \/ sessions'[s] # None /\ sessions'[s].missed
                \/ sessions'[s] = sessions[s] /\ sessions[s].peer # p
  <2>1. sessions[s] \in {None} \cup Held
    BY <1>0 DEF UpdatingTypes
  <2>2. CASE sessions[s] = None \/ sessions[s].peer # p
    BY <1>a, <2>1, <2>2
  <2>3. CASE sessions[s] # None /\ sessions[s].peer = p
    BY <1>1, <1>a, <2>1, <2>3
  <2> QED
    BY <2>2, <2>3
<1>3. UpdatingTypes'
  <2>1. sessions' = [s \in Sessions |-> sessions'[s]]
    BY <1>a
  <2>2. sessions' \in [Sessions -> {None} \cup Held]
    BY <1>2, <2>1
  <2> QED
    BY <1>0, <1>a, <2>2 DEF UpdatingTypes
<1>4. HandledIsWritten' /\ FileIsCurrent'
  BY <1>0, <1>a, <1>g DEF HandledIsWritten, FileIsCurrent
<1>5. SessionsAreCurrent'
  <2> SUFFICES ASSUME NEW s \in Sessions, sessions'[s] # None, ~sessions'[s].missed, sessions'[s].holds # "none"
               PROVE  /\ sessions'[s].holds = file[sessions'[s].peer]
                      /\ \A r \in acked \cup pending :
                            updates[r].peer = sessions'[s].peer => GivenFrom(sessions'[s].peer, sessions'[s].holds, r)
    BY <1>a, <1>g DEF SessionsAreCurrent
  <2>1. sessions'[s] = sessions[s] /\ sessions[s].peer # p
    BY <1>2
  <2> QED
    BY <1>0, <2>1 DEF SessionsAreCurrent
<1> QED
  BY <1>3, <1>4, <1>5 DEF UpdatingInv

\* A handled revision is queued: every session that no reset has missed has what the file has.
LEMMA AcknowledgePreserves == UpdatingInv /\ Updating!Acknowledge => UpdatingInv'
<1> SUFFICES ASSUME UpdatingInv, Updating!Acknowledge
             PROVE  UpdatingInv'
  OBVIOUS
<1>0. UpdatingTypes /\ HandledIsWritten /\ FileIsCurrent /\ SessionsAreCurrent
  BY DEF UpdatingInv
<1>a. /\ handling = "acknowledge" /\ handling' = "idle"
      /\ pending' = pending \cup {applied + 1} /\ applied' = applied + 1
      /\ UNCHANGED <<updates, file, sessions, acked, restarts, ackFaults>>
  BY DEF Updating!Acknowledge
<1>1. /\ applied < Len(updates) /\ applied + 1 \in 1 .. Len(updates) /\ Len(updates) \in Nat /\ applied \in Nat
      /\ file[updates[applied + 1].peer] = updates[applied + 1].content
  BY <1>0, <1>a, UpdateFacts DEF HandledIsWritten
<1>g. \A q, c, r : GivenFrom(q, c, r)' <=> GivenFrom(q, c, r)
  BY <1>a DEF GivenFrom
<1>2. GivenFrom(updates[applied + 1].peer, updates[applied + 1].content, applied + 1)
  BY <1>1 DEF GivenFrom
<1>3. UpdatingTypes'
  <2>1. /\ applied' \in 0 .. Len(updates) /\ 1 .. applied \subseteq 1 .. applied' /\ applied + 1 \in 1 .. applied'
    BY <1>1, <1>a
  <2> QED
    BY <1>0, <1>a, <2>1 DEF UpdatingTypes
<1>4. HandledIsWritten'
  BY <1>a DEF HandledIsWritten
<1>5. FileIsCurrent'
  BY <1>0, <1>1, <1>2, <1>a, <1>g DEF FileIsCurrent
<1>6. SessionsAreCurrent'
  <2> SUFFICES ASSUME NEW s \in Sessions, sessions[s] # None, ~sessions[s].missed, sessions[s].holds # "none"
               PROVE  /\ sessions[s].holds = file[sessions[s].peer]
                      /\ \A r \in acked \cup pending \cup {applied + 1} :
                            updates[r].peer = sessions[s].peer => GivenFrom(sessions[s].peer, sessions[s].holds, r)
    BY <1>a, <1>g DEF SessionsAreCurrent
  <2>1. /\ sessions[s].holds = file[sessions[s].peer]
        /\ \A r \in acked \cup pending :
              updates[r].peer = sessions[s].peer => GivenFrom(sessions[s].peer, sessions[s].holds, r)
    BY <1>0, <1>a DEF SessionsAreCurrent
  <2> QED
    BY <1>1, <1>2, <2>1
<1> QED
  BY <1>3, <1>4, <1>5, <1>6 DEF UpdatingInv

LEMMA UpdatingNext == UpdatingInv /\ [Updating!Next]_updating => UpdatingInv'
<1> SUFFICES ASSUME UpdatingInv, [Updating!Next]_updating
             PROVE  UpdatingInv'
  OBVIOUS
<1>0. UpdatingTypes /\ HandledIsWritten /\ FileIsCurrent /\ SessionsAreCurrent
  BY DEF UpdatingInv
<1>1. ASSUME NEW p \in Peers, NEW content \in {"none", "mcp"}, NEW only \in BOOLEAN, Updating!Update(p, content, only)
      PROVE  UpdatingInv'
  BY <1>1, UpdatePreserves
<1>2. CASE Updating!Crash
  <2>1. /\ restarts < MaxRestarts /\ restarts' = restarts + 1
        /\ file' \in {file, [p \in Peers |-> "none"]}
        /\ handling' = "idle" /\ sessions' = [s \in Sessions |-> None] /\ pending' = {}
        /\ UNCHANGED <<updates, applied, acked, ackFaults>>
    BY <1>2 DEF Updating!Crash
  <2>2. restarts' \in 0 .. MaxRestarts
    BY <1>0, <2>1, AccessAssumption DEF UpdatingTypes, AccessAssumption
  <2>3. UpdatingTypes'
    BY <1>0, <2>1, <2>2 DEF UpdatingTypes
  <2>g. \A q, c, r : GivenFrom(q, c, r)' <=> GivenFrom(q, c, r)
    BY <2>1 DEF GivenFrom
  <2>4. HandledIsWritten' /\ SessionsAreCurrent'
    BY <2>1 DEF HandledIsWritten, SessionsAreCurrent
  <2>5. \A p \in Peers : file'[p] # "none" => file'[p] = file[p]
    BY <2>1
  <2>6. FileIsCurrent'
    BY <1>0, <2>1, <2>5, <2>g DEF FileIsCurrent
  <2> QED
    BY <2>3, <2>4, <2>6 DEF UpdatingInv
<1>3. ASSUME NEW r \in Updating!Revisions, Updating!Flush(r)
      PROVE  UpdatingInv'
  <2>1. /\ pending' \subseteq pending /\ acked' = acked \cup {r} /\ r \in pending
        /\ ackFaults' = ackFaults \/ (ackFaults < MaxAckFaults /\ ackFaults' = ackFaults + 1)
        /\ UNCHANGED <<updates, file, applied, handling, sessions, restarts>>
    BY <1>3 DEF Updating!Flush
  <2>2. ackFaults' \in 0 .. MaxAckFaults
    BY <1>0, <2>1, AccessAssumption DEF UpdatingTypes, AccessAssumption
  <2>3. UpdatingTypes'
    BY <1>0, <2>1, <2>2 DEF UpdatingTypes
  <2>g. \A q, c, k : GivenFrom(q, c, k)' <=> GivenFrom(q, c, k)
    BY <2>1 DEF GivenFrom
  <2>4. HandledIsWritten' /\ FileIsCurrent'
    BY <1>0, <2>1, <2>g DEF HandledIsWritten, FileIsCurrent
  <2>5. SessionsAreCurrent'
    BY <1>0, <2>1, <2>g DEF SessionsAreCurrent
  <2> QED
    BY <2>3, <2>4, <2>5 DEF UpdatingInv
<1>4. ASSUME NEW s \in Sessions, Updating!Stop(s)
      PROVE  UpdatingInv'
  <2>1. /\ sessions' = [sessions EXCEPT ![s] = None]
        /\ UNCHANGED <<updates, file, applied, handling, pending, acked, restarts, ackFaults>>
    BY <1>4 DEF Updating!Stop
  <2>2. UpdatingTypes'
    BY <1>0, <2>1 DEF UpdatingTypes
  <2>3. HandledIsWritten' /\ FileIsCurrent' /\ SessionsAreCurrent'
    BY <2>1, FewerSessions
  <2> QED
    BY <2>2, <2>3 DEF UpdatingInv
<1>5. ASSUME NEW s \in Sessions, Updating!LaunchEnds(s)
      PROVE  UpdatingInv'
  <2>1. PICK new : new = [sessions[s] EXCEPT !.marked = TRUE]
    OBVIOUS
  <2>2. /\ sessions' = [sessions EXCEPT ![s] = new] /\ sessions[s] # None
        /\ UNCHANGED <<updates, file, applied, handling, pending, acked, restarts, ackFaults>>
    BY <1>5, <2>1 DEF Updating!LaunchEnds
  <2>3. sessions[s] \in Held
    BY <1>0, <2>2 DEF UpdatingTypes
  <2>4. /\ new \in Held /\ new.peer = sessions[s].peer /\ new.holds = sessions[s].holds
        /\ new.missed = sessions[s].missed
    BY <2>1, <2>3 DEF Held
  <2>5. UpdatingTypes'
    BY <1>0, <2>2, <2>4 DEF UpdatingTypes
  <2>6. HandledIsWritten' /\ FileIsCurrent' /\ SessionsAreCurrent'
    BY <2>2, <2>4, FewerSessions
  <2> QED
    BY <2>5, <2>6 DEF UpdatingInv
<1>6. ASSUME NEW s \in Sessions, NEW p \in Peers, Updating!Launch(s, p)
      PROVE  UpdatingInv'
  <2>1. PICK new : new = [peer |-> p, holds |-> file[p], marked |-> s \in Codex, missed |-> FALSE]
    OBVIOUS
  <2>2. /\ sessions' = [sessions EXCEPT ![s] = new]
        /\ UNCHANGED <<updates, file, applied, handling, pending, acked, restarts, ackFaults>>
    BY <1>6, <2>1 DEF Updating!Launch
  <2>3. file[p] \in {"none", "mcp"}
    BY <1>0 DEF UpdatingTypes
  <2>4. new \in Held /\ new.peer = p /\ new.holds = file[p] /\ ~new.missed
    <3>1. (s \in Codex) \in BOOLEAN
      OBVIOUS
    <3>2. PICK b \in BOOLEAN : b = (s \in Codex)
      BY <3>1
    <3>3. new = [peer |-> p, holds |-> file[p], marked |-> b, missed |-> FALSE]
      BY <2>1, <3>2
    <3> QED
      BY <2>3, <3>3 DEF Held
  <2>5. UpdatingTypes'
    BY <1>0, <2>2, <2>4 DEF UpdatingTypes
  <2>g. \A q, c, r : GivenFrom(q, c, r)' <=> GivenFrom(q, c, r)
    BY <2>2 DEF GivenFrom
  <2>6. HandledIsWritten' /\ FileIsCurrent'
    BY <1>0, <2>2, <2>g DEF HandledIsWritten, FileIsCurrent
  <2>7. \A t \in Sessions : sessions'[t] = IF t = s THEN new ELSE sessions[t]
    BY <1>0, <2>2 DEF UpdatingTypes
  <2>8. \A r \in acked \cup pending : updates[r].peer = p /\ file[p] # "none" => GivenFrom(p, file[p], r)
    BY <1>0 DEF FileIsCurrent
  <2>9. SessionsAreCurrent'
    <3> SUFFICES ASSUME NEW t \in Sessions, sessions'[t] # None, ~sessions'[t].missed, sessions'[t].holds # "none"
                 PROVE  /\ \/ sessions'[t].holds = file[sessions'[t].peer]
                           \/ handling = "invalidate" /\ sessions'[t].peer = updates[applied + 1].peer
                        /\ \A r \in acked \cup pending :
                              updates[r].peer = sessions'[t].peer => GivenFrom(sessions'[t].peer, sessions'[t].holds, r)
      BY <2>2, <2>g DEF SessionsAreCurrent
    <3>1. CASE t = s
      BY <2>4, <2>7, <2>8, <3>1
    <3>2. CASE t # s
      BY <1>0, <2>7, <3>2 DEF SessionsAreCurrent
    <3> QED
      BY <3>1, <3>2
  <2> QED
    BY <2>5, <2>6, <2>9 DEF UpdatingInv
<1>7. CASE UNCHANGED updating
  <2>1. UNCHANGED <<updates, file, applied, handling, sessions, pending, acked, restarts, ackFaults>>
    BY <1>7 DEF updating
  <2>g. \A q, c, r : GivenFrom(q, c, r)' <=> GivenFrom(q, c, r)
    BY <2>1 DEF GivenFrom
  <2>2. UpdatingTypes' /\ HandledIsWritten' /\ FileIsCurrent'
    BY <1>0, <2>1, <2>g DEF UpdatingTypes, HandledIsWritten, FileIsCurrent
  <2>3. SessionsAreCurrent'
    BY <1>0, <2>1, <2>g DEF SessionsAreCurrent
  <2> QED
    BY <2>2, <2>3 DEF UpdatingInv
<1> QED
  BY <1>1, <1>2, <1>3, <1>4, <1>5, <1>6, <1>7, ApplyPreserves, InvalidatePreserves, AcknowledgePreserves
  DEF Updating!Next

LEMMA UpdatingSafe == UpdatingInv => NothingRevokedIsKept
<1> SUFFICES ASSUME UpdatingInv, NEW s \in Sessions, sessions[s] # None, ~sessions[s].missed,
                    sessions[s].holds # "none"
             PROVE  /\ handling # "invalidate" => sessions[s].holds = file[sessions[s].peer]
                    /\ \A r \in acked : updates[r].peer = sessions[s].peer =>
                         \E k \in r .. Len(updates) :
                            updates[k].peer = sessions[s].peer /\ sessions[s].holds = updates[k].content
  BY DEF NothingRevokedIsKept, Updating!NothingRevokedIsKept, Updating!Holds
<1> QED
  BY DEF UpdatingInv, SessionsAreCurrent, GivenFrom

-----------------------------------------------------------------------------
(* Continuations: what one mark changes.                                    *)

\* None, the calls, the other turns and the states are told apart.
LEMMA ContinuationNames ==
  /\ None \notin Continuing!States /\ None \notin Checkpoint /\ None \notin Calls
  /\ "original" \notin Calls /\ "other" \notin Calls /\ None # "original" /\ None # "other"
  /\ MaxTaskFaults \in Nat /\ MaxTaskCrashes \in Nat
BY AccessAssumption DEF AccessAssumption, Checkpoint

\* Where a state comes in the life of a continuation.
LEMMA Ranks ==
  /\ Continuing!Rank(None) = 0 /\ Continuing!Rank("awaiting_approval") = 1
  /\ Continuing!Rank("approved_pending_activation") = 2 /\ Continuing!Rank("rebuilding_session") = 3
  /\ Continuing!Rank("resuming") = 4
  /\ \A s \in Over : Continuing!Rank(s) = 5
BY ContinuationNames DEF Continuing!Rank, Over, Continuing!Terminal, Continuing!States, Continuing!Recoverable

\* The state of a call that has a checkpoint is one of the states.
LEMMA StateIsKnown ==
  ASSUME ContinuingTypes, NEW c \in Calls
  PROVE  /\ Continuing!StateOf(c) \in Continuing!States \cup {None}
         /\ Continuing!StateOf(c) = None <=> checkpoint[c] = None
         /\ checkpoint[c] # None => checkpoint[c] \in Checkpoint /\ Continuing!StateOf(c) = checkpoint[c].state
<1>1. checkpoint[c] \in Checkpoint \cup {None}
  BY DEF ContinuingTypes
<1> QED
  BY <1>1, ContinuationNames DEF Continuing!StateOf, Checkpoint

\* A checkpoint that gets another state moves alone.
LEMMA OneMoves ==
  ASSUME ContinuingTypes, NEW c \in Calls, NEW new \in Checkpoint,
         checkpoint' = [checkpoint EXCEPT ![c] = new]
  PROVE  /\ checkpoint' \in [Calls -> Checkpoint \cup {None}]
         /\ \A d \in Calls \ {c} : checkpoint'[d] = checkpoint[d] /\ Continuing!StateOf(d)' = Continuing!StateOf(d)
         /\ checkpoint'[c] = new /\ Continuing!StateOf(c)' = new.state
<1>1. checkpoint \in [Calls -> Checkpoint \cup {None}]
  BY DEF ContinuingTypes
<1>2. checkpoint' \in [Calls -> Checkpoint \cup {None}] /\ checkpoint'[c] = new
  BY <1>1
<1>3. \A d \in Calls \ {c} : checkpoint'[d] = checkpoint[d]
  BY <1>1
<1> QED
  BY <1>2, <1>3, ContinuationNames DEF Continuing!StateOf

\* A mark in the right state changes it, and any other leaves every checkpoint.
LEMMA MarkMoves ==
  ASSUME ContinuingTypes, NEW c \in Calls, NEW from \in SUBSET Continuing!States, NEW to \in Continuing!States,
         checkpoint' = Continuing!Marked(checkpoint, c, from, to)
  PROVE  /\ checkpoint' \in [Calls -> Checkpoint \cup {None}]
         /\ \A d \in Calls \ {c} : checkpoint'[d] = checkpoint[d] /\ Continuing!StateOf(d)' = Continuing!StateOf(d)
         /\ Continuing!StateOf(c) \in from =>
              /\ Continuing!StateOf(c)' = to /\ checkpoint'[c] # None
              /\ checkpoint'[c].approvalId = checkpoint[c].approvalId
         /\ Continuing!StateOf(c) \notin from =>
              checkpoint'[c] = checkpoint[c] /\ Continuing!StateOf(c)' = Continuing!StateOf(c)
<1>1. CASE Continuing!StateOf(c) \in from
  <2>1. checkpoint[c] # None /\ checkpoint[c] \in Checkpoint /\ checkpoint[c].state \in from
    BY <1>1, StateIsKnown, ContinuationNames
  <2>2. checkpoint' = [checkpoint EXCEPT ![c].state = to]
    BY <2>1 DEF Continuing!Marked
  <2>3. PICK new : new = [checkpoint[c] EXCEPT !.state = to]
    OBVIOUS
  <2>4. new \in Checkpoint /\ new.state = to /\ new.approvalId = checkpoint[c].approvalId
    BY <2>1, <2>3 DEF Checkpoint
  <2>5. checkpoint' = [checkpoint EXCEPT ![c] = new]
    BY <2>2, <2>3
  <2>6. /\ checkpoint' \in [Calls -> Checkpoint \cup {None}]
        /\ \A d \in Calls \ {c} : checkpoint'[d] = checkpoint[d] /\ Continuing!StateOf(d)' = Continuing!StateOf(d)
        /\ checkpoint'[c] = new /\ Continuing!StateOf(c)' = new.state
    BY <2>4, <2>5, OneMoves
  <2>7. new # None
    BY <2>4, ContinuationNames
  <2> QED
    BY <1>1, <2>4, <2>6, <2>7
<1>2. CASE Continuing!StateOf(c) \notin from
  <2>1. ~(checkpoint[c] # None /\ checkpoint[c].state \in from)
    BY <1>2, StateIsKnown
  <2>2. checkpoint' = checkpoint
    BY <2>1 DEF Continuing!Marked
  <2> QED
    BY <1>2, <2>2 DEF ContinuingTypes, Continuing!StateOf
<1> QED
  BY <1>1, <1>2

\* An approved checkpoint remembers the manifest that was attested.
LEMMA ApprovalMoves ==
  ASSUME ContinuingTypes, NEW c \in Calls, Continuing!StateOf(c) = "awaiting_approval",
         NEW s \in Continuing!States, checkpoint' = [Continuing!Approved(c) EXCEPT ![c].state = s]
  PROVE  /\ checkpoint' \in [Calls -> Checkpoint \cup {None}]
         /\ \A d \in Calls \ {c} : checkpoint'[d] = checkpoint[d] /\ Continuing!StateOf(d)' = Continuing!StateOf(d)
         /\ Continuing!StateOf(c)' = s /\ checkpoint'[c] # None
<1>1. checkpoint[c] \in Checkpoint /\ checkpoint[c] # None
  BY StateIsKnown, ContinuationNames DEF Continuing!States
<1>2. checkpoint \in [Calls -> Checkpoint \cup {None}] /\ asked[c].manifest \in 0 .. MaxTaskFaults
  BY DEF ContinuingTypes
<1>3. PICK new : new = [[checkpoint[c] EXCEPT !.state = "approved_pending_activation", !.expected = asked[c].manifest]
                          EXCEPT !.state = s]
  OBVIOUS
<1>4. new \in Checkpoint /\ new.state = s
  BY <1>1, <1>2, <1>3 DEF Checkpoint, Continuing!States
<1>5. checkpoint' = [checkpoint EXCEPT ![c] = new]
  BY <1>2, <1>3 DEF Continuing!Approved
<1> QED
  BY <1>4, <1>5, OneMoves, ContinuationNames

-----------------------------------------------------------------------------
(* Continuations: what no step on another call disturbs.                    *)

LEMMA RulesKept ==
  ASSUME NEW d \in Calls, CheckpointRules(d),
         asked'[d] = asked[d], checkpoint'[d] = checkpoint[d], waiter'[d] = waiter[d], step'[d] = step[d],
         injected'[d] = injected[d], d \in resumed => d \in resumed', stored \subseteq stored',
         turn' = d => turn = d /\ boundary' = boundary
  PROVE  CheckpointRules(d)'
BY DEF CheckpointRules, OwnerAgreed, Over, Continuing!StateOf

\* A step that keeps the checkpoints is not a step back.
LEMMA NothingMoves ==
  ASSUME checkpoint' = checkpoint
  PROVE  Continuing!NeverBack
BY DEF Continuing!NeverBack, Continuing!StateOf

\* Neither is one that moves a single call on.
LEMMA OneMovesOn ==
  ASSUME NEW c \in Calls,
         \A d \in Calls \ {c} : Continuing!StateOf(d)' = Continuing!StateOf(d),
         \/ Continuing!StateOf(c)' = Continuing!StateOf(c)
         \/ Continuing!Rank(Continuing!StateOf(c)') > Continuing!Rank(Continuing!StateOf(c))
  PROVE  Continuing!NeverBack
BY DEF Continuing!NeverBack

LEMMA ContinuingInit == Continuing!Init => ContinuingInv
<1> SUFFICES ASSUME Continuing!Init
             PROVE  ContinuingInv
  OBVIOUS
<1> USE DEF Continuing!Init
<1>1. \A S : <<>> \in Seq(S)
  OBVIOUS
<1>2. ContinuingTypes
  <2>1. /\ policies \subseteq Calls /\ resumed \subseteq Calls /\ stored \subseteq Continuing!Turns
        /\ manifest \in 0 .. taskFaults /\ taskFaults \in 0 .. MaxTaskFaults /\ taskCrashes \in 0 .. MaxTaskCrashes
    BY ContinuationNames
  <2>2. /\ checkpoint \in [Calls -> Checkpoint \cup {None}]
        /\ waiter \in [Calls -> {"idle", "asking", "waiting"}]
        /\ step \in [Calls -> {"idle", "quiesce", "rebuild", "resume"}]
        /\ injected \in [Calls -> Nat]
    OBVIOUS
  <2>3. asked \in [Calls -> [status : {"none", "pending", "allow", "deny", "expired"},
                            activation : Continuing!Activations, manifest : 0 .. MaxTaskFaults]]
    BY ContinuationNames DEF Continuing!NotAsked, Continuing!Activations
  <2>4. turn \in Continuing!Turns \cup {None} /\ boundary \in {"original", None} \cup Calls
    BY DEF Continuing!Turns
  <2> QED
    BY <1>1, <2>1, <2>2, <2>3, <2>4 DEF ContinuingTypes
<1>3. \A c \in Calls : CheckpointRules(c)
  BY ContinuationNames DEF CheckpointRules, Continuing!StateOf, Continuing!States, Continuing!Recoverable, Continuing!Terminal
<1> QED
  BY <1>2, <1>3 DEF ContinuingInv

-----------------------------------------------------------------------------
(* Continuations: the control plane and the waiting call.                   *)

\* The owner's answer concerns one call that has been asked for and is not yet taken up.
LEMMA AnswerPreserves ==
  ASSUME ContinuingInv, NEW c \in Calls, asked[c].status = "pending", NEW answer,
         answer \in [status : {"allow", "deny", "expired"}, activation : Continuing!Activations,
                     manifest : 0 .. MaxTaskFaults],
         asked' = [asked EXCEPT ![c] = answer], policies' \subseteq Calls,
         UNCHANGED <<manifest, checkpoint, events, stored, bound, waiter, step, resumed, turn, boundary,
                     stopped, injected, taskCrashes, taskFaults>>
  PROVE  ContinuingInv' /\ Continuing!NeverBack
<1>0. ContinuingTypes /\ (\A d \in Calls : CheckpointRules(d)) /\ (stopped => stored # {})
  BY DEF ContinuingInv
<1>1. asked' \in [Calls -> [status : {"none", "pending", "allow", "deny", "expired"},
                            activation : Continuing!Activations, manifest : 0 .. MaxTaskFaults]]
  <2>1. answer \in [status : {"none", "pending", "allow", "deny", "expired"},
                    activation : Continuing!Activations, manifest : 0 .. MaxTaskFaults]
    OBVIOUS
  <2> QED
    BY <1>0, <2>1 DEF ContinuingTypes
<1>2. ContinuingTypes'
  BY <1>0, <1>1 DEF ContinuingTypes
<1>3. asked'[c] = answer /\ \A d \in Calls \ {c} : asked'[d] = asked[d]
  BY <1>0 DEF ContinuingTypes
<1>4. \A d \in Calls \ {c} : CheckpointRules(d)'
  BY <1>0, <1>3, RulesKept
<1>5. CheckpointRules(c)'
  <2>1. CheckpointRules(c) /\ ~OwnerAgreed(c)
    BY <1>0 DEF OwnerAgreed
  <2>2. answer.status # "none"
    OBVIOUS
  <2> QED
    BY <1>3, <2>1, <2>2 DEF CheckpointRules, Continuing!StateOf, Over
<1> QED
  BY <1>0, <1>2, <1>4, <1>5, NothingMoves DEF ContinuingInv

LEMMA PolicyArrivesPreserves ==
  ASSUME ContinuingInv, NEW c \in Calls, NEW activation \in Continuing!Activations,
         Continuing!PolicyArrives(c, activation)
  PROVE  ContinuingInv' /\ Continuing!NeverBack
<1>0. ContinuingTypes
  BY DEF ContinuingInv
<1>1. /\ asked[c].status = "pending" /\ policies' = policies \cup {c}
      /\ asked' = [asked EXCEPT ![c] = [status |-> "allow", activation |-> activation, manifest |-> manifest]]
      /\ UNCHANGED <<manifest, checkpoint, events, stored, bound, waiter, step, resumed, turn, boundary,
                     stopped, injected, taskCrashes, taskFaults>>
  BY DEF Continuing!PolicyArrives, Continuing!external
<1>2. PICK answer : answer = [status |-> "allow", activation |-> activation, manifest |-> manifest]
  OBVIOUS
<1>3. policies' \subseteq Calls /\ manifest \in 0 .. MaxTaskFaults
  BY <1>0, <1>1, ContinuationNames DEF ContinuingTypes
<1> QED
  BY <1>1, <1>2, <1>3, AnswerPreserves

LEMMA ApprovalEndsPreserves ==
  ASSUME ContinuingInv, NEW c \in Calls, NEW activation \in Continuing!Activations,
         NEW status \in {"allow", "deny", "expired"}, Continuing!ApprovalEnds(c, status, activation)
  PROVE  ContinuingInv' /\ Continuing!NeverBack
<1>0. ContinuingTypes
  BY DEF ContinuingInv
<1>1. /\ asked[c].status = "pending" /\ policies' = policies
      /\ asked' = [asked EXCEPT ![c] = [status |-> status, activation |-> activation, manifest |-> manifest]]
      /\ UNCHANGED <<manifest, checkpoint, events, stored, bound, waiter, step, resumed, turn, boundary,
                     stopped, injected, taskCrashes, taskFaults>>
  BY DEF Continuing!ApprovalEnds, Continuing!external
<1>2. PICK answer : answer = [status |-> status, activation |-> activation, manifest |-> manifest]
  OBVIOUS
<1>3. policies' \subseteq Calls /\ manifest \in 0 .. MaxTaskFaults
  BY <1>0, <1>1, ContinuationNames DEF ContinuingTypes
<1> QED
  BY <1>1, <1>2, <1>3, AnswerPreserves

LEMMA RequestPreserves ==
  ASSUME ContinuingInv, NEW c \in Calls, Continuing!Request(c)
  PROVE  ContinuingInv' /\ Continuing!NeverBack
<1>0. ContinuingTypes /\ (\A d \in Calls : CheckpointRules(d)) /\ (stopped => stored # {})
  BY DEF ContinuingInv
<1>1. /\ turn = "original" /\ waiter[c] = "idle" /\ checkpoint[c] = None
      /\ checkpoint' = [checkpoint EXCEPT
           ![c] = [state |-> "awaiting_approval", approvalId |-> FALSE, expected |-> 0]]
      /\ waiter' = [waiter EXCEPT ![c] = "asking"]
      /\ UNCHANGED <<asked, policies, manifest, events, stored, bound, step, resumed, turn, boundary,
                     stopped, injected, taskCrashes, taskFaults>>
  BY DEF Continuing!Request, Continuing!waiting
<1>2. PICK new : new = [state |-> "awaiting_approval", approvalId |-> FALSE, expected |-> 0]
  OBVIOUS
<1>3. new \in Checkpoint /\ new.state = "awaiting_approval" /\ ~new.approvalId
  BY <1>2, ContinuationNames DEF Checkpoint, Continuing!States
<1>4. /\ checkpoint' \in [Calls -> Checkpoint \cup {None}]
      /\ \A d \in Calls \ {c} : checkpoint'[d] = checkpoint[d] /\ Continuing!StateOf(d)' = Continuing!StateOf(d)
      /\ checkpoint'[c] = new /\ Continuing!StateOf(c)' = "awaiting_approval"
  BY <1>0, <1>1, <1>2, <1>3, OneMoves
<1>5. /\ waiter' \in [Calls -> {"idle", "asking", "waiting"}] /\ waiter'[c] = "asking"
      /\ \A d \in Calls \ {c} : waiter'[d] = waiter[d]
  BY <1>0, <1>1 DEF ContinuingTypes
<1>6. ContinuingTypes'
  BY <1>0, <1>1, <1>4, <1>5 DEF ContinuingTypes
<1>7. Continuing!StateOf(c) = None
  BY <1>1 DEF Continuing!StateOf
<1>8. \A d \in Calls \ {c} : CheckpointRules(d)'
  BY <1>0, <1>1, <1>4, <1>5, RulesKept
<1>9. CheckpointRules(c)'
  <2>1. CheckpointRules(c)
    BY <1>0
  <2> QED
    BY <1>1, <1>3, <1>4, <1>5, <1>7, <2>1, ContinuationNames
    DEF CheckpointRules, OwnerAgreed, Over, Continuing!States, Continuing!Recoverable, Continuing!Terminal
<1>10. Continuing!NeverBack
  BY <1>4, <1>7, OneMovesOn, Ranks
<1> QED
  BY <1>0, <1>1, <1>6, <1>8, <1>9, <1>10 DEF ContinuingInv

LEMMA RequestedPreserves ==
  ASSUME ContinuingInv, NEW c \in Calls, Continuing!Requested(c)
  PROVE  ContinuingInv' /\ Continuing!NeverBack
<1>0. ContinuingTypes /\ (\A d \in Calls : CheckpointRules(d)) /\ (stopped => stored # {})
  BY DEF ContinuingInv
<1>1. /\ waiter[c] = "asking"
      /\ asked' = [asked EXCEPT ![c].status = "pending"]
      /\ checkpoint' = [checkpoint EXCEPT ![c].approvalId = TRUE]
      /\ waiter' = [waiter EXCEPT ![c] = "waiting"]
      /\ UNCHANGED <<policies, manifest, events, stored, bound, step, resumed, turn, boundary,
                     stopped, injected, taskCrashes, taskFaults>>
  BY DEF Continuing!Requested, Continuing!waiting
<1>2. CheckpointRules(c) /\ Continuing!StateOf(c) = "awaiting_approval"
  BY <1>0, <1>1 DEF CheckpointRules
<1>3. checkpoint[c] \in Checkpoint /\ checkpoint[c].state = "awaiting_approval"
  BY <1>0, <1>2, StateIsKnown, ContinuationNames DEF Continuing!States
<1>4. PICK new : new = [checkpoint[c] EXCEPT !.approvalId = TRUE]
  OBVIOUS
<1>5. new \in Checkpoint /\ new.state = "awaiting_approval"
  BY <1>3, <1>4 DEF Checkpoint
<1>6. /\ checkpoint' \in [Calls -> Checkpoint \cup {None}]
      /\ \A d \in Calls \ {c} : checkpoint'[d] = checkpoint[d] /\ Continuing!StateOf(d)' = Continuing!StateOf(d)
      /\ checkpoint'[c] = new /\ Continuing!StateOf(c)' = "awaiting_approval"
  BY <1>0, <1>1, <1>4, <1>5, OneMoves
<1>7. /\ waiter' \in [Calls -> {"idle", "asking", "waiting"}] /\ waiter'[c] = "waiting"
      /\ \A d \in Calls \ {c} : waiter'[d] = waiter[d]
  BY <1>0, <1>1 DEF ContinuingTypes
<1>8. /\ asked' \in [Calls -> [status : {"none", "pending", "allow", "deny", "expired"},
                               activation : Continuing!Activations, manifest : 0 .. MaxTaskFaults]]
      /\ asked'[c].status = "pending" /\ \A d \in Calls \ {c} : asked'[d] = asked[d]
  BY <1>0, <1>1 DEF ContinuingTypes
<1>9. ContinuingTypes'
  BY <1>0, <1>1, <1>6, <1>7, <1>8 DEF ContinuingTypes
<1>10. \A d \in Calls \ {c} : CheckpointRules(d)'
  BY <1>0, <1>1, <1>6, <1>7, <1>8, RulesKept
<1>11. CheckpointRules(c)'
  BY <1>1, <1>2, <1>6, <1>7, <1>8, ContinuationNames
  DEF CheckpointRules, OwnerAgreed, Over, Continuing!States, Continuing!Recoverable, Continuing!Terminal
<1>12. Continuing!NeverBack
  BY <1>2, <1>6, OneMovesOn
<1> QED
  BY <1>0, <1>1, <1>9, <1>10, <1>11, <1>12 DEF ContinuingInv

LEMMA RequestFailsPreserves ==
  ASSUME ContinuingInv, NEW c \in Calls, Continuing!RequestFails(c)
  PROVE  ContinuingInv' /\ Continuing!NeverBack
<1>0. ContinuingTypes /\ (\A d \in Calls : CheckpointRules(d)) /\ (stopped => stored # {})
  BY DEF ContinuingInv
<1>1. /\ taskFaults < MaxTaskFaults /\ taskFaults' = taskFaults + 1 /\ waiter[c] = "asking"
      /\ \E s \in {"none", "pending"} : asked' = [asked EXCEPT ![c].status = s]
      /\ checkpoint' = Continuing!Marked(checkpoint, c, {"awaiting_approval"}, "approval_delivery_failed")
      /\ waiter' = [waiter EXCEPT ![c] = "idle"]
      /\ UNCHANGED <<policies, manifest, events, stored, bound, step, resumed, turn, boundary,
                     stopped, injected, taskCrashes>>
  BY DEF Continuing!RequestFails, Continuing!waiting, Continuing!Fault
<1>2. CheckpointRules(c) /\ Continuing!StateOf(c) = "awaiting_approval"
  BY <1>0, <1>1 DEF CheckpointRules
<1>3. /\ checkpoint' \in [Calls -> Checkpoint \cup {None}]
      /\ \A d \in Calls \ {c} : checkpoint'[d] = checkpoint[d] /\ Continuing!StateOf(d)' = Continuing!StateOf(d)
      /\ Continuing!StateOf(c)' = "approval_delivery_failed"
  <2>1. {"awaiting_approval"} \in SUBSET Continuing!States /\ "approval_delivery_failed" \in Continuing!States
    BY DEF Continuing!States, Continuing!Terminal
  <2> QED
    BY <1>0, <1>1, <1>2, <2>1, MarkMoves
<1>4. /\ waiter' \in [Calls -> {"idle", "asking", "waiting"}] /\ waiter'[c] = "idle"
      /\ \A d \in Calls \ {c} : waiter'[d] = waiter[d]
  BY <1>0, <1>1 DEF ContinuingTypes
<1>5. /\ asked' \in [Calls -> [status : {"none", "pending", "allow", "deny", "expired"},
                               activation : Continuing!Activations, manifest : 0 .. MaxTaskFaults]]
      /\ \A d \in Calls \ {c} : asked'[d] = asked[d]
  <2> DEFINE Rows == [status : {"none", "pending", "allow", "deny", "expired"},
                      activation : Continuing!Activations, manifest : 0 .. MaxTaskFaults]
  <2>1. asked \in [Calls -> Rows]
    BY <1>0 DEF ContinuingTypes
  <2>2. PICK s \in {"none", "pending"} : asked' = [asked EXCEPT ![c].status = s]
    BY <1>1
  <2>3. PICK row : row = [asked[c] EXCEPT !.status = s]
    OBVIOUS
  <2>4. row \in Rows
    BY <2>1, <2>3
  <2>5. asked' = [asked EXCEPT ![c] = row]
    BY <2>2, <2>3
  <2> HIDE DEF Rows
  <2>6. asked' \in [Calls -> Rows] /\ \A d \in Calls \ {c} : asked'[d] = asked[d]
    BY <2>1, <2>4, <2>5
  <2> QED
    BY <2>6 DEF Rows
<1>6. ContinuingTypes'
  <2>1. manifest' \in 0 .. taskFaults' /\ taskFaults' \in 0 .. MaxTaskFaults
    BY <1>0, <1>1, ContinuationNames DEF ContinuingTypes
  <2> QED
    BY <1>0, <1>1, <1>3, <1>4, <1>5, <2>1 DEF ContinuingTypes
<1>7. \A d \in Calls \ {c} : CheckpointRules(d)'
  BY <1>0, <1>1, <1>3, <1>4, <1>5, RulesKept
<1>8. CheckpointRules(c)'
  BY <1>1, <1>2, <1>3, <1>4, ContinuationNames
  DEF CheckpointRules, OwnerAgreed, Over, Continuing!States, Continuing!Recoverable, Continuing!Terminal
<1>9. Continuing!NeverBack
  BY <1>2, <1>3, OneMovesOn, Ranks DEF Over, Continuing!Terminal
<1> QED
  BY <1>0, <1>1, <1>6, <1>7, <1>8, <1>9 DEF ContinuingInv

-----------------------------------------------------------------------------
(* Continuations: what becomes of a checkpoint that awaits its decision.    *)

\* The ends of a continuation that was never resumed.
GivenUp == {"denied", "approval_expired", "approval_delivery_failed", "activation_failed"}

\* What a decision may make of the checkpoint of c: nothing, an end, or the approval of the owner.
Decision(c) ==
    /\ checkpoint' \in [Calls -> Checkpoint \cup {None}]
    /\ \A d \in Calls \ {c} : checkpoint'[d] = checkpoint[d] /\ Continuing!StateOf(d)' = Continuing!StateOf(d)
    /\ \/ checkpoint'[c] = checkpoint[c] /\ Continuing!StateOf(c)' = Continuing!StateOf(c)
       \/ /\ Continuing!StateOf(c) \in {"awaiting_approval", "approved_pending_activation"}
          /\ Continuing!StateOf(c)' \in GivenUp
       \/ /\ Continuing!StateOf(c) = "awaiting_approval" /\ OwnerAgreed(c)
          /\ Continuing!StateOf(c)' = "approved_pending_activation"

LEMMA DecisionPreserves ==
  ASSUME ContinuingInv, NEW c \in Calls, Decision(c),
         waiter' = [waiter EXCEPT ![c] = "idle"] \/ (waiter' = waiter /\ waiter[c] # "asking"),
         UNCHANGED <<asked, policies, manifest, events, stored, bound, step, resumed, turn, boundary,
                     stopped, injected, taskCrashes, taskFaults>>
  PROVE  ContinuingInv' /\ Continuing!NeverBack
<1>0. ContinuingTypes /\ (\A d \in Calls : CheckpointRules(d)) /\ (stopped => stored # {})
  BY DEF ContinuingInv
<1>1. /\ checkpoint' \in [Calls -> Checkpoint \cup {None}]
      /\ \A d \in Calls \ {c} : checkpoint'[d] = checkpoint[d] /\ Continuing!StateOf(d)' = Continuing!StateOf(d)
  BY DEF Decision
<1>2. /\ waiter' \in [Calls -> {"idle", "asking", "waiting"}]
      /\ waiter'[c] # "asking" /\ (waiter'[c] = "waiting" => waiter[c] = "waiting")
      /\ \A d \in Calls \ {c} : waiter'[d] = waiter[d]
  BY <1>0 DEF ContinuingTypes
<1>3. ContinuingTypes'
  BY <1>0, <1>1, <1>2 DEF ContinuingTypes
<1>4. \A d \in Calls \ {c} : CheckpointRules(d)'
  BY <1>0, <1>1, <1>2, RulesKept
<1>5. CheckpointRules(c)
  BY <1>0
<1>6. CASE checkpoint'[c] = checkpoint[c] /\ Continuing!StateOf(c)' = Continuing!StateOf(c)
  <2>1. CheckpointRules(c)'
    BY <1>2, <1>5, <1>6 DEF CheckpointRules, OwnerAgreed, Over
  <2> QED
    BY <1>0, <1>1, <1>3, <1>4, <1>6, <2>1, OneMovesOn DEF ContinuingInv
<1>7. CASE /\ Continuing!StateOf(c) \in {"awaiting_approval", "approved_pending_activation"}
           /\ Continuing!StateOf(c)' \in GivenUp
  <2>1. CheckpointRules(c)'
    BY <1>2, <1>5, <1>7, ContinuationNames
    DEF CheckpointRules, OwnerAgreed, Over, GivenUp, Continuing!States, Continuing!Recoverable, Continuing!Terminal
  <2>2. Continuing!NeverBack
    <3>1. Continuing!StateOf(c)' \in Over
      BY <1>7 DEF GivenUp, Over, Continuing!Terminal
    <3>2. Continuing!Rank(Continuing!StateOf(c)') = 5
      BY <3>1, Ranks
    <3>3. Continuing!Rank(Continuing!StateOf(c)) < 5
      BY <1>7, Ranks
    <3> QED
      BY <1>1, <3>2, <3>3, OneMovesOn
  <2> QED
    BY <1>0, <1>3, <1>4, <2>1, <2>2 DEF ContinuingInv
<1>8. CASE /\ Continuing!StateOf(c) = "awaiting_approval" /\ OwnerAgreed(c)
           /\ Continuing!StateOf(c)' = "approved_pending_activation"
  <2>1. OwnerAgreed(c)'
    BY <1>8 DEF OwnerAgreed
  <2>2. CheckpointRules(c)'
    BY <1>2, <1>5, <1>8, <2>1, ContinuationNames
    DEF CheckpointRules, Over, Continuing!States, Continuing!Recoverable, Continuing!Terminal
  <2>3. Continuing!NeverBack
    BY <1>1, <1>8, OneMovesOn, Ranks
  <2> QED
    BY <1>0, <1>3, <1>4, <2>2, <2>3 DEF ContinuingInv
<1> QED
  BY <1>6, <1>7, <1>8 DEF Decision

\* A mark of a checkpoint that is not yet taken up, and an approval, are such decisions.
LEMMA MarkIsDecision ==
  ASSUME ContinuingTypes, NEW c \in Calls,
         NEW from \in {"awaiting_approval", "approved_pending_activation"}, NEW to \in GivenUp,
         checkpoint' = Continuing!Marked(checkpoint, c, {from}, to)
  PROVE  Decision(c)
<1>1. {from} \in SUBSET Continuing!States /\ to \in Continuing!States
  BY DEF GivenUp, Continuing!States, Continuing!Terminal, Continuing!Recoverable
<1>2. PICK F \in SUBSET Continuing!States : F = {from}
  BY <1>1
<1>3. /\ checkpoint' \in [Calls -> Checkpoint \cup {None}]
      /\ \A d \in Calls \ {c} : checkpoint'[d] = checkpoint[d] /\ Continuing!StateOf(d)' = Continuing!StateOf(d)
      /\ Continuing!StateOf(c) \in F => Continuing!StateOf(c)' = to
      /\ Continuing!StateOf(c) \notin F => checkpoint'[c] = checkpoint[c] /\ Continuing!StateOf(c)' = Continuing!StateOf(c)
  BY <1>1, <1>2, MarkMoves
<1> QED
  BY <1>2, <1>3 DEF Decision

LEMMA ApprovalIsDecision ==
  ASSUME ContinuingTypes, NEW c \in Calls, Continuing!StateOf(c) = "awaiting_approval",
         OwnerAgreed(c), checkpoint' = Continuing!Approved(c)
  PROVE  Decision(c)
<1>1. "approved_pending_activation" \in Continuing!States
  BY DEF Continuing!States, Continuing!Recoverable
<1>2. checkpoint \in [Calls -> Checkpoint \cup {None}] /\ checkpoint[c] \in Checkpoint
  BY StateIsKnown, ContinuationNames DEF ContinuingTypes, Continuing!States
<1>3. checkpoint' = [Continuing!Approved(c) EXCEPT ![c].state = "approved_pending_activation"]
  BY <1>2 DEF Continuing!Approved, Checkpoint
<1> QED
  BY <1>1, <1>3, ApprovalMoves DEF Decision

LEMMA PollPreserves ==
  ASSUME ContinuingInv, NEW c \in Calls, Continuing!Poll(c)
  PROVE  ContinuingInv' /\ Continuing!NeverBack
<1>0. ContinuingTypes /\ CheckpointRules(c)
  BY DEF ContinuingInv
<1>1. /\ waiter[c] = "waiting" /\ asked[c].status # "pending" /\ checkpoint' = Continuing!Decided(c)
      /\ waiter' = [waiter EXCEPT ![c] = "idle"]
      /\ UNCHANGED <<asked, policies, manifest, events, stored, bound, step, resumed, turn, boundary,
                     stopped, injected, taskCrashes, taskFaults>>
  BY DEF Continuing!Poll, Continuing!waiting
<1>2. /\ asked[c].status \in {"allow", "deny", "expired"}
      /\ asked[c].activation \in {"covers", "narrow", "elsewhere", "none"}
  <2>1. asked[c].status # "none"
    BY <1>0, <1>1 DEF CheckpointRules
  <2>2. asked[c] \in [status : {"none", "pending", "allow", "deny", "expired"},
                      activation : Continuing!Activations, manifest : 0 .. MaxTaskFaults]
    BY <1>0 DEF ContinuingTypes
  <2> QED
    BY <1>1, <2>1, <2>2 DEF Continuing!Activations
<1>3. Decision(c)
  <2>1. CASE asked[c].status = "deny"
    <3>1. checkpoint' = Continuing!Marked(checkpoint, c, {"awaiting_approval"}, "denied")
      BY <1>1, <2>1 DEF Continuing!Decided
    <3> QED
      BY <1>0, <3>1, MarkIsDecision DEF GivenUp
  <2>2. CASE asked[c].status = "expired"
    <3>1. checkpoint' = Continuing!Marked(checkpoint, c, {"awaiting_approval"}, "approval_expired")
      BY <1>1, <2>2 DEF Continuing!Decided
    <3> QED
      BY <1>0, <3>1, MarkIsDecision DEF GivenUp
  <2>3. CASE asked[c].status = "allow" /\ asked[c].activation = "none"
    <3>1. checkpoint' = Continuing!Marked(checkpoint, c, {"awaiting_approval"}, "approval_delivery_failed")
      BY <1>1, <2>3 DEF Continuing!Decided
    <3> QED
      BY <1>0, <3>1, MarkIsDecision DEF GivenUp
  <2>4. CASE asked[c].status = "allow" /\ asked[c].activation \in {"narrow", "elsewhere"}
    <3>1. CASE Continuing!StateOf(c) = "awaiting_approval"
      <4>1. checkpoint' = [Continuing!Approved(c) EXCEPT ![c].state = "activation_failed"]
        BY <1>1, <2>4, <3>1 DEF Continuing!Decided
      <4>2. "activation_failed" \in Continuing!States
        BY DEF Continuing!States, Continuing!Terminal
      <4> QED
        BY <1>0, <3>1, <4>1, <4>2, ApprovalMoves DEF Decision, GivenUp
    <3>2. CASE Continuing!StateOf(c) # "awaiting_approval"
      <4>1. checkpoint' = Continuing!Marked(checkpoint, c, {"approved_pending_activation"}, "activation_failed")
        BY <1>1, <2>4, <3>2 DEF Continuing!Decided
      <4> QED
        BY <1>0, <4>1, MarkIsDecision DEF GivenUp
    <3> QED
      BY <3>1, <3>2
  <2>5. CASE asked[c].status = "allow" /\ asked[c].activation = "covers"
    <3>1. checkpoint' = IF Continuing!StateOf(c) = "awaiting_approval" THEN Continuing!Approved(c) ELSE checkpoint
      BY <1>1, <2>5 DEF Continuing!Decided
    <3>2. CASE Continuing!StateOf(c) = "awaiting_approval"
      BY <1>0, <2>5, <3>1, <3>2, ApprovalIsDecision DEF OwnerAgreed
    <3>3. CASE Continuing!StateOf(c) # "awaiting_approval"
      BY <1>0, <3>1, <3>3 DEF Decision, ContinuingTypes, Continuing!StateOf
    <3> QED
      BY <3>2, <3>3
  <2> QED
    BY <1>2, <2>1, <2>2, <2>3, <2>4, <2>5
<1> QED
  BY <1>1, <1>3, DecisionPreserves

LEMMA TimeOutPreserves ==
  ASSUME ContinuingInv, NEW c \in Calls, Continuing!TimeOut(c)
  PROVE  ContinuingInv' /\ Continuing!NeverBack
<1>1. /\ checkpoint' = Continuing!Marked(checkpoint, c, {"awaiting_approval"}, "approval_expired")
      /\ waiter' = [waiter EXCEPT ![c] = "idle"]
      /\ UNCHANGED <<asked, policies, manifest, events, stored, bound, step, resumed, turn, boundary,
                     stopped, injected, taskCrashes, taskFaults>>
  BY DEF Continuing!TimeOut, Continuing!waiting
<1>2. Decision(c)
  BY <1>1, MarkIsDecision DEF ContinuingInv, GivenUp
<1> QED
  BY <1>1, <1>2, DecisionPreserves

LEMMA RecoverDecisionPreserves ==
  ASSUME ContinuingInv, NEW c \in Calls, Continuing!RecoverDecision(c)
  PROVE  ContinuingInv' /\ Continuing!NeverBack
<1>0. ContinuingTypes /\ CheckpointRules(c)
  BY DEF ContinuingInv
<1>1. /\ Continuing!StateOf(c) = "awaiting_approval" /\ checkpoint[c].approvalId
      /\ UNCHANGED <<asked, policies, manifest, events, stored, bound, waiter, step, resumed, turn, boundary,
                     stopped, injected, taskCrashes, taskFaults>>
  BY DEF Continuing!RecoverDecision, Continuing!waiting
<1>2. waiter[c] # "asking"
  BY <1>0, <1>1 DEF CheckpointRules
<1>3. Decision(c)
  <2>1. CASE asked[c].status = "deny"
    <3>1. checkpoint' = Continuing!Marked(checkpoint, c, {"awaiting_approval"}, "denied")
      BY <2>1 DEF Continuing!RecoverDecision
    <3> QED
      BY <1>0, <3>1, MarkIsDecision DEF GivenUp
  <2>2. CASE asked[c].status = "allow" /\ asked[c].activation \in {"covers", "narrow"}
    <3>1. checkpoint' = Continuing!Approved(c)
      BY <2>2 DEF Continuing!RecoverDecision
    <3> QED
      BY <1>0, <1>1, <2>2, <3>1, ApprovalIsDecision DEF OwnerAgreed
  <2>3. CASE asked[c].status = "allow" /\ asked[c].activation \in {"elsewhere", "none"}
    <3>1. checkpoint' = Continuing!Marked(checkpoint, c, {"awaiting_approval"}, "approval_delivery_failed")
      BY <2>3 DEF Continuing!RecoverDecision
    <3> QED
      BY <1>0, <3>1, MarkIsDecision DEF GivenUp
  <2>4. CASE asked[c].status \notin {"deny", "allow"}
    <3>1. checkpoint' = Continuing!Marked(checkpoint, c, {"awaiting_approval"}, "approval_expired")
      BY <2>4 DEF Continuing!RecoverDecision
    <3> QED
      BY <1>0, <3>1, MarkIsDecision DEF GivenUp
  <2>5. asked[c].activation \in {"covers", "narrow", "elsewhere", "none"}
    BY <1>0 DEF ContinuingTypes, Continuing!Activations
  <2> QED
    BY <2>1, <2>2, <2>3, <2>4, <2>5
<1> QED
  BY <1>1, <1>2, <1>3, DecisionPreserves

-----------------------------------------------------------------------------
(* Continuations: the recovery takes an approved checkpoint up.             *)

\* A mark that expects one state.
LEMMA MarkMovesOne ==
  ASSUME ContinuingTypes, NEW c \in Calls, NEW from \in Continuing!States, NEW to \in Continuing!States,
         checkpoint' = Continuing!Marked(checkpoint, c, {from}, to)
  PROVE  /\ checkpoint' \in [Calls -> Checkpoint \cup {None}]
         /\ \A d \in Calls \ {c} : checkpoint'[d] = checkpoint[d] /\ Continuing!StateOf(d)' = Continuing!StateOf(d)
         /\ Continuing!StateOf(c) = from => Continuing!StateOf(c)' = to
         /\ Continuing!StateOf(c) # from =>
              checkpoint'[c] = checkpoint[c] /\ Continuing!StateOf(c)' = Continuing!StateOf(c)
<1>1. PICK F \in SUBSET Continuing!States : F = {from}
  OBVIOUS
<1>2. checkpoint' = Continuing!Marked(checkpoint, c, F, to)
  BY <1>1
<1> QED
  BY <1>1, <1>2, MarkMoves

\* execute() moves for c alone.
LEMMA StepFacts ==
  ASSUME ContinuingTypes, NEW c \in Calls, NEW at \in {"idle", "quiesce", "rebuild", "resume"},
         step' = [step EXCEPT ![c] = at]
  PROVE  /\ step' \in [Calls -> {"idle", "quiesce", "rebuild", "resume"}] /\ step'[c] = at
         /\ \A d \in Calls \ {c} : step'[d] = step[d]
BY DEF ContinuingTypes

LEMMA ActivatePreserves ==
  ASSUME ContinuingInv, NEW c \in Calls, Continuing!Activate(c)
  PROVE  ContinuingInv' /\ Continuing!NeverBack
<1>0. ContinuingTypes /\ (\A d \in Calls : CheckpointRules(d)) /\ (stopped => stored # {})
  BY DEF ContinuingInv
<1>1. /\ Continuing!StateOf(c) \in Continuing!Recoverable /\ step[c] = "idle" /\ c \notin resumed
      /\ checkpoint' = Continuing!Marked(checkpoint, c, {"approved_pending_activation"}, "rebuilding_session")
      /\ step' = [step EXCEPT ![c] = IF Continuing!StateOf(c) = "resuming" THEN "resume" ELSE "quiesce"]
      /\ UNCHANGED <<asked, policies, manifest, events, stored, bound, waiter, resumed, turn, boundary, stopped,
                     injected, taskCrashes, taskFaults>>
  BY DEF Continuing!Activate
<1>2. PICK at : at = IF Continuing!StateOf(c) = "resuming" THEN "resume" ELSE "quiesce"
  OBVIOUS
<1>3. /\ step' \in [Calls -> {"idle", "quiesce", "rebuild", "resume"}] /\ step'[c] = at
      /\ \A d \in Calls \ {c} : step'[d] = step[d]
  <2>1. at \in {"idle", "quiesce", "rebuild", "resume"}
    BY <1>2
  <2> QED
    BY <1>0, <1>1, <1>2, <2>1, StepFacts
<1>4. /\ checkpoint' \in [Calls -> Checkpoint \cup {None}]
      /\ \A d \in Calls \ {c} : checkpoint'[d] = checkpoint[d] /\ Continuing!StateOf(d)' = Continuing!StateOf(d)
      /\ Continuing!StateOf(c) = "approved_pending_activation" =>
           Continuing!StateOf(c)' = "rebuilding_session"
      /\ Continuing!StateOf(c) # "approved_pending_activation" =>
           checkpoint'[c] = checkpoint[c] /\ Continuing!StateOf(c)' = Continuing!StateOf(c)
  <2>1. "approved_pending_activation" \in Continuing!States /\ "rebuilding_session" \in Continuing!States
    BY DEF Continuing!States, Continuing!Recoverable
  <2> QED
    BY <1>0, <1>1, <2>1, MarkMovesOne
<1>5. ContinuingTypes'
  BY <1>0, <1>1, <1>3, <1>4 DEF ContinuingTypes
<1>6. \A d \in Calls \ {c} : CheckpointRules(d)'
  BY <1>0, <1>1, <1>3, <1>4, RulesKept
<1>7. CheckpointRules(c) /\ OwnerAgreed(c) /\ injected[c] = 0
  <2>1. CheckpointRules(c) /\ injected[c] \in Nat
    BY <1>0 DEF ContinuingTypes
  <2>2. injected[c] = 0 \/ injected[c] = 1
    BY <2>1 DEF CheckpointRules
  <2>3. Continuing!StateOf(c) \notin Over
    BY <1>1 DEF Over, Continuing!Recoverable, Continuing!Terminal
  <2> QED
    BY <1>1, <2>1, <2>2, <2>3 DEF CheckpointRules
<1>8. OwnerAgreed(c)'
  BY <1>1, <1>7 DEF OwnerAgreed
<1>9. Continuing!StateOf(c) \in {"approved_pending_activation", "rebuilding_session", "resuming"}
  BY <1>1 DEF Continuing!Recoverable
<1>10. /\ Continuing!StateOf(c)' \in {"rebuilding_session", "resuming"}
       /\ at = "quiesce" => Continuing!StateOf(c)' = "rebuilding_session"
       /\ at = "resume" => Continuing!StateOf(c)' = "resuming"
       /\ at \in {"quiesce", "resume"}
  BY <1>2, <1>4, <1>9
<1>11. CheckpointRules(c)'
  <2>1. waiter[c] # "asking"
    BY <1>7, <1>9 DEF CheckpointRules
  <2> QED
    BY <1>1, <1>3, <1>7, <1>8, <1>10, <2>1, ContinuationNames
    DEF CheckpointRules, Over, Continuing!States, Continuing!Recoverable, Continuing!Terminal
<1>12. Continuing!NeverBack
  BY <1>4, OneMovesOn, Ranks
<1> QED
  BY <1>0, <1>1, <1>5, <1>6, <1>11, <1>12 DEF ContinuingInv


LEMMA QuiescePreserves ==
  ASSUME ContinuingInv, NEW c \in Calls, Continuing!Quiesce(c)
  PROVE  ContinuingInv' /\ Continuing!NeverBack
<1>0. ContinuingTypes /\ (\A d \in Calls : CheckpointRules(d)) /\ (stopped => stored # {})
  BY DEF ContinuingInv
<1>1. /\ step[c] = "quiesce"
      /\ UNCHANGED <<asked, policies, manifest, events, stored, bound, waiter, resumed, stopped, injected,
                     taskCrashes, taskFaults>>
  BY DEF Continuing!Quiesce, Continuing!Executing
<1>2. CheckpointRules(c) /\ Continuing!StateOf(c) = "rebuilding_session"
  BY <1>0, <1>1 DEF CheckpointRules
<1>3. CASE bound
  <2>1. turn' = None /\ boundary' = None /\ step' = [step EXCEPT ![c] = "rebuild"] /\ checkpoint' = checkpoint
    BY <1>3 DEF Continuing!Quiesce
  <2>2. /\ step' \in [Calls -> {"idle", "quiesce", "rebuild", "resume"}] /\ step'[c] = "rebuild"
        /\ \A d \in Calls \ {c} : step'[d] = step[d]
    BY <1>0, <2>1, StepFacts
  <2>3. ContinuingTypes'
    BY <1>0, <1>1, <2>1, <2>2 DEF ContinuingTypes
  <2>4. \A d \in Calls \ {c} : CheckpointRules(d)'
    BY <1>0, <1>1, <2>1, <2>2, RulesKept, ContinuationNames
  <2>5. CheckpointRules(c)'
    BY <1>1, <1>2, <2>1, <2>2, ContinuationNames DEF CheckpointRules, OwnerAgreed, Over, Continuing!StateOf
  <2> QED
    BY <1>0, <1>1, <2>1, <2>3, <2>4, <2>5, NothingMoves DEF ContinuingInv
<1>4. CASE ~bound
  <2>1. /\ checkpoint' = Continuing!Marked(checkpoint, c, {"rebuilding_session"}, "activation_failed")
        /\ step' = [step EXCEPT ![c] = "idle"] /\ UNCHANGED <<turn, boundary>>
    BY <1>4 DEF Continuing!Quiesce
  <2>2. /\ step' \in [Calls -> {"idle", "quiesce", "rebuild", "resume"}] /\ step'[c] = "idle"
        /\ \A d \in Calls \ {c} : step'[d] = step[d]
    BY <1>0, <2>1, StepFacts
  <2>3. /\ checkpoint' \in [Calls -> Checkpoint \cup {None}]
        /\ \A d \in Calls \ {c} : checkpoint'[d] = checkpoint[d] /\ Continuing!StateOf(d)' = Continuing!StateOf(d)
        /\ Continuing!StateOf(c)' = "activation_failed"
    <3>1. "rebuilding_session" \in Continuing!States /\ "activation_failed" \in Continuing!States
      BY DEF Continuing!States, Continuing!Recoverable, Continuing!Terminal
    <3> QED
      BY <1>0, <1>2, <2>1, <3>1, MarkMovesOne
  <2>4. ContinuingTypes'
    BY <1>0, <1>1, <2>1, <2>2, <2>3 DEF ContinuingTypes
  <2>5. \A d \in Calls \ {c} : CheckpointRules(d)'
    BY <1>0, <1>1, <2>1, <2>2, <2>3, RulesKept
  <2>6. CheckpointRules(c)'
    BY <1>1, <1>2, <2>1, <2>2, <2>3, ContinuationNames
    DEF CheckpointRules, OwnerAgreed, Over, Continuing!States, Continuing!Recoverable, Continuing!Terminal
  <2>7. Continuing!NeverBack
    BY <1>2, <2>3, OneMovesOn, Ranks DEF Over, Continuing!Terminal
  <2> QED
    BY <1>0, <1>1, <2>4, <2>5, <2>6, <2>7 DEF ContinuingInv
<1> QED
  BY <1>3, <1>4

LEMMA RebuildPreserves ==
  ASSUME ContinuingInv, NEW c \in Calls, Continuing!Rebuild(c)
  PROVE  ContinuingInv' /\ Continuing!NeverBack
<1>0. ContinuingTypes /\ (\A d \in Calls : CheckpointRules(d)) /\ (stopped => stored # {})
  BY DEF ContinuingInv
<1>1. /\ step[c] = "rebuild"
      /\ UNCHANGED <<asked, policies, manifest, events, stored, bound, waiter, resumed, turn, stopped, injected,
                     taskCrashes, taskFaults>>
  BY DEF Continuing!Rebuild, Continuing!Executing
<1>2. CheckpointRules(c) /\ Continuing!StateOf(c) = "rebuilding_session"
  BY <1>0, <1>1 DEF CheckpointRules
<1>3. PICK to, at : /\ checkpoint' = Continuing!Marked(checkpoint, c, {"rebuilding_session"}, to)
                    /\ step' = [step EXCEPT ![c] = at]
                    /\ <<to, at>> \in {<<"resuming", "resume">>, <<"activation_failed", "idle">>}
  <2>1. PICK attested \in BOOLEAN :
          /\ checkpoint' = Continuing!Marked(checkpoint, c, {"rebuilding_session"},
                                             IF attested THEN "resuming" ELSE "activation_failed")
          /\ step' = [step EXCEPT ![c] = IF attested THEN "resume" ELSE "idle"]
    BY DEF Continuing!Rebuild
  <2>2. CASE attested
    BY <2>1, <2>2
  <2>3. CASE ~attested
    BY <2>1, <2>3
  <2> QED
    BY <2>2, <2>3
<1>4. boundary' = boundary \/ (boundary = None /\ boundary' = c)
  BY DEF Continuing!Rebuild
<1>5. /\ checkpoint' \in [Calls -> Checkpoint \cup {None}]
      /\ \A d \in Calls \ {c} : checkpoint'[d] = checkpoint[d] /\ Continuing!StateOf(d)' = Continuing!StateOf(d)
      /\ Continuing!StateOf(c)' = to
  <2>1. "rebuilding_session" \in Continuing!States /\ to \in Continuing!States
    BY <1>3 DEF Continuing!States, Continuing!Recoverable, Continuing!Terminal
  <2> QED
    BY <1>0, <1>2, <1>3, <2>1, MarkMovesOne
<1>6. /\ step' \in [Calls -> {"idle", "quiesce", "rebuild", "resume"}] /\ step'[c] = at
      /\ \A d \in Calls \ {c} : step'[d] = step[d]
  <2>1. at \in {"idle", "quiesce", "rebuild", "resume"}
    BY <1>3
  <2> QED
    BY <1>0, <1>3, <2>1, StepFacts
<1>7. ContinuingTypes'
  BY <1>0, <1>1, <1>4, <1>5, <1>6 DEF ContinuingTypes
<1>8. \A d \in Calls : turn = d => boundary = d /\ boundary' = boundary
  BY <1>0, <1>4, ContinuationNames DEF CheckpointRules
<1>9. \A d \in Calls \ {c} : CheckpointRules(d)'
  BY <1>0, <1>1, <1>5, <1>6, <1>8, RulesKept
<1>10. CheckpointRules(c)'
  <2>1. OwnerAgreed(c) /\ waiter[c] # "asking"
    BY <1>2 DEF CheckpointRules, Continuing!Recoverable
  <2>2. OwnerAgreed(c)'
    BY <1>1, <2>1 DEF OwnerAgreed
  <2> QED
    BY <1>1, <1>2, <1>3, <1>5, <1>6, <1>8, <2>1, <2>2, ContinuationNames
    DEF CheckpointRules, Over, Continuing!States, Continuing!Recoverable, Continuing!Terminal
<1>11. Continuing!NeverBack
  BY <1>2, <1>3, <1>5, OneMovesOn, Ranks DEF Over, Continuing!Terminal
<1> QED
  BY <1>0, <1>1, <1>7, <1>9, <1>10, <1>11 DEF ContinuingInv

\* The runtime takes the call: it had not been injected since the process started, and the
\* recovery will not take it up again, being remembered or having a checkpoint that is over.
LEMMA InjectionPreserves ==
  ASSUME ContinuingInv, NEW c \in Calls, step[c] = "resume", turn = None,
         step' = [step EXCEPT ![c] = "idle"], turn' = c, boundary' = c, bound' = TRUE,
         injected' = [injected EXCEPT ![c] = injected[c] + 1],
         \/ checkpoint' = checkpoint /\ resumed' = resumed \cup {c} /\ taskFaults' = taskFaults
         \/ /\ checkpoint' = Continuing!Marked(checkpoint, c, {"resuming"}, "resume_failed") /\ resumed' = resumed
            /\ taskFaults < MaxTaskFaults /\ taskFaults' = taskFaults + 1,
         UNCHANGED <<asked, policies, manifest, events, stored, waiter, stopped, taskCrashes>>
  PROVE  ContinuingInv' /\ Continuing!NeverBack
<1>0. ContinuingTypes /\ (\A d \in Calls : CheckpointRules(d)) /\ (stopped => stored # {})
  BY DEF ContinuingInv
<1>1. /\ CheckpointRules(c) /\ Continuing!StateOf(c) \in {"resuming", "completed", "resume_failed"}
      /\ injected[c] = 0 /\ OwnerAgreed(c)
  BY <1>0 DEF CheckpointRules, Continuing!Recoverable
<1>2. /\ injected' \in [Calls -> Nat] /\ injected'[c] = 1
      /\ \A d \in Calls \ {c} : injected'[d] = injected[d]
  BY <1>0, <1>1 DEF ContinuingTypes
<1>3. /\ step' \in [Calls -> {"idle", "quiesce", "rebuild", "resume"}] /\ step'[c] = "idle"
      /\ \A d \in Calls \ {c} : step'[d] = step[d]
  BY <1>0, StepFacts
<1>4. /\ checkpoint' \in [Calls -> Checkpoint \cup {None}]
      /\ \A d \in Calls \ {c} : checkpoint'[d] = checkpoint[d] /\ Continuing!StateOf(d)' = Continuing!StateOf(d)
      /\ \/ Continuing!StateOf(c)' = Continuing!StateOf(c)
         \/ Continuing!StateOf(c) = "resuming" /\ Continuing!StateOf(c)' = "resume_failed"
      /\ c \in resumed' \/ Continuing!StateOf(c)' \in Over
  <2>1. CASE checkpoint' = checkpoint /\ c \in resumed'
    BY <1>0, <2>1 DEF Continuing!StateOf, ContinuingTypes
  <2>2. CASE checkpoint' = Continuing!Marked(checkpoint, c, {"resuming"}, "resume_failed")
    <3>1. "resuming" \in Continuing!States /\ "resume_failed" \in Continuing!States
      BY DEF Continuing!States, Continuing!Recoverable, Continuing!Terminal
    <3>2. /\ checkpoint' \in [Calls -> Checkpoint \cup {None}]
          /\ \A d \in Calls \ {c} : checkpoint'[d] = checkpoint[d] /\ Continuing!StateOf(d)' = Continuing!StateOf(d)
          /\ Continuing!StateOf(c) = "resuming" => Continuing!StateOf(c)' = "resume_failed"
          /\ Continuing!StateOf(c) # "resuming" => Continuing!StateOf(c)' = Continuing!StateOf(c)
      BY <1>0, <2>2, <3>1, MarkMovesOne
    <3>3. Continuing!StateOf(c)' \in Over
      BY <1>1, <3>2 DEF Over, Continuing!Terminal
    <3> QED
      BY <3>2, <3>3
  <2> QED
    BY <2>1, <2>2
<1>5. /\ resumed' \subseteq Calls /\ resumed \subseteq resumed'
      /\ manifest' \in 0 .. taskFaults' /\ taskFaults' \in 0 .. MaxTaskFaults
  <2>1. resumed' \subseteq Calls /\ resumed \subseteq resumed'
    BY <1>0 DEF ContinuingTypes
  <2>2. manifest' \in 0 .. taskFaults' /\ taskFaults' \in 0 .. MaxTaskFaults
    BY <1>0, ContinuationNames DEF ContinuingTypes
  <2> QED
    BY <2>1, <2>2
<1>6. ContinuingTypes'
  BY <1>0, <1>2, <1>3, <1>4, <1>5 DEF ContinuingTypes, Continuing!Turns
<1>7. \A d \in Calls \ {c} : CheckpointRules(d)'
  BY <1>0, <1>2, <1>3, <1>4, <1>5, RulesKept
<1>8. CheckpointRules(c)'
  <2>1. OwnerAgreed(c)' /\ waiter[c] # "asking"
    BY <1>1 DEF OwnerAgreed, CheckpointRules
  <2>2. Continuing!StateOf(c)' \in {"resuming", "completed", "resume_failed"}
    BY <1>1, <1>4
  <2>3. Continuing!StateOf(c)' = "completed" => stored # {}
    BY <1>1, <1>4 DEF CheckpointRules
  <2> QED
    BY <1>1, <1>2, <1>3, <1>4, <2>1, <2>2, <2>3, ContinuationNames
    DEF CheckpointRules, Over, Continuing!States, Continuing!Recoverable, Continuing!Terminal
<1>9. Continuing!NeverBack
  BY <1>4, OneMovesOn, Ranks DEF Over, Continuing!Terminal
<1> QED
  BY <1>0, <1>6, <1>7, <1>8, <1>9 DEF ContinuingInv

LEMMA ResumePreserves ==
  ASSUME ContinuingInv, NEW c \in Calls, Continuing!Resume(c)
  PROVE  ContinuingInv' /\ Continuing!NeverBack
<1>0. ContinuingTypes /\ (\A d \in Calls : CheckpointRules(d)) /\ (stopped => stored # {})
  BY DEF ContinuingInv
<1>1. /\ step[c] = "resume" /\ step' = [step EXCEPT ![c] = "idle"]
      /\ UNCHANGED <<asked, policies, manifest, events, stored, waiter, stopped, taskCrashes, taskFaults>>
  BY DEF Continuing!Resume, Continuing!Executing
<1>2. CASE turn = None /\ c \in policies
  <2>1. /\ turn' = c /\ boundary' = c /\ bound' = TRUE /\ checkpoint' = checkpoint
        /\ injected' = [injected EXCEPT ![c] = injected[c] + 1]
        /\ resumed' = resumed \cup {c}
    BY <1>2 DEF Continuing!Resume, Continuing!Launched
  <2> QED
    BY <1>1, <1>2, <2>1, InjectionPreserves
<1>3. CASE ~(turn = None /\ c \in policies)
  <2>1. /\ checkpoint' = Continuing!Marked(checkpoint, c, {"resuming"}, "resume_failed")
        /\ UNCHANGED <<bound, turn, boundary, injected, resumed>>
    BY <1>3 DEF Continuing!Resume
  <2>2. CheckpointRules(c) /\ Continuing!StateOf(c) \in {"resuming", "completed", "resume_failed"}
    BY <1>0, <1>1 DEF CheckpointRules
  <2>3. /\ checkpoint' \in [Calls -> Checkpoint \cup {None}]
        /\ \A d \in Calls \ {c} : checkpoint'[d] = checkpoint[d] /\ Continuing!StateOf(d)' = Continuing!StateOf(d)
        /\ Continuing!StateOf(c) = "resuming" => Continuing!StateOf(c)' = "resume_failed"
        /\ Continuing!StateOf(c) # "resuming" => Continuing!StateOf(c)' = Continuing!StateOf(c)
    <3>1. "resuming" \in Continuing!States /\ "resume_failed" \in Continuing!States
      BY DEF Continuing!States, Continuing!Recoverable, Continuing!Terminal
    <3> QED
      BY <1>0, <2>1, <3>1, MarkMovesOne
  <2>4. /\ step' \in [Calls -> {"idle", "quiesce", "rebuild", "resume"}] /\ step'[c] = "idle"
        /\ \A d \in Calls \ {c} : step'[d] = step[d]
    BY <1>0, <1>1, StepFacts
  <2>5. ContinuingTypes'
    BY <1>0, <1>1, <2>1, <2>3, <2>4 DEF ContinuingTypes
  <2>6. \A d \in Calls \ {c} : CheckpointRules(d)'
    BY <1>0, <1>1, <2>1, <2>3, <2>4, RulesKept
  <2>7. CheckpointRules(c)'
    BY <1>1, <2>1, <2>2, <2>3, <2>4, ContinuationNames
    DEF CheckpointRules, OwnerAgreed, Over, Continuing!States, Continuing!Recoverable, Continuing!Terminal
  <2>8. Continuing!NeverBack
    BY <2>3, OneMovesOn, Ranks DEF Over, Continuing!Terminal
  <2> QED
    BY <1>0, <1>1, <2>1, <2>5, <2>6, <2>7, <2>8 DEF ContinuingInv
<1> QED
  BY <1>2, <1>3

LEMMA ResumeUnacknowledgedPreserves ==
  ASSUME ContinuingInv, NEW c \in Calls, Continuing!ResumeUnacknowledged(c)
  PROVE  ContinuingInv' /\ Continuing!NeverBack
<1>1. /\ taskFaults < MaxTaskFaults /\ taskFaults' = taskFaults + 1
      /\ step[c] = "resume" /\ turn = None
      /\ step' = [step EXCEPT ![c] = "idle"]
      /\ turn' = c /\ boundary' = c /\ bound' = TRUE
      /\ injected' = [injected EXCEPT ![c] = injected[c] + 1]
      /\ checkpoint' = Continuing!Marked(checkpoint, c, {"resuming"}, "resume_failed")
      /\ UNCHANGED <<asked, policies, manifest, events, stored, waiter, resumed, stopped, taskCrashes>>
  BY DEF Continuing!ResumeUnacknowledged, Continuing!Fault, Continuing!Launched
<1> QED
  BY <1>1, InjectionPreserves

-----------------------------------------------------------------------------
(* Continuations: the runtime, its events, and a restart.                   *)

\* A step that leaves the checkpoints, and starts no turn of a call.
LEMMA QuietPreserves ==
  ASSUME ContinuingInv, ContinuingTypes',
         turn' \notin Calls \/ (turn' = turn /\ boundary' = boundary),
         stored \subseteq stored', stopped' => stored' # {},
         UNCHANGED <<asked, checkpoint, waiter, step, resumed, injected>>
  PROVE  ContinuingInv' /\ Continuing!NeverBack
<1>1. \A d \in Calls : CheckpointRules(d)'
  BY RulesKept DEF ContinuingInv
<1> QED
  BY <1>1, NothingMoves DEF ContinuingInv

LEMMA RevokePolicyPreserves ==
  ASSUME ContinuingInv, NEW c \in Calls, Continuing!RevokePolicy(c)
  PROVE  ContinuingInv' /\ Continuing!NeverBack
<1>1. /\ taskFaults < MaxTaskFaults /\ taskFaults' = taskFaults + 1 /\ policies' = policies \ {c}
      /\ UNCHANGED <<asked, manifest, checkpoint, events, stored, bound, waiter, step, resumed, turn, boundary,
                     stopped, injected, taskCrashes>>
  BY DEF Continuing!RevokePolicy, Continuing!Fault, Continuing!external
<1>2. manifest' \in 0 .. taskFaults' /\ taskFaults' \in 0 .. MaxTaskFaults
  BY <1>1, ContinuationNames DEF ContinuingInv, ContinuingTypes
<1>3. ContinuingTypes'
  BY <1>1, <1>2 DEF ContinuingInv, ContinuingTypes
<1> QED
  BY <1>1, <1>3, QuietPreserves DEF ContinuingInv

LEMMA ChangeGrantsPreserves ==
  ASSUME ContinuingInv, Continuing!ChangeGrants
  PROVE  ContinuingInv' /\ Continuing!NeverBack
<1>1. /\ taskFaults < MaxTaskFaults /\ taskFaults' = taskFaults + 1 /\ manifest' = manifest + 1
      /\ UNCHANGED <<asked, policies, checkpoint, events, stored, bound, waiter, step, resumed, turn, boundary,
                     stopped, injected, taskCrashes>>
  BY DEF Continuing!ChangeGrants, Continuing!Fault
<1>2. manifest' \in 0 .. taskFaults' /\ taskFaults' \in 0 .. MaxTaskFaults
  BY <1>1, ContinuationNames DEF ContinuingInv, ContinuingTypes
<1>3. ContinuingTypes'
  BY <1>1, <1>2 DEF ContinuingInv, ContinuingTypes
<1> QED
  BY <1>1, <1>3, QuietPreserves DEF ContinuingInv

LEMMA OtherTaskPreserves ==
  ASSUME ContinuingInv, Continuing!OtherTask
  PROVE  ContinuingInv' /\ Continuing!NeverBack
<1>1. /\ taskFaults < MaxTaskFaults /\ taskFaults' = taskFaults + 1
      /\ turn' = "other" /\ boundary' = "original"
      /\ UNCHANGED <<asked, policies, manifest, checkpoint, events, stored, bound, waiter, step, resumed,
                     stopped, injected, taskCrashes>>
  BY DEF Continuing!OtherTask, Continuing!Fault, Continuing!runtime
<1>2. manifest' \in 0 .. taskFaults' /\ taskFaults' \in 0 .. MaxTaskFaults
  BY <1>1, ContinuationNames DEF ContinuingInv, ContinuingTypes
<1>3. ContinuingTypes'
  BY <1>1, <1>2 DEF ContinuingInv, ContinuingTypes, Continuing!Turns
<1> QED
  BY <1>1, <1>3, QuietPreserves, ContinuationNames DEF ContinuingInv

LEMMA ReleasePreserves ==
  ASSUME ContinuingInv, Continuing!Release
  PROVE  ContinuingInv' /\ Continuing!NeverBack
<1>1. /\ taskFaults < MaxTaskFaults /\ taskFaults' = taskFaults + 1
      /\ bound' = FALSE /\ turn' = None /\ boundary' = None
      /\ UNCHANGED <<asked, policies, manifest, checkpoint, events, stored, waiter, step, resumed,
                     stopped, injected, taskCrashes>>
  BY DEF Continuing!Release, Continuing!Fault, Continuing!runtime
<1>2. manifest' \in 0 .. taskFaults' /\ taskFaults' \in 0 .. MaxTaskFaults
  BY <1>1, ContinuationNames DEF ContinuingInv, ContinuingTypes
<1>3. ContinuingTypes'
  BY <1>1, <1>2 DEF ContinuingInv, ContinuingTypes
<1> QED
  BY <1>1, <1>3, QuietPreserves, ContinuationNames DEF ContinuingInv

LEMMA TurnEndsPreserves ==
  ASSUME ContinuingInv, NEW type \in {"reply", "turn_failed"}, Continuing!TurnEnds(type)
  PROVE  ContinuingInv' /\ Continuing!NeverBack
<1>1. /\ turn # None /\ turn' = None
      /\ events' = IF turn = "other" THEN events ELSE Append(events, [by |-> turn, type |-> type])
      /\ UNCHANGED <<asked, policies, manifest, checkpoint, stored, bound, waiter, step, resumed, boundary,
                     stopped, injected, taskCrashes, taskFaults>>
  BY DEF Continuing!TurnEnds, Continuing!runtime
<1>2. events' \in Seq([by : Continuing!Turns, type : {"reply", "turn_failed"}])
  <2>1. PICK E : E = [by : Continuing!Turns, type : {"reply", "turn_failed"}]
    OBVIOUS
  <2>2. PICK e : e = [by |-> turn, type |-> type]
    OBVIOUS
  <2>3. events \in Seq(E) /\ e \in E
    BY <1>1, <2>1, <2>2 DEF ContinuingInv, ContinuingTypes
  <2>4. events' = events \/ events' = Append(events, e)
    BY <1>1, <2>2
  <2>5. events' \in Seq(E)
    BY <2>3, <2>4
  <2> QED
    BY <2>1, <2>5
<1>3. ContinuingTypes'
  BY <1>1, <1>2 DEF ContinuingInv, ContinuingTypes
<1> QED
  BY <1>1, <1>3, QuietPreserves, ContinuationNames DEF ContinuingInv

\* The first event is one of a turn, and the others remain.
LEMMA FirstEvent ==
  ASSUME ContinuingTypes, events # <<>>
  PROVE  /\ Head(events).by \in Continuing!Turns
         /\ Tail(events) \in Seq([by : Continuing!Turns, type : {"reply", "turn_failed"}])
<1>1. PICK E : E = [by : Continuing!Turns, type : {"reply", "turn_failed"}]
  OBVIOUS
<1>2. events \in Seq(E)
  BY <1>1 DEF ContinuingTypes
<1>3. Head(events) \in E /\ Tail(events) \in Seq(E)
  BY <1>2
<1> QED
  BY <1>1, <1>3

LEMMA StoreReplyPreserves ==
  ASSUME ContinuingInv, Continuing!StoreReply
  PROVE  ContinuingInv' /\ Continuing!NeverBack
<1>1. /\ events # <<>> /\ stored' = stored \cup {Head(events).by} /\ stopped' = TRUE
      /\ UNCHANGED <<asked, policies, manifest, checkpoint, events, bound, waiter, step, resumed, turn, boundary,
                     injected, taskCrashes, taskFaults>>
  BY DEF Continuing!StoreReply, Continuing!handling
<1>2. Head(events).by \in Continuing!Turns
  BY <1>1, FirstEvent DEF ContinuingInv
<1>3. ContinuingTypes'
  BY <1>1, <1>2 DEF ContinuingInv, ContinuingTypes
<1> QED
  BY <1>1, <1>3, QuietPreserves DEF ContinuingInv

LEMMA HandleEventPreserves ==
  ASSUME ContinuingInv, Continuing!HandleEvent
  PROVE  ContinuingInv' /\ Continuing!NeverBack
<1>0. ContinuingTypes /\ (\A d \in Calls : CheckpointRules(d)) /\ (stopped => stored # {})
  BY DEF ContinuingInv
<1>1. /\ events # <<>> /\ (Head(events).type = "reply" => stopped)
      /\ events' = Tail(events) /\ stopped' = FALSE
      /\ UNCHANGED <<asked, policies, manifest, stored, bound, waiter, step, turn, boundary,
                     injected, taskCrashes, taskFaults>>
  BY DEF Continuing!HandleEvent, Continuing!handling
<1>2. events' \in Seq([by : Continuing!Turns, type : {"reply", "turn_failed"}])
  BY <1>0, <1>1, FirstEvent
<1>3. CASE UNCHANGED <<checkpoint, resumed>>
  <2>1. ContinuingTypes'
    BY <1>0, <1>1, <1>2, <1>3 DEF ContinuingTypes
  <2> QED
    BY <1>1, <1>3, <2>1, QuietPreserves
<1>4. ASSUME NEW c \in Calls,
             Continuing!Join(c, IF Head(events).type = "reply" THEN "completed" ELSE "resume_failed")
      PROVE  ContinuingInv' /\ Continuing!NeverBack
  <2>1. PICK to : to = IF Head(events).type = "reply" THEN "completed" ELSE "resume_failed"
    OBVIOUS
  <2>2. /\ to \in {"completed", "resume_failed"} /\ (to = "completed" => stored # {})
    BY <1>0, <1>1, <2>1
  <2>3. /\ Continuing!StateOf(c) = "resuming" /\ resumed' = resumed \ {c}
        /\ checkpoint' = Continuing!Marked(checkpoint, c, {"resuming"}, to)
    BY <1>4, <2>1 DEF Continuing!Join
  <2>4. /\ checkpoint' \in [Calls -> Checkpoint \cup {None}]
        /\ \A d \in Calls \ {c} : checkpoint'[d] = checkpoint[d] /\ Continuing!StateOf(d)' = Continuing!StateOf(d)
        /\ Continuing!StateOf(c)' = to
    <3>1. "resuming" \in Continuing!States /\ to \in Continuing!States
      BY <2>2 DEF Continuing!States, Continuing!Recoverable, Continuing!Terminal
    <3> QED
      BY <1>0, <2>3, <3>1, MarkMovesOne
  <2>5. ContinuingTypes'
    BY <1>0, <1>1, <1>2, <2>3, <2>4 DEF ContinuingTypes
  <2>6. \A d \in Calls \ {c} : CheckpointRules(d)'
    BY <1>0, <1>1, <2>3, <2>4, RulesKept
  <2>7. CheckpointRules(c)'
    <3>1. CheckpointRules(c) /\ OwnerAgreed(c)
      BY <1>0, <2>3 DEF CheckpointRules, Continuing!Recoverable
    <3>2. OwnerAgreed(c)'
      BY <1>1, <3>1 DEF OwnerAgreed
    <3> QED
      BY <1>1, <2>2, <2>3, <2>4, <3>1, <3>2, ContinuationNames
      DEF CheckpointRules, Over, Continuing!States, Continuing!Recoverable, Continuing!Terminal
  <2>8. Continuing!NeverBack
    BY <2>2, <2>3, <2>4, OneMovesOn, Ranks DEF Over, Continuing!Terminal
  <2> QED
    BY <1>1, <2>5, <2>6, <2>7, <2>8 DEF ContinuingInv
<1> QED
  BY <1>3, <1>4 DEF Continuing!HandleEvent

\* Whatever the process had under way is gone, and with it what it remembered.
LEMMA CrashPreserves ==
  ASSUME ContinuingInv, Continuing!Crash
  PROVE  ContinuingInv' /\ Continuing!NeverBack
<1>0. ContinuingTypes /\ (\A d \in Calls : CheckpointRules(d))
  BY DEF ContinuingInv
<1>1. /\ taskCrashes < MaxTaskCrashes /\ taskCrashes' = taskCrashes + 1
      /\ waiter' = [c \in Calls |-> "idle"] /\ step' = [c \in Calls |-> "idle"] /\ resumed' = {}
      /\ turn' = None /\ boundary' = None /\ stopped' = FALSE
      /\ injected' = [c \in Calls |-> 0]
      /\ UNCHANGED <<asked, policies, manifest, checkpoint, events, stored, bound, taskFaults>>
  BY DEF Continuing!Crash, Continuing!durable
<1>2. ContinuingTypes'
  <2>1. taskCrashes' \in 0 .. MaxTaskCrashes
    BY <1>0, <1>1, ContinuationNames DEF ContinuingTypes
  <2> QED
    BY <1>0, <1>1, <2>1 DEF ContinuingTypes
<1>3. ASSUME NEW c \in Calls
      PROVE  CheckpointRules(c)'
  <2>1. waiter'[c] = "idle" /\ step'[c] = "idle" /\ injected'[c] = 0 /\ turn' # c
    BY <1>1, ContinuationNames
  <2>2. CheckpointRules(c)
    BY <1>0
  <2> QED
    BY <1>1, <2>1, <2>2 DEF CheckpointRules, OwnerAgreed, Over, Continuing!StateOf
<1> QED
  BY <1>1, <1>2, <1>3, NothingMoves DEF ContinuingInv

LEMMA ContinuingNext ==
  ASSUME ContinuingInv, [Continuing!Next]_continuing
  PROVE  ContinuingInv' /\ Continuing!NeverBack
<1>1. CASE UNCHANGED continuing
  <2>1. UNCHANGED <<asked, policies, manifest, checkpoint, events, stored, bound, waiter, step, resumed, turn,
                    boundary, stopped, injected, taskCrashes, taskFaults>>
    BY <1>1 DEF continuing
  <2>2. ContinuingTypes'
    BY <2>1 DEF ContinuingInv, ContinuingTypes
  <2> QED
    BY <2>1, <2>2, QuietPreserves DEF ContinuingInv
<1>2. ASSUME NEW c \in Calls, NEW activation \in Continuing!Activations,
             \/ Continuing!PolicyArrives(c, activation)
             \/ \E status \in {"allow", "deny", "expired"} : Continuing!ApprovalEnds(c, status, activation)
      PROVE  ContinuingInv' /\ Continuing!NeverBack
  BY <1>2, PolicyArrivesPreserves, ApprovalEndsPreserves
<1>3. ASSUME NEW c \in Calls,
             \/ Continuing!RevokePolicy(c)
             \/ Continuing!Request(c) \/ Continuing!Requested(c) \/ Continuing!RequestFails(c)
             \/ Continuing!Poll(c) \/ Continuing!TimeOut(c) \/ Continuing!RecoverDecision(c)
      PROVE  ContinuingInv' /\ Continuing!NeverBack
  BY <1>3, RevokePolicyPreserves, RequestPreserves, RequestedPreserves, RequestFailsPreserves, PollPreserves,
     TimeOutPreserves, RecoverDecisionPreserves
<1>4. ASSUME NEW c \in Calls,
             \/ Continuing!Activate(c) \/ Continuing!Quiesce(c) \/ Continuing!Rebuild(c)
             \/ Continuing!Resume(c) \/ Continuing!ResumeUnacknowledged(c)
      PROVE  ContinuingInv' /\ Continuing!NeverBack
  BY <1>4, ActivatePreserves, QuiescePreserves, RebuildPreserves, ResumePreserves, ResumeUnacknowledgedPreserves
<1>5. CASE \/ \E type \in {"reply", "turn_failed"} : Continuing!TurnEnds(type)
           \/ Continuing!ChangeGrants \/ Continuing!OtherTask \/ Continuing!Release
           \/ Continuing!StoreReply \/ Continuing!HandleEvent \/ Continuing!Crash
  BY <1>5, TurnEndsPreserves, ChangeGrantsPreserves, OtherTaskPreserves, ReleasePreserves, StoreReplyPreserves,
     HandleEventPreserves, CrashPreserves
<1> QED
  BY <1>1, <1>2, <1>3, <1>4, <1>5 DEF Continuing!Next

-----------------------------------------------------------------------------
(* Decisions on tool calls (ToolDecision, ProjectAccess).                   *)

\* What the grants g give: folders and presets of the kinds that exist, one policy for each id.
LEMMA GrantFacts ==
  ASSUME NEW g \in Deciding!GrantSets
  PROVE  /\ g.relationship = None \/ g.relationship \in Deciding!Relationships
         /\ g.relationship # None =>
              /\ g.relationship.folders \subseteq {<<"a">>, <<"a", "c">>}
              /\ g.relationship.tools = {"Read"} \/ g.relationship.tools = {"Read", "Write", "GitCommit"}
         /\ \A p \in g.policies : /\ p.id \in {<<"p1">>, <<"p2">>} /\ p.folder \in {<<"a">>, <<"a", "c">>}
                                  /\ p.preset \in {"read", "edit"}
                                  /\ p = [id |-> p.id, folder |-> p.folder, preset |-> p.preset]
         /\ \A p, q \in g.policies : p.id = q.id => p = q
<1>1. g.relationship \in Deciding!Relationships \cup {None} /\ g.policies \in Deciding!PolicySets
  BY DEF Deciding!GrantSets
<1>2. g.relationship # None =>
         /\ g.relationship.folders \subseteq {<<"a">>, <<"a", "c">>}
         /\ g.relationship.tools = {"Read"} \/ g.relationship.tools = {"Read", "Write", "GitCommit"}
  BY <1>1 DEF Deciding!Relationships, Deciding!PresetTools, Deciding!ReadTools, Deciding!WriteTools
<1>3. /\ g.policies \subseteq Deciding!Policies
      /\ \A p, q \in g.policies : p.id = q.id => p = q
  BY <1>1 DEF Deciding!PolicySets
<1>4. \A p \in Deciding!Policies : /\ p.id \in {<<"p1">>, <<"p2">>} /\ p.folder \in {<<"a">>, <<"a", "c">>}
                                   /\ p.preset \in {"read", "edit"}
                                   /\ p = [id |-> p.id, folder |-> p.folder, preset |-> p.preset]
  BY DEF Deciding!Policies
<1> QED
  BY <1>1, <1>2, <1>3, <1>4

\* The access a task is launched with: its folders are granted, and those it may write to are
\* folders of the grants that allow writing.
LEMMA LaunchedAccess ==
  ASSUME NEW g \in Deciding!GrantSets, NEW m, NEW a, a = Deciding!AccessFor(g, m), a.status = "selected"
  PROVE  /\ \A f \in a.folders :
              \/ Deciding!ChosenRelationship(g, a) /\ f \in g.relationship.folders
              \/ \E p \in Deciding!ChosenPolicies(g, a) : p.folder = f
         /\ a.writable = a.folders \cap
              ((IF Deciding!ChosenRelationship(g, a) /\ "Write" \in g.relationship.tools
                THEN g.relationship.folders ELSE {})
                 \cup {p.folder : p \in {q \in Deciding!ChosenPolicies(g, a) : q.preset = "edit"}})
<1> DEFINE ids == Deciding!SelectedIds(g, m)
           paths == Deciding!SelectedPaths(g, m)
           requested == Deciding!Requested(g, m)
           folders == IF requested = {} THEN Deciding!Available(g) ELSE paths \cup Deciding!FoldersOfIds(g, ids)
           b == [Deciding!NoAccess("selected") EXCEPT
                   !.folders = folders, !.ids = ids, !.paths = paths, !.explicit = requested # {}]
<1>1. a = Deciding!Selected(g, b)
  BY DEF Deciding!AccessFor, Deciding!NoAccess
<1>2. /\ b.folders = folders /\ b.ids = ids /\ b.paths = paths /\ b.explicit = (requested # {})
      /\ b.status = "selected" /\ DOMAIN b = {"status", "preset", "folders", "writable", "ids", "paths", "explicit"}
  BY DEF Deciding!NoAccess
<1> HIDE DEF b
<1>3. /\ a.folders = folders /\ a.ids = ids /\ a.paths = paths /\ a.explicit = (requested # {})
      /\ a.writable = b.folders \cap
           ((IF "Write" \in (IF Deciding!ChosenRelationship(g, b) THEN g.relationship.tools ELSE {})
             THEN g.relationship.folders ELSE {})
              \cup {p.folder : p \in {q \in Deciding!ChosenPolicies(g, b) : q.preset = "edit"}})
  BY <1>1, <1>2 DEF Deciding!Selected
<1>4. Deciding!ChosenRelationship(g, a) <=> Deciding!ChosenRelationship(g, b)
  BY <1>2, <1>3 DEF Deciding!ChosenRelationship, Deciding!Chooses
<1>5. Deciding!ChosenPolicies(g, a) = Deciding!ChosenPolicies(g, b)
  BY <1>2, <1>3 DEF Deciding!ChosenPolicies, Deciding!Chooses
<1>6. a.writable = a.folders \cap
           ((IF Deciding!ChosenRelationship(g, a) /\ "Write" \in g.relationship.tools
             THEN g.relationship.folders ELSE {})
              \cup {p.folder : p \in {q \in Deciding!ChosenPolicies(g, a) : q.preset = "edit"}})
  BY <1>2, <1>3, <1>4, <1>5
<1>7. ASSUME NEW f \in a.folders
      PROVE  \/ Deciding!ChosenRelationship(g, a) /\ f \in g.relationship.folders
             \/ \E p \in Deciding!ChosenPolicies(g, a) : p.folder = f
  <2>1. CASE \E p \in g.policies : p.folder = f /\ p.id \in ids
    BY <1>3, <1>7, <2>1 DEF Deciding!ChosenPolicies
  <2>2. CASE f \in Deciding!Available(g) /\ (~a.explicit \/ f \in paths)
    <3>1. Deciding!Chooses(a, {f})
      BY <1>3, <2>2 DEF Deciding!Chooses
    <3>2. CASE f \in Deciding!RelationshipFolders(g)
      BY <1>7, <3>1, <3>2 DEF Deciding!RelationshipFolders, Deciding!ChosenRelationship
    <3>3. CASE \E p \in g.policies : p.folder = f
      BY <1>7, <3>1, <3>3 DEF Deciding!ChosenPolicies
    <3> QED
      BY <2>2, <3>2, <3>3 DEF Deciding!Available
  <2>3. CASE requested = {}
    BY <1>3, <1>7, <2>2, <2>3
  <2>4. CASE requested # {}
    <3>1. f \in paths \/ f \in Deciding!FoldersOfIds(g, ids)
      BY <1>3, <1>7, <2>4
    <3>2. CASE f \in paths
      BY <2>2, <3>2 DEF Deciding!SelectedPaths
    <3>3. CASE f \in Deciding!FoldersOfIds(g, ids)
      BY <2>1, <3>3 DEF Deciding!FoldersOfIds
    <3> QED
      BY <3>1, <3>2, <3>3
  <2> QED
    BY <2>3, <2>4
<1> QED
  BY <1>6, <1>7

\* The folders in which one of the grants of an access allows a tool.
GrantedFolders(g, a, tool) ==
    (IF Deciding!ChosenRelationship(g, a) /\ tool \in g.relationship.tools
     THEN g.relationship.folders \cap a.folders ELSE {})
      \cup {p.folder : p \in {q \in Deciding!ChosenPolicies(g, a) : Deciding!AllowsTool(q.preset, tool)}}

\* What was captured at the launch allows a tool exactly where a grant of that time does.
LEMMA SnapshotIsGranted ==
  ASSUME NEW g \in Deciding!GrantSets, NEW m, NEW a, a = Deciding!AccessFor(g, m), a.status = "selected",
         NEW tool \in Deciding!Supported
  PROVE  (IF tool \in Deciding!WriteTools THEN a.writable ELSE a.folders) = GrantedFolders(g, a, tool)
<1>0. tool \in {"Read", "Write", "GitCommit"}
  BY DEF Deciding!Supported, Deciding!ReadTools, Deciding!WriteTools
<1>1. /\ \A f \in a.folders :
           \/ Deciding!ChosenRelationship(g, a) /\ f \in g.relationship.folders
           \/ \E p \in Deciding!ChosenPolicies(g, a) : p.folder = f
      /\ a.writable = a.folders \cap
           ((IF Deciding!ChosenRelationship(g, a) /\ "Write" \in g.relationship.tools
             THEN g.relationship.folders ELSE {})
              \cup {p.folder : p \in {q \in Deciding!ChosenPolicies(g, a) : q.preset = "edit"}})
  BY LaunchedAccess
<1>2. \A p \in Deciding!ChosenPolicies(g, a) : p.folder \in a.folders /\ p.preset \in {"read", "edit"}
  BY GrantFacts DEF Deciding!ChosenPolicies
<1>3. Deciding!ChosenRelationship(g, a) =>
        g.relationship.tools = {"Read"} \/ g.relationship.tools = {"Read", "Write", "GitCommit"}
  BY GrantFacts DEF Deciding!ChosenRelationship
<1>4. CASE tool = "Read"
  <2>1. tool \notin Deciding!WriteTools
    BY <1>4 DEF Deciding!WriteTools
  <2>2. \A p \in Deciding!ChosenPolicies(g, a) : Deciding!AllowsTool(p.preset, tool)
    BY <1>2, <1>4 DEF Deciding!AllowsTool, Deciding!PresetTools, Deciding!ReadTools, Deciding!WriteTools
  <2>3. GrantedFolders(g, a, tool) = a.folders
    BY <1>1, <1>2, <1>3, <1>4, <2>2 DEF GrantedFolders
  <2> QED
    BY <2>1, <2>3
<1>5. CASE tool \in {"Write", "GitCommit"}
  <2>1. tool \in Deciding!WriteTools
    BY <1>5 DEF Deciding!WriteTools
  <2>2. \A p \in Deciding!ChosenPolicies(g, a) : Deciding!AllowsTool(p.preset, tool) <=> p.preset = "edit"
    BY <1>2, <1>5 DEF Deciding!AllowsTool, Deciding!PresetTools, Deciding!ReadTools, Deciding!WriteTools
  <2>3. Deciding!ChosenRelationship(g, a) => ("Write" \in g.relationship.tools <=> tool \in g.relationship.tools)
    BY <1>3, <1>5
  <2>4. GrantedFolders(g, a, tool) = a.writable
    BY <1>1, <1>2, <2>2, <2>3 DEF GrantedFolders
  <2> QED
    BY <2>1, <2>4
<1> QED
  BY <1>0, <1>4, <1>5

\* The first of a set of folders that is not empty is one of them.
LEMMA FirstOfFolders ==
  ASSUME NEW folders \in SUBSET {<<"a">>, <<"a", "c">>}, folders # {}
  PROVE  Deciding!SetToSeq(folders)[1] \in folders
<1>1. IsFiniteSet({<<"a">>, <<"a", "c">>})
  <2>1. IsFiniteSet({}) /\ IsFiniteSet({} \cup {<<"a">>})
    BY FS_EmptySet, FS_AddElement
  <2>2. IsFiniteSet(({} \cup {<<"a">>}) \cup {<<"a", "c">>})
    BY <2>1, FS_AddElement
  <2>3. ({} \cup {<<"a">>}) \cup {<<"a", "c">>} = {<<"a">>, <<"a", "c">>}
    OBVIOUS
  <2> QED
    BY <2>2, <2>3
<1>2. IsFiniteSet(folders)
  BY <1>1, FS_Subset
<1>3. Cardinality(folders) \in Nat /\ Cardinality(folders) # 0
  BY <1>2, FS_CardinalityType, FS_EmptySet
<1>4. PICK f \in Bijection(1 .. Cardinality(folders), folders) : TRUE
  BY <1>2, FS_CardinalityType DEF ExistsBijection
<1>5. f \in [1 .. Cardinality(folders) -> folders] /\ Deciding!IsInjective(f)
  BY <1>4 DEF Bijection, Injection, IsInjective, Deciding!IsInjective
<1>6. Deciding!SetToSeq(folders) \in [1 .. Cardinality(folders) -> folders]
  <2>1. Deciding!Cardinality(folders) = Cardinality(folders)
    BY DEF Deciding!Cardinality, Cardinality
  <2> QED
    BY <1>5, <2>1 DEF Deciding!SetToSeq
<1>7. 1 \in 1 .. Cardinality(folders)
  BY <1>3
<1> QED
  BY <1>6, <1>7

\* What a path is made of.
PathNames == {"a", "c", "w"} \cup Deciding!Names

\* A path is a name appended to a granted folder or to the working directory.
LEMMA ResolvedPath ==
  ASSUME NEW folders \in SUBSET {<<"a">>, <<"a", "c">>}, NEW target \in Deciding!Targets
  PROVE  \E pre \in Seq(PathNames) : Deciding!Resolve(folders, target) = Append(pre, target.name)
<1>1. /\ <<"a">> \in Seq(PathNames) /\ <<"a", "c">> \in Seq(PathNames) /\ <<"w">> \in Seq(PathNames)
  <2>1. "a" \in PathNames /\ "c" \in PathNames /\ "w" \in PathNames
    BY DEF PathNames
  <2>2. \A S, x, y : x \in S /\ y \in S => <<x>> \in Seq(S) /\ <<x, y>> \in Seq(S)
    OBVIOUS
  <2> QED
    BY <2>1, <2>2
<1>2. target.folder \in {<<"a">>, <<"a", "c">>, None}
  BY DEF Deciding!Targets
<1>3. CASE target.folder # None
  BY <1>1, <1>2, <1>3 DEF Deciding!Resolve
<1>4. CASE target.folder = None /\ (Deciding!InSome(folders, Append(<<"w">>, target.name)) \/ folders = {})
  BY <1>1, <1>4 DEF Deciding!Resolve
<1>5. CASE target.folder = None /\ ~(Deciding!InSome(folders, Append(<<"w">>, target.name)) \/ folders = {})
  <2>1. Deciding!Resolve(folders, target) = Append(Deciding!SetToSeq(folders)[1], target.name)
    BY <1>5 DEF Deciding!Resolve
  <2>2. Deciding!SetToSeq(folders)[1] \in folders
    BY <1>5, FirstOfFolders
  <2> QED
    BY <1>1, <2>1, <2>2
<1> QED
  BY <1>3, <1>4, <1>5

\* Taking the last name off a path and putting it back gives the path.
LEMMA PathTakenApart ==
  ASSUME NEW pre \in Seq(PathNames), NEW name \in PathNames, NEW path, path = Append(pre, name)
  PROVE  /\ Deciding!Front(path) \in Seq(PathNames) /\ Deciding!Front(path) # None
         /\ Append(Deciding!Front(path), Deciding!Last(path)) = path
<1>1. path \in Seq(PathNames) /\ Len(path) = Len(pre) + 1 /\ Deciding!Last(path) = name
  <2>1. PICK S : S = PathNames
    OBVIOUS
  <2>2. pre \in Seq(S) /\ name \in S
    BY <2>1
  <2>3. path \in Seq(S) /\ Len(path) = Len(pre) + 1 /\ path[Len(path)] = name
    BY <2>2, AppendProperties
  <2> QED
    BY <2>1, <2>3 DEF Deciding!Last
<1>2. Deciding!Front(path) = pre
  <2>1. Deciding!Front(path) = SubSeq(path, 1, Len(pre))
    BY <1>1 DEF Deciding!Front
  <2>2. SubSeq(path, 1, Len(pre)) \in Seq(PathNames) /\ Len(SubSeq(path, 1, Len(pre))) = Len(pre)
    BY <1>1
  <2>3. \A i \in 1 .. Len(pre) : SubSeq(path, 1, Len(pre))[i] = pre[i]
    BY <1>1
  <2>4. SubSeq(path, 1, Len(pre)) = pre
    BY <2>2, <2>3, SeqEqual
  <2> QED
    BY <2>1, <2>4
<1> QED
  BY <1>1, <1>2, AccessAssumption DEF AccessAssumption, PathNames

\* The folders in which the boundary of a grant lies, whatever the tool; and the two ways an
\* action is authorized, by a grant for its tool and by the boundary alone.
BoundaryFolders(g, a) ==
    (IF Deciding!ChosenRelationship(g, a) THEN g.relationship.folders \cap a.folders ELSE {})
      \cup {p.folder : p \in Deciding!ChosenPolicies(g, a)}

ByGrant(g, a, action) == Deciding!Authorize(g, a, action, TRUE)
ByBoundary(g, a, action) == Deciding!Authorize(g, a, action, FALSE)

\* A verdict is positive where its condition holds, and then it names the path.
LEMMA Verdict ==
  ASSUME NEW c \in BOOLEAN, NEW path, NEW verdict,
         verdict = IF c THEN [allowed |-> TRUE, path |-> path] ELSE Deciding!Denied
  PROVE  (verdict.allowed <=> c) /\ (c => verdict.path = path)
<1>1. CASE c
  <2>1. verdict = [allowed |-> TRUE, path |-> path]
    BY <1>1
  <2> QED
    BY <1>1, <2>1
<1>2. CASE ~c
  <2>1. verdict = [allowed |-> FALSE, path |-> <<>>]
    BY <1>2 DEF Deciding!Denied
  <2> QED
    BY <1>2, <2>1
<1> QED
  BY <1>1, <1>2

\* When a grant for the tool is asked for, an authorization is positive in a folder of such a grant.
LEMMA GrantLooksAt ==
  ASSUME NEW g, NEW a, NEW action, NEW folders, NEW path, NEW verdict,
         folders = GrantedFolders(g, a, action.tool), path = Deciding!Resolve(folders, action.target),
         verdict = ByGrant(g, a, action)
  PROVE  /\ verdict.allowed <=>
              /\ a.status = "selected" /\ action.tool \in Deciding!Supported
              /\ folders # {} /\ ~Deciding!Dangerous(action.tool, path) /\ Deciding!InSome(folders, path)
         /\ verdict.allowed => verdict.path = path
<1> DEFINE c == /\ a.status = "selected" /\ action.tool \in Deciding!Supported
                /\ folders # {} /\ ~Deciding!Dangerous(action.tool, path) /\ Deciding!InSome(folders, path)
<1>1. verdict = IF c THEN [allowed |-> TRUE, path |-> path] ELSE Deciding!Denied
  BY DEF ByGrant, Deciding!Authorize, GrantedFolders
<1>2. c \in BOOLEAN
  BY DEF Deciding!InSome, Deciding!Dangerous
<1> HIDE DEF c
<1>3. (verdict.allowed <=> c) /\ (c => verdict.path = path)
  BY <1>1, <1>2, Verdict
<1> QED
  BY <1>3 DEF c

LEMMA GrantAllows ==
  ASSUME NEW g, NEW a, NEW action, NEW path, path = Deciding!Resolve(GrantedFolders(g, a, action.tool), action.target),
         a.status = "selected", action.tool \in Deciding!Supported, GrantedFolders(g, a, action.tool) # {},
         ~Deciding!Dangerous(action.tool, path), Deciding!InSome(GrantedFolders(g, a, action.tool), path)
  PROVE  ByGrant(g, a, action).allowed
<1>1. PICK folders, verdict : folders = GrantedFolders(g, a, action.tool) /\ verdict = ByGrant(g, a, action)
  OBVIOUS
<1> QED
  BY <1>1, GrantLooksAt

\* And the boundary alone looks at the folders of every chosen grant.
LEMMA BoundaryLooksAt ==
  ASSUME NEW g, NEW a, NEW action, NEW folders, NEW path, NEW verdict,
         folders = BoundaryFolders(g, a), path = Deciding!Resolve(folders, action.target),
         verdict = ByBoundary(g, a, action)
  PROVE  /\ verdict.allowed <=>
              /\ a.status = "selected" /\ action.tool \in Deciding!Supported
              /\ folders # {} /\ ~Deciding!Dangerous(action.tool, path) /\ Deciding!InSome(folders, path)
         /\ verdict.allowed => verdict.path = path
<1> DEFINE c == /\ a.status = "selected" /\ action.tool \in Deciding!Supported
                /\ folders # {} /\ ~Deciding!Dangerous(action.tool, path) /\ Deciding!InSome(folders, path)
<1>1. verdict = IF c THEN [allowed |-> TRUE, path |-> path] ELSE Deciding!Denied
  <2>1. {q \in Deciding!ChosenPolicies(g, a) : TRUE} = Deciding!ChosenPolicies(g, a)
    OBVIOUS
  <2> QED
    BY <2>1 DEF ByBoundary, Deciding!Authorize, BoundaryFolders
<1>2. c \in BOOLEAN
  BY DEF Deciding!InSome, Deciding!Dangerous
<1> HIDE DEF c
<1>3. (verdict.allowed <=> c) /\ (c => verdict.path = path)
  BY <1>1, <1>2, Verdict
<1> QED
  BY <1>3 DEF c

\* What is considered are granted folders, and a grant for the tool only narrows them.
LEMMA ConsideredFolders ==
  ASSUME NEW g \in Deciding!GrantSets, NEW a, NEW tool
  PROVE  /\ GrantedFolders(g, a, tool) \subseteq BoundaryFolders(g, a)
         /\ BoundaryFolders(g, a) \subseteq Deciding!Available(g)
         /\ Deciding!Available(g) \subseteq {<<"a">>, <<"a", "c">>}
<1>1. GrantedFolders(g, a, tool) \subseteq BoundaryFolders(g, a)
  BY DEF BoundaryFolders, GrantedFolders
<1>2. BoundaryFolders(g, a) \subseteq Deciding!Available(g)
  BY DEF BoundaryFolders, Deciding!ChosenRelationship, Deciding!ChosenPolicies, Deciding!Available, Deciding!RelationshipFolders
<1>3. Deciding!Available(g) \subseteq {<<"a">>, <<"a", "c">>}
  BY GrantFacts DEF Deciding!Available, Deciding!RelationshipFolders
<1> QED
  BY <1>1, <1>2, <1>3

LEMMA MoreFolders ==
  ASSUME NEW folders, NEW others, folders \subseteq others, NEW path, Deciding!InSome(folders, path)
  PROVE  Deciding!InSome(others, path)
BY DEF Deciding!InSome

\* Where the grants now and the launched access both allow a call, one grant of each allows it.
LEMMA RightsAreNotMixed ==
  ASSUME NEW g \in Deciding!GrantSets, NEW l \in Deciding!GrantSets, NEW m, NEW s, NEW action \in Deciding!Actions,
         s.access = Deciding!AccessFor(l, m), s.access.status = "selected",
         NEW now, now = Deciding!AccessFor(g, m),
         NEW decided, decided = Deciding!InsideBoundary(g, now, s, action), decided.allowed,
         NEW at, at = [action EXCEPT !.target = [folder |-> Deciding!Front(decided.path),
                                                 name |-> Deciding!Last(decided.path)]]
  PROVE  /\ Deciding!InSome(Deciding!Available(g), decided.path)
         /\ ByGrant(l, s.access, at).allowed
<1>a. PICK folders : folders = BoundaryFolders(g, now)
  OBVIOUS
<1>b. PICK path : path = Deciding!Resolve(folders, action.target)
  OBVIOUS
<1>1. /\ ByBoundary(g, now, action).allowed /\ decided = ByBoundary(g, now, action)
      /\ Deciding!SnapshotAllows(s.access, action.tool, decided.path)
  BY DEF ByBoundary, Deciding!InsideBoundary, Deciding!Denied
<1>2. /\ decided.path = path /\ action.tool \in Deciding!Supported
      /\ ~Deciding!Dangerous(action.tool, path) /\ Deciding!InSome(folders, path)
  BY <1>a, <1>b, <1>1, BoundaryLooksAt
<1>3. Deciding!InSome(Deciding!Available(g), decided.path)
  BY <1>a, <1>2, ConsideredFolders, MoreFolders
<1>4. action.target \in Deciding!Targets /\ action.target.name \in PathNames
  BY DEF Deciding!Actions, Deciding!Targets, PathNames
<1>5. folders \in SUBSET {<<"a">>, <<"a", "c">>}
  BY <1>a, ConsideredFolders
<1>6. PICK pre \in Seq(PathNames) : path = Append(pre, action.target.name)
  BY <1>b, <1>4, <1>5, ResolvedPath
<1>7. Deciding!Front(path) # None /\ Append(Deciding!Front(path), Deciding!Last(path)) = path
  BY <1>4, <1>6, PathTakenApart
<1>8. at.tool = action.tool /\ at.target = [folder |-> Deciding!Front(path), name |-> Deciding!Last(path)]
  BY <1>1, <1>2 DEF Deciding!Actions
<1>9. \A others : Deciding!Resolve(others, at.target) = path
  <2>1. at.target.folder = Deciding!Front(path) /\ at.target.name = Deciding!Last(path)
    BY <1>8
  <2> QED
    BY <1>7, <2>1 DEF Deciding!Resolve
<1>10. (IF action.tool \in Deciding!WriteTools THEN s.access.writable ELSE s.access.folders)
          = GrantedFolders(l, s.access, action.tool)
  BY <1>2, SnapshotIsGranted
<1>11. Deciding!InSome(GrantedFolders(l, s.access, action.tool), path)
  BY <1>1, <1>2, <1>10 DEF Deciding!SnapshotAllows
<1>12. GrantedFolders(l, s.access, action.tool) # {}
  BY <1>11 DEF Deciding!InSome
<1>13. ByGrant(l, s.access, at).allowed
  <2>1. at.tool \in Deciding!Supported /\ GrantedFolders(l, s.access, at.tool) # {}
        /\ ~Deciding!Dangerous(at.tool, path) /\ Deciding!InSome(GrantedFolders(l, s.access, at.tool), path)
    BY <1>2, <1>8, <1>11, <1>12
  <2>2. path = Deciding!Resolve(GrantedFolders(l, s.access, at.tool), at.target)
    BY <1>9
  <2> QED
    BY <2>1, <2>2, GrantAllows
<1> QED
  BY <1>3, <1>13

\* While nothing has changed, what a grant allows for an absolute path is inside both.
LEMMA NothingIsRefused ==
  ASSUME NEW g \in Deciding!GrantSets, NEW m, NEW s, NEW action \in Deciding!Actions,
         s.access = Deciding!AccessFor(g, m), s.access.status = "selected",
         Deciding!Absolute(action), ByGrant(g, s.access, action).allowed
  PROVE  Deciding!InsideBoundary(g, s.access, s, action).allowed
<1>a. PICK granted, folders : /\ granted = GrantedFolders(g, s.access, action.tool)
                              /\ folders = BoundaryFolders(g, s.access)
  OBVIOUS
<1>b. PICK path : path = Deciding!Resolve(granted, action.target)
  OBVIOUS
<1>1. /\ action.tool \in Deciding!Supported /\ granted # {}
      /\ ~Deciding!Dangerous(action.tool, path) /\ Deciding!InSome(granted, path)
  <2>1. PICK verdict : verdict = ByGrant(g, s.access, action)
    OBVIOUS
  <2> QED
    BY <1>a, <1>b, <2>1, GrantLooksAt
<1>2. path = Deciding!Resolve(folders, action.target)
  BY <1>b DEF Deciding!Resolve, Deciding!Absolute
<1>3. folders # {} /\ Deciding!InSome(folders, path)
  BY <1>a, <1>1, ConsideredFolders, MoreFolders
<1>4. PICK verdict : verdict = ByBoundary(g, s.access, action)
  OBVIOUS
<1>c. verdict.allowed /\ verdict.path = path
  BY <1>a, <1>1, <1>2, <1>3, <1>4, BoundaryLooksAt
<1>5. (IF action.tool \in Deciding!WriteTools THEN s.access.writable ELSE s.access.folders) = granted
  BY <1>a, <1>1, SnapshotIsGranted
<1>6. Deciding!SnapshotAllows(s.access, action.tool, path)
  BY <1>1, <1>5 DEF Deciding!SnapshotAllows
<1> QED
  BY <1>4, <1>c, <1>6 DEF ByBoundary, Deciding!InsideBoundary

\* A task that selects one policy by its id is launched with that policy's folder and preset.
LEMMA OnePolicySelected ==
  ASSUME NEW g \in Deciding!GrantSets, NEW p \in g.policies, NEW m, m = [kind |-> "explicit", names |-> {p.id}],
         NEW a, a = Deciding!AccessFor(g, m), a.status = "selected"
  PROVE  /\ a.folders = {p.folder} /\ a.preset = p.preset
         /\ a.writable = (IF p.preset = "edit" THEN {p.folder} ELSE {})
<1> DEFINE b == [Deciding!NoAccess("selected") EXCEPT
                   !.folders = {p.folder}, !.ids = {p.id}, !.paths = {}, !.explicit = TRUE]
<1>1. Deciding!Requested(g, m) = {p.id} /\ Deciding!SelectedIds(g, m) = {p.id}
  BY DEF Deciding!Requested, Deciding!SelectedIds
<1>2. Deciding!SelectedPaths(g, m) = {}
  <2>1. p.id \in {<<"p1">>, <<"p2">>} /\ Deciding!Available(g) \subseteq {<<"a">>, <<"a", "c">>}
    BY GrantFacts, ConsideredFolders
  <2>2. \A x \in {<<"p1">>, <<"p2">>}, y \in {<<"a">>, <<"a", "c">>} : x # y
    OBVIOUS
  <2> QED
    BY <1>1, <2>1, <2>2 DEF Deciding!SelectedPaths
<1>3. \A q \in g.policies : q.id = p.id => q = p
  BY GrantFacts
<1>4. Deciding!FoldersOfIds(g, {p.id}) = {p.folder}
  BY <1>3 DEF Deciding!FoldersOfIds
<1>5. a = Deciding!Selected(g, b)
  <2>1. Deciding!AccessFor(g, m) =
          IF {p.id} \ ({p.id} \cup {}) # {} THEN Deciding!NoAccess("not_found")
          ELSE IF Deciding!Cardinality({} \cup {p.folder}) > 1 /\ {p.id} = {} THEN Deciding!NoAccess("selection_required")
          ELSE IF {} \cup {p.folder} = {} THEN Deciding!NoAccess("none")
          ELSE Deciding!Selected(g, [Deciding!NoAccess("selected") EXCEPT
                 !.folders = {} \cup {p.folder}, !.ids = {p.id}, !.paths = {}, !.explicit = {p.id} # {}])
    BY <1>1, <1>2, <1>4 DEF Deciding!AccessFor
  <2>2. {p.id} \ ({p.id} \cup {}) = {} /\ {p.id} # {} /\ {} \cup {p.folder} = {p.folder} /\ {p.folder} # {}
    OBVIOUS
  <2>3. ({p.id} # {}) = TRUE
    OBVIOUS
  <2> QED
    BY <2>1, <2>2, <2>3
<1>6. /\ b.folders = {p.folder} /\ b.ids = {p.id} /\ b.paths = {} /\ b.explicit
      /\ DOMAIN b = {"status", "preset", "folders", "writable", "ids", "paths", "explicit"}
  BY DEF Deciding!NoAccess
<1> HIDE DEF b
<1>7. ~Deciding!ChosenRelationship(g, b)
  BY <1>6 DEF Deciding!ChosenRelationship, Deciding!Chooses
<1>8. Deciding!ChosenPolicies(g, b) = {p}
  BY <1>3, <1>6 DEF Deciding!ChosenPolicies, Deciding!Chooses
<1>9. /\ a.folders = b.folders
      /\ a.preset = Deciding!Strongest({Deciding!PresetForTools({})} \cup {q.preset : q \in {p}})
      /\ a.writable = b.folders \cap ((IF "Write" \in {} THEN g.relationship.folders ELSE {})
                                        \cup {q.folder : q \in {r \in {p} : r.preset = "edit"}})
  BY <1>5, <1>6, <1>7, <1>8 DEF Deciding!Selected
<1>10. a.preset = p.preset
  <2>1. Deciding!PresetForTools({}) = "none"
    BY DEF Deciding!PresetForTools
  <2>2. {"none"} \cup {q.preset : q \in {p}} = {"none", p.preset}
    OBVIOUS
  <2>3. p.preset \in {"read", "edit"}
    BY GrantFacts
  <2> QED
    BY <1>9, <2>1, <2>2, <2>3 DEF Deciding!Strongest
<1> QED
  <2>1. (IF "Write" \in {} THEN g.relationship.folders ELSE {}) = {}
    OBVIOUS
  <2>2. {q.folder : q \in {r \in {p} : r.preset = "edit"}} = IF p.preset = "edit" THEN {p.folder} ELSE {}
    OBVIOUS
  <2>3. a.writable = {p.folder} \cap ({} \cup IF p.preset = "edit" THEN {p.folder} ELSE {})
    BY <1>6, <1>9, <2>1, <2>2
  <2> QED
    BY <1>6, <1>9, <1>10, <2>3

\* A task holds the access that the grants of its launch gave for its message.
DecidingInv ==
    /\ Deciding!TypeOK
    /\ session # None => /\ session.access = Deciding!AccessFor(session.launched, session.message)
                         /\ session.access.status = "selected"

LEMMA DecidingInit ==
  ASSUME Deciding!Init
  PROVE  DecidingInv
<1>1. grants \in Deciding!GrantSets /\ session = None /\ outdated = FALSE /\ call = None /\ changes = 0
  BY DEF Deciding!Init
<1>2. MaxChanges \in Nat
  BY AccessAssumption DEF AccessAssumption
<1>3. changes \in 0 .. MaxChanges
  BY <1>1, <1>2
<1> QED
  BY <1>1, <1>3 DEF DecidingInv, Deciding!TypeOK

\* Every change of the grants gives grants again.
LEMMA GrantsStayGrants ==
  ASSUME DecidingInv, Deciding!Next
  PROVE  grants' \in Deciding!GrantSets /\ changes' \in 0 .. MaxChanges
<1>0. grants \in Deciding!GrantSets /\ changes \in 0 .. MaxChanges /\ MaxChanges \in Nat
  BY AccessAssumption DEF AccessAssumption, DecidingInv, Deciding!TypeOK
<1>1. /\ grants = [relationship |-> grants.relationship, policies |-> grants.policies]
      /\ grants.relationship \in Deciding!Relationships \cup {None} /\ grants.policies \in Deciding!PolicySets
  BY <1>0 DEF Deciding!GrantSets
<1>2. CASE \E r \in Deciding!Relationships \cup {None} : Deciding!UpdateRelationship(r)
  <2>1. PICK r \in Deciding!Relationships \cup {None} : Deciding!UpdateRelationship(r)
    BY <1>2
  <2>2. grants' = [relationship |-> r, policies |-> grants.policies]
    BY <1>1, <2>1 DEF Deciding!UpdateRelationship
  <2>3. grants' \in Deciding!GrantSets
    BY <1>1, <2>2 DEF Deciding!GrantSets
  <2> QED
    BY <1>0, <2>1, <2>3 DEF Deciding!UpdateRelationship
<1>3. CASE \E p \in Deciding!Policies : Deciding!GrantPolicy(p)
  <2>1. PICK p \in Deciding!Policies : Deciding!GrantPolicy(p)
    BY <1>3
  <2>2. grants' = [relationship |-> grants.relationship, policies |-> grants.policies \cup {p}]
    BY <1>1, <2>1 DEF Deciding!GrantPolicy
  <2>3. grants.policies \cup {p} \in Deciding!PolicySets
    BY <1>1, <2>1 DEF Deciding!GrantPolicy, Deciding!PolicySets
  <2>4. grants' \in Deciding!GrantSets
    BY <1>1, <2>2, <2>3 DEF Deciding!GrantSets
  <2> QED
    BY <1>0, <2>1, <2>4 DEF Deciding!GrantPolicy
<1>4. CASE \E id \in {<<"p1">>, <<"p2">>} : Deciding!RevokePolicy(id)
  <2>1. PICK id \in {<<"p1">>, <<"p2">>} : Deciding!RevokePolicy(id)
    BY <1>4
  <2>2. grants' = [relationship |-> grants.relationship, policies |-> {p \in grants.policies : p.id # id}]
    BY <1>1, <2>1 DEF Deciding!RevokePolicy
  <2>3. {p \in grants.policies : p.id # id} \in Deciding!PolicySets
    BY <1>1 DEF Deciding!PolicySets
  <2>4. grants' \in Deciding!GrantSets
    BY <1>1, <2>2, <2>3 DEF Deciding!GrantSets
  <2> QED
    BY <1>0, <2>1, <2>4 DEF Deciding!RevokePolicy
<1>5. CASE UNCHANGED <<grants, changes>>
  BY <1>0, <1>5
<1>6. \/ \E r \in Deciding!Relationships \cup {None} : Deciding!UpdateRelationship(r)
      \/ \E p \in Deciding!Policies : Deciding!GrantPolicy(p)
      \/ \E id \in {<<"p1">>, <<"p2">>} : Deciding!RevokePolicy(id)
      \/ UNCHANGED <<grants, changes>>
  BY DEF Deciding!Next, Deciding!Launch, Deciding!Invalidate, Deciding!CallTool, Deciding!CallShell, Deciding!Done
<1> QED
  BY <1>2, <1>3, <1>4, <1>5, <1>6

\* Only a launch gives a session, with what the grants are then.
LEMMA SessionIsLaunched ==
  ASSUME DecidingInv, Deciding!Next
  PROVE  \/ session' = session
         \/ session' = None
         \/ \E m \in Deciding!Selections :
              /\ session' = [message |-> m, access |-> Deciding!AccessFor(grants, m), launched |-> grants]
              /\ Deciding!AccessFor(grants, m).status = "selected"
BY DEF Deciding!Next, Deciding!Launch, Deciding!UpdateRelationship, Deciding!GrantPolicy, Deciding!RevokePolicy,
       Deciding!Invalidate, Deciding!CallTool, Deciding!CallShell, Deciding!Done

LEMMA CallsAreDecided ==
  ASSUME DecidingInv, Deciding!Next
  PROVE  outdated' \in BOOLEAN /\ call' \in Deciding!Outcomes \cup {None}
<1>0. outdated \in BOOLEAN /\ call \in Deciding!Outcomes \cup {None}
  BY DEF DecidingInv, Deciding!TypeOK
<1>1. \A g, now, s, action : Deciding!Decide(g, now, s, action) \in Deciding!Outcomes
  BY DEF Deciding!Decide, Deciding!Outcomes
<1>2. \A g, now, s : Deciding!DecideShell(g, now, s) \in Deciding!Outcomes
  BY DEF Deciding!DecideShell, Deciding!Outcomes
<1>3. CASE Deciding!CallTool
  BY <1>0, <1>1, <1>3 DEF Deciding!CallTool
<1>4. CASE Deciding!CallShell
  BY <1>0, <1>2, <1>4 DEF Deciding!CallShell
<1>5. CASE call' \in {call, None} /\ outdated' \in {outdated, FALSE, session # None}
  BY <1>0, <1>5
<1>6. \/ Deciding!CallTool \/ Deciding!CallShell
      \/ call' \in {call, None} /\ outdated' \in {outdated, FALSE, session # None}
  BY DEF Deciding!Next, Deciding!Launch, Deciding!UpdateRelationship, Deciding!GrantPolicy, Deciding!RevokePolicy,
         Deciding!Invalidate, Deciding!Done
<1> QED
  BY <1>3, <1>4, <1>5, <1>6

LEMMA DecidingNext ==
  ASSUME DecidingInv, [Deciding!Next]_deciding
  PROVE  DecidingInv'
<1>1. CASE UNCHANGED deciding
  BY <1>1 DEF deciding, DecidingInv, Deciding!TypeOK
<1>2. CASE Deciding!Next
  <2>1. /\ grants' \in Deciding!GrantSets /\ changes' \in 0 .. MaxChanges
        /\ outdated' \in BOOLEAN /\ call' \in Deciding!Outcomes \cup {None}
    BY <1>2, GrantsStayGrants, CallsAreDecided
  <2>2. ASSUME session' # None
        PROVE  /\ session'.message \in Deciding!Selections /\ session'.launched \in Deciding!GrantSets
               /\ session'.access = Deciding!AccessFor(session'.launched, session'.message)
               /\ session'.access.status = "selected"
    <3>1. CASE session' = session
      BY <2>2, <3>1 DEF DecidingInv, Deciding!TypeOK
    <3>2. ASSUME NEW m \in Deciding!Selections, Deciding!AccessFor(grants, m).status = "selected",
                 session' = [message |-> m, access |-> Deciding!AccessFor(grants, m), launched |-> grants]
          PROVE  /\ session'.message \in Deciding!Selections /\ session'.launched \in Deciding!GrantSets
                 /\ session'.access = Deciding!AccessFor(session'.launched, session'.message)
                 /\ session'.access.status = "selected"
      BY <3>2 DEF DecidingInv, Deciding!TypeOK
    <3> QED
      BY <1>2, <2>2, <3>1, <3>2, SessionIsLaunched
  <2> QED
    BY <2>1, <2>2 DEF DecidingInv, Deciding!TypeOK
<1> QED
  BY <1>1, <1>2

LEMMA DecidingSafe ==
  ASSUME DecidingInv
  PROVE  Deciding!AccessIsExact
<1>1. ASSUME session # None
      PROVE  Deciding!NoRightsMix /\ Deciding!SelectionIsExact
  <2>1. PICK l, m, s : s = session /\ l = session.launched /\ m = session.message
    OBVIOUS
  <2>2. /\ grants \in Deciding!GrantSets /\ l \in Deciding!GrantSets
        /\ s.access = Deciding!AccessFor(l, m) /\ s.access.status = "selected"
    BY <1>1, <2>1 DEF DecidingInv, Deciding!TypeOK
  <2>3. PICK now : now = Deciding!AccessFor(grants, m)
    OBVIOUS
  <2>4. ASSUME NEW action \in Deciding!Actions, NEW decided, NEW at,
               decided = Deciding!InsideBoundary(grants, now, s, action),
               at = [action EXCEPT !.target = [folder |-> Deciding!Front(decided.path),
                                               name |-> Deciding!Last(decided.path)]]
        PROVE  /\ decided.allowed => /\ Deciding!InSome(Deciding!Available(grants), decided.path)
                                     /\ Deciding!Authorize(l, s.access, at, TRUE).allowed
               /\ /\ Deciding!Absolute(action) /\ grants = l
                  /\ Deciding!Authorize(grants, now, action, TRUE).allowed
                  => decided.allowed
    <3>1. ASSUME decided.allowed
          PROVE  /\ Deciding!InSome(Deciding!Available(grants), decided.path)
                 /\ ByGrant(l, s.access, at).allowed
      BY <2>2, <2>3, <2>4, <3>1, RightsAreNotMixed
    <3>2. ASSUME Deciding!Absolute(action), grants = l, ByGrant(grants, now, action).allowed
          PROVE  decided.allowed
      <4>1. now = s.access
        BY <2>2, <2>3, <3>2
      <4>2. Deciding!InsideBoundary(l, s.access, s, action).allowed
        BY <2>2, <3>2, <4>1, NothingIsRefused
      <4> QED
        BY <2>4, <3>2, <4>1, <4>2
    <3> QED
      BY <3>1, <3>2 DEF ByGrant
  <2>5. Deciding!NoRightsMix
    BY <2>1, <2>2, <2>3, <2>4 DEF Deciding!NoRightsMix, Deciding!Now
  <2>6. ASSUME NEW p \in l.policies, m = [kind |-> "explicit", names |-> {p.id}]
        PROVE  /\ s.access.folders = {p.folder} /\ s.access.preset = p.preset
               /\ s.access.writable = (IF p.preset = "edit" THEN {p.folder} ELSE {})
    <3>1. PICK a : a = s.access
      OBVIOUS
    <3>2. a = Deciding!AccessFor(l, m) /\ a.status = "selected"
      BY <2>2, <3>1
    <3>3. /\ a.folders = {p.folder} /\ a.preset = p.preset
          /\ a.writable = (IF p.preset = "edit" THEN {p.folder} ELSE {})
      BY <2>2, <2>6, <3>2, OnePolicySelected
    <3> QED
      BY <3>1, <3>3
  <2>7. Deciding!SelectionIsExact
    BY <2>1, <2>6 DEF Deciding!SelectionIsExact
  <2> QED
    BY <2>5, <2>7
<1> QED
  BY <1>1 DEF Deciding!AccessIsExact, Deciding!NoRightsMix, Deciding!SelectionIsExact

-----------------------------------------------------------------------------
(* Policies (PolicyStore).                                                  *)

PolicyIds == Hosted \cup Local

PolicyEvents == [id : Hosted, type : {"allow", "revoke"}, preset : Presets,
                 run : 0 .. MaxPolicyFaults + 1, rev : 0 .. MaxEvents]

PolicyRecords == [id : PolicyIds, preset : Presets, run : 0 .. MaxPolicyFaults + 1,
                  status : {"active", "revoked", "invalid"}, uses : 0 .. MaxUses,
                  pending : SUBSET (1 .. MaxUses)]

PolicyDocuments == [revs : [PolicyIds -> 0 .. MaxEvents \cup {None}], recs : Seq(PolicyRecords)]

Writes == [stale : BOOLEAN, new : PolicyDocuments]

UseRows == [id : PolicyIds, uses : (SUBSET (1 .. MaxUses)) \ {{}}]

StoringTypes ==
    /\ doc \in PolicyDocuments
    /\ writing \in [{"bridge", "cli"} -> {None} \cup Writes]
    /\ log \in Seq(PolicyEvents) /\ cursor \in 0 .. Len(log)
    /\ handled \in BOOLEAN /\ (handled => cursor < Len(log))
    /\ policyFaults \in 0 .. MaxPolicyFaults /\ run \in 1 .. policyFaults + 1
    /\ report \in [todo : Seq(UseRows), answer : {None, "accepted", "gone"}]
    /\ report.answer # None => report.todo # <<>>
    /\ hosted \in [PolicyIds -> SUBSET (1 .. MaxUses)]
    /\ ended \in [PolicyIds -> 0 .. MaxEvents \cup {None}]
    /\ kept \subseteq Hosted /\ raced \in BOOLEAN

\* Every revision of a policy is newer than those before, and no event is of a run to come.
LogIsOrdered(l, r) ==
    /\ \A n \in 1 .. Len(l) : l[n].rev >= 1 /\ l[n].run <= r
    /\ \A m, n \in 1 .. Len(l) : m < n /\ l[m].id = l[n].id => l[m].rev < l[n].rev

\* Storing!Newest, of the events l.
NewestOf(l, cut, i) ==
    LET revs == {l[n].rev : n \in {m \in 1 .. cut : l[m].id = i}}
    IN CHOOSE r \in revs \cup {0} : \A q \in revs : q <= r

\* Over the document d, in the run r and with the policies k kept, handling e makes nothing active.
Digested(d, e, r, k) ==
    \/ e.type = "revoke" \/ e.run \notin {0, r} \/ e.id \in k
    \/ d.revs[e.id] # None /\ d.revs[e.id] >= e.rev

Fresh(p) == writing[p] # None /\ ~writing[p].stale

\* The event that was handled last is in the file, or will be with the write that is under way.
HandledIsDigested ==
    handled => /\ writing["bridge"] = None => Digested(doc, log[cursor + 1], run, kept)
               /\ Fresh("bridge") => Digested(writing["bridge"].new, log[cursor + 1], run, kept)

\* A revocation is at a revision of the past, or at that of an event which is in the file.
EndedIsPast ==
    \A i \in Hosted \ kept :
        ended[i] # None =>
            \/ ended[i] <= NewestOf(log, cursor, i)
            \/ /\ cursor < Len(log) /\ log[cursor + 1].id = i
               /\ ended[i] = log[cursor + 1].rev /\ Digested(doc, log[cursor + 1], run, kept)

\* What the owner has revoked is in the file, and its policies never leave it.
LocalStays == \A i \in Local : ended[i] # None => Storing!Places(doc, i) # {}

\* A pending use is a use, and only the first active record of a policy gets uses.
RecordsAreRegular(d) ==
    /\ \A n \in 1 .. Len(d.recs) : d.recs[n].pending \subseteq 1 .. d.recs[n].uses
    /\ \A m, n \in 1 .. Len(d.recs) :
          m < n /\ d.recs[m].id = d.recs[n].id /\ d.recs[n].uses > 0 => d.recs[m].status # "active"

FirstOf(d, i) == d.recs[Storing!Least(Storing!Places(d, i))]

\* Storing!UsesAreAccounted, of the document d, with the uses h accepted and the policies gone.
Accounted(d, h, gone) ==
    \A i \in Hosted \ gone :
        Storing!Places(d, i) # {} /\ FirstOf(d, i).status # "invalid" =>
            1 .. FirstOf(d, i).uses \subseteq h[i] \cup FirstOf(d, i).pending

\* The uses of the policy i that the first k rows of a report tell of.
Told(todo, i, k) == UNION {todo[j].uses : j \in {m \in 1 .. k : todo[m].id = i}}

\* What a row tells of is as high as some uses, and of the pending ones so high each has been told of.
ReportIsCurrent(d, todo, h, gone) ==
    \A k \in 1 .. Len(todo) :
        /\ Storing!Places(d, todo[k].id) # {}
        /\ FirstOf(d, todo[k].id).status = "active" => todo[k].uses \subseteq 1 .. FirstOf(d, todo[k].id).uses
        /\ todo[k].id \in Hosted \ gone =>
              \A s \in FirstOf(d, todo[k].id).pending :
                  s <= Storing!Highest(todo[k].uses) => s \in h[todo[k].id] \cup Told(todo, todo[k].id, k)

AnswerIsTrue ==
    /\ report.answer = "accepted" => report.todo[1].uses \subseteq hosted[report.todo[1].id]
    /\ report.answer = "gone" => report.todo[1].id \notin Hosted \ deleted

\* From a policy's first record f to g: it never gets active again, and its new uses are beyond the old.
RecordStep(f, g) ==
    /\ g.status = "active" => f.status = "active"
    /\ f.uses <= g.uses
    /\ \A s \in g.pending : s \in f.pending \/ (f.status = "active" /\ s > f.uses)

\* From the document d to e: no policy goes, nor does a revision of the control plane go back.
DocumentStep(d, e) ==
    /\ \A i \in PolicyIds :
          Storing!Places(d, i) # {} =>
              Storing!Places(e, i) # {} /\ RecordStep(FirstOf(d, i), FirstOf(e, i))
    /\ \A i \in Hosted : d.revs[i] # None => e.revs[i] # None /\ d.revs[i] <= e.revs[i]

\* A policy gets active by the owner's first word about it, or by a newer event.
Revived(p, i) ==
    \/ i \in Local /\ Storing!Places(doc, i) = {}
    \/ /\ p = "bridge" /\ handled /\ log[cursor + 1].id = i
       /\ log[cursor + 1].type = "allow" /\ log[cursor + 1].run \in {0, run}
       /\ writing[p].new.revs[i] = log[cursor + 1].rev
       /\ doc.revs[i] # None => doc.revs[i] < log[cursor + 1].rev

WriteIsStep(p) ==
    Fresh(p) => /\ RecordsAreRegular(writing[p].new) /\ Accounted(writing[p].new, hosted, deleted)
                /\ DocumentStep(doc, writing[p].new)
                /\ \A i \in PolicyIds :
                      Storing!Active(writing[p].new, i) /\ ~Storing!Active(doc, i) => Revived(p, i)

StoringRules ==
    /\ HandledIsDigested /\ EndedIsPast /\ LocalStays
    /\ RecordsAreRegular(doc) /\ Accounted(doc, hosted, deleted)
    /\ ReportIsCurrent(doc, report.todo, hosted, deleted) /\ AnswerIsTrue
    /\ WriteIsStep("bridge") /\ WriteIsStep("cli")

StoringInv == StoringTypes /\ LogIsOrdered(log, run) /\ (~raced => StoringRules)

LEMMA LeastIs ==
  ASSUME NEW S, S \subseteq Nat, S # {}
  PROVE  /\ Storing!Least(S) \in S
         /\ \A m \in S : Storing!Least(S) <= m
BY LeastNumber DEF Storing!Least

\* The first and the active records of a policy are records of it.
LEMMA FirstIs ==
  ASSUME NEW d \in PolicyDocuments, NEW i, Storing!Places(d, i) # {}
  PROVE  /\ Storing!Places(d, i) \subseteq 1 .. Len(d.recs)
         /\ Storing!Least(Storing!Places(d, i)) \in Storing!Places(d, i)
         /\ Storing!Least(Storing!Places(d, i)) \in 1 .. Len(d.recs)
         /\ FirstOf(d, i) \in PolicyRecords /\ FirstOf(d, i).id = i
         /\ \A n \in Storing!Places(d, i) : Storing!Least(Storing!Places(d, i)) <= n
<1>1. Storing!Places(d, i) \subseteq 1 .. Len(d.recs) /\ d.recs \in Seq(PolicyRecords)
  BY DEF Storing!Places, PolicyDocuments
<1>2. Storing!Places(d, i) \subseteq Nat
  BY <1>1
<1>3. PICK n : n = Storing!Least(Storing!Places(d, i))
  OBVIOUS
<1>4. n \in Storing!Places(d, i) /\ \A m \in Storing!Places(d, i) : n <= m
  BY <1>2, <1>3, LeastIs
<1>5. n \in 1 .. Len(d.recs) /\ d.recs[n].id = i
  BY <1>1, <1>4 DEF Storing!Places
<1>6. d.recs[n] \in PolicyRecords
  BY <1>1, <1>5
<1> QED
  BY <1>1, <1>3, <1>4, <1>5, <1>6 DEF FirstOf

\* The document d with the revisions v and a new record, or one record changed.
WithRecord(d, v, r) == [revs |-> v, recs |-> Append(d.recs, r)]
WithChange(d, v, n, r) == [revs |-> v, recs |-> [d.recs EXCEPT ![n] = r]]

LEMMA RecordAdded ==
  ASSUME NEW d \in PolicyDocuments, NEW r \in PolicyRecords, r.uses = 0, r.pending = {},
         NEW v \in [PolicyIds -> 0 .. MaxEvents \cup {None}],
         NEW e, e = WithRecord(d, v, r)
  PROVE  /\ e \in PolicyDocuments
         /\ RecordsAreRegular(d) => RecordsAreRegular(e)
         /\ \A i \in PolicyIds : Storing!Places(d, i) # {} =>
               Storing!Places(e, i) # {} /\ FirstOf(e, i) = FirstOf(d, i)
         /\ \A i \in PolicyIds : Storing!Places(d, i) = {} /\ Storing!Places(e, i) # {} => FirstOf(e, i) = r
         /\ \A i \in PolicyIds : Storing!Active(e, i) /\ ~Storing!Active(d, i) => i = r.id
<1>1. PICK s \in Seq(PolicyRecords), len \in Nat : s = d.recs /\ len = Len(s)
  BY DEF PolicyDocuments
<1>2. PICK t : t = e.recs
  OBVIOUS
<1>3. /\ t \in Seq(PolicyRecords) /\ Len(t) = len + 1 /\ t[len + 1] = r
      /\ \A n \in 1 .. len : t[n] = s[n]
  <2>1. t = Append(s, r)
    BY <1>1, <1>2 DEF WithRecord
  <2> QED
    BY ONLY <2>1, <1>1, r \in PolicyRecords
<1>4. e.revs = v
  BY DEF WithRecord
<1>5. e \in PolicyDocuments
  <2>1. e = [revs |-> v, recs |-> t]
    BY <1>2 DEF WithRecord
  <2> QED
    BY <2>1, <1>3 DEF PolicyDocuments
<1>6. ASSUME RecordsAreRegular(d)
      PROVE  RecordsAreRegular(e)
  <2>1. \A n \in 1 .. len : s[n].pending \subseteq 1 .. s[n].uses
    BY <1>1, <1>6 DEF RecordsAreRegular
  <2>2. \A m, n \in 1 .. len : m < n /\ s[m].id = s[n].id /\ s[n].uses > 0 => s[m].status # "active"
    BY <1>1, <1>6 DEF RecordsAreRegular
  <2>3. ASSUME NEW n \in 1 .. len + 1
        PROVE  t[n].pending \subseteq 1 .. t[n].uses
    <3>1. CASE n = len + 1
      BY <3>1, <1>3
    <3>2. CASE n \in 1 .. len
      BY <3>2, <1>3, <2>1
    <3> QED
      BY <3>1, <3>2
  <2>4. ASSUME NEW m \in 1 .. len + 1, NEW n \in 1 .. len + 1, m < n, t[m].id = t[n].id, t[n].uses > 0
        PROVE  t[m].status # "active"
    <3>1. n # len + 1
      BY <2>4, <1>3
    <3>2. n \in 1 .. len /\ m \in 1 .. len
      BY ONLY <3>1, <2>4, <1>1
    <3> QED
      BY <3>2, <2>2, <2>4, <1>3
  <2> QED
    BY <2>3, <2>4, <1>2, <1>3 DEF RecordsAreRegular
<1>7. ASSUME NEW i
      PROVE  /\ Storing!Places(d, i) = {n \in 1 .. len : s[n].id = i}
             /\ Storing!Places(e, i) = {n \in 1 .. len + 1 : t[n].id = i}
  <2>1. DOMAIN s = 1 .. len /\ DOMAIN t = 1 .. len + 1
    BY <1>1, <1>3
  <2> QED
    BY <2>1, <1>1, <1>2 DEF Storing!Places
<1>8. ASSUME NEW i \in PolicyIds, Storing!Places(d, i) # {}
      PROVE  Storing!Places(e, i) # {} /\ FirstOf(e, i) = FirstOf(d, i)
  <2>1. PICK n : n = Storing!Least(Storing!Places(d, i))
    OBVIOUS
  <2>2. n \in Storing!Places(d, i) /\ \A m \in Storing!Places(d, i) : n <= m
    BY <2>1, <1>8, FirstIs
  <2>3. n \in 1 .. len /\ s[n].id = i
    BY <2>2, <1>7
  <2>4. n \in Storing!Places(e, i)
    <3>1. n \in 1 .. len + 1 /\ t[n].id = i
      BY <2>3, <1>3
    <3> QED
      BY <3>1, <1>7
  <2>5. PICK k : k = Storing!Least(Storing!Places(e, i))
    OBVIOUS
  <2>6. k \in Storing!Places(e, i) /\ k <= n
    BY <2>4, <2>5, <1>5, FirstIs
  <2>7. k \in 1 .. len /\ t[k].id = i
    <3>1. k \in 1 .. len + 1 /\ t[k].id = i
      BY ONLY <2>6, <1>7
    <3> QED
      BY ONLY <3>1, <2>6, <2>3, <1>1
  <2>8. k \in Storing!Places(d, i)
    BY <2>7, <1>3, <1>7
  <2>9. n = k
    BY <2>2, <2>3, <2>6, <2>7, <2>8
  <2>10. FirstOf(d, i) = s[n] /\ FirstOf(e, i) = t[k]
    BY <2>1, <2>5, <1>1, <1>2 DEF FirstOf
  <2> QED
    BY <2>4, <2>9, <2>10, <2>3, <1>3
<1>9. ASSUME NEW i \in PolicyIds, Storing!Places(d, i) = {}, Storing!Places(e, i) # {}
      PROVE  FirstOf(e, i) = r
  <2>1. PICK k : k = Storing!Least(Storing!Places(e, i))
    OBVIOUS
  <2>2. k \in Storing!Places(e, i)
    BY <2>1, <1>9, <1>5, FirstIs
  <2>3. k \in 1 .. len + 1 /\ t[k].id = i
    BY ONLY <2>2, <1>7
  <2>4. k \notin 1 .. len
    BY <2>3, <1>3, <1>7, <1>9
  <2>5. k = len + 1
    BY <2>3, <2>4
  <2>6. FirstOf(e, i) = t[k]
    BY <2>1, <1>2 DEF FirstOf
  <2> QED
    BY <2>5, <2>6, <1>3
<1>10. ASSUME NEW i \in PolicyIds, Storing!Active(e, i), ~Storing!Active(d, i)
       PROVE  i = r.id
  <2>1. PICK n \in Storing!Places(e, i) : t[n].status = "active"
    BY <1>10, <1>2 DEF Storing!Active, Storing!ActivePlaces
  <2>2. n \in 1 .. len + 1 /\ t[n].id = i
    BY ONLY <2>1, <1>7
  <2>3. CASE n \in 1 .. len
    <3>1. n \in Storing!Places(d, i) /\ s[n].status = "active"
      BY <2>1, <2>2, <2>3, <1>3, <1>7
    <3> QED
      BY <3>1, <1>10, <1>1 DEF Storing!Active, Storing!ActivePlaces
  <2>4. CASE n = len + 1
    BY <2>2, <2>4, <1>3
  <2> QED
    BY <2>2, <2>3, <2>4
<1> QED
  BY <1>5, <1>6, <1>8, <1>9, <1>10

LEMMA RecordChanged ==
  ASSUME NEW d \in PolicyDocuments, NEW n \in 1 .. Len(d.recs), NEW r \in PolicyRecords, r.id = d.recs[n].id,
         NEW v \in [PolicyIds -> 0 .. MaxEvents \cup {None}],
         NEW e, e = WithChange(d, v, n, r),
         r.status = "active" => d.recs[n].status = "active"
  PROVE  /\ e \in PolicyDocuments
         /\ /\ RecordsAreRegular(d) /\ r.pending \subseteq 1 .. r.uses
            /\ \/ r.uses = d.recs[n].uses
               \/ \A m \in 1 .. Len(d.recs) :
                     m < n /\ d.recs[m].id = r.id => d.recs[m].status # "active"
            => RecordsAreRegular(e)
         /\ \A i \in PolicyIds : Storing!Places(e, i) = Storing!Places(d, i)
         /\ \A i \in PolicyIds : Storing!Places(d, i) # {} =>
               FirstOf(e, i) = IF n = Storing!Least(Storing!Places(d, i)) THEN r ELSE FirstOf(d, i)
         /\ \A i \in PolicyIds : Storing!Active(e, i) => Storing!Active(d, i)
<1>1. PICK s \in Seq(PolicyRecords), len \in Nat : s = d.recs /\ len = Len(s)
  BY DEF PolicyDocuments
<1>2. PICK t : t = e.recs
  OBVIOUS
<1>3. /\ t \in Seq(PolicyRecords) /\ Len(t) = len /\ t[n] = r
      /\ \A m \in 1 .. len : m # n => t[m] = s[m]
  <2>1. t = [s EXCEPT ![n] = r] /\ n \in 1 .. len
    BY <1>1, <1>2 DEF WithChange
  <2> QED
    BY ONLY <2>1, <1>1, r \in PolicyRecords
<1>4. e \in PolicyDocuments
  <2>1. e = [revs |-> v, recs |-> t]
    BY <1>2 DEF WithChange
  <2> QED
    BY <2>1, <1>3 DEF PolicyDocuments
<1>5. n \in 1 .. len /\ r.id = s[n].id /\ (r.status = "active" => s[n].status = "active")
  BY <1>1
<1>6. ASSUME RecordsAreRegular(d), r.pending \subseteq 1 .. r.uses,
             \/ r.uses = s[n].uses
             \/ \A m \in 1 .. len : m < n /\ s[m].id = r.id => s[m].status # "active"
      PROVE  RecordsAreRegular(e)
  <2>1. \A m \in 1 .. len : s[m].pending \subseteq 1 .. s[m].uses
    BY <1>1, <1>6 DEF RecordsAreRegular
  <2>2. \A m, k \in 1 .. len : m < k /\ s[m].id = s[k].id /\ s[k].uses > 0 => s[m].status # "active"
    BY <1>1, <1>6 DEF RecordsAreRegular
  <2>3. ASSUME NEW m \in 1 .. len
        PROVE  t[m].pending \subseteq 1 .. t[m].uses
    BY <1>3, <1>6, <2>1
  <2>4. ASSUME NEW m \in 1 .. len, NEW k \in 1 .. len, m < k, t[m].id = t[k].id, t[k].uses > 0
        PROVE  t[m].status # "active"
    <3>1. s[m].id = s[k].id /\ (t[m].status = "active" => s[m].status = "active")
      BY <1>3, <1>5, <2>4
    <3>2. CASE k # n
      <4>1. t[k] = s[k]
        BY <3>2, <1>3
      <4> QED
        BY <2>2, <2>4, <3>1, <4>1
    <3>3. CASE k = n /\ r.uses = s[n].uses
      BY <3>3, <1>3, <2>2, <2>4, <3>1
    <3>4. CASE k = n /\ \A j \in 1 .. len : j < n /\ s[j].id = r.id => s[j].status # "active"
      BY <3>4, <1>5, <2>4, <3>1
    <3> QED
      BY <1>6, <3>2, <3>3, <3>4
  <2> QED
    BY <2>3, <2>4, <1>2, <1>3 DEF RecordsAreRegular
<1>7. ASSUME NEW i
      PROVE  Storing!Places(e, i) = Storing!Places(d, i)
  <2>1. DOMAIN s = 1 .. len /\ DOMAIN t = 1 .. len
    BY <1>1, <1>3
  <2>2. \A m \in 1 .. len : t[m].id = s[m].id
    BY <1>3, <1>5
  <2> QED
    BY <2>1, <2>2, <1>1, <1>2 DEF Storing!Places
<1>8. ASSUME NEW i \in PolicyIds, Storing!Places(d, i) # {}
      PROVE  FirstOf(e, i) = IF n = Storing!Least(Storing!Places(d, i)) THEN r ELSE FirstOf(d, i)
  <2>1. PICK k : k = Storing!Least(Storing!Places(d, i))
    OBVIOUS
  <2>2. k \in 1 .. len
    BY <2>1, <1>8, <1>1, FirstIs
  <2>3. FirstOf(d, i) = s[k] /\ FirstOf(e, i) = t[k]
    BY <2>1, <1>1, <1>2, <1>7 DEF FirstOf
  <2> QED
    BY <2>1, <2>2, <2>3, <1>3
<1>9. ASSUME NEW i \in PolicyIds, Storing!Active(e, i)
      PROVE  Storing!Active(d, i)
  <2>1. PICK m \in Storing!Places(d, i) : t[m].status = "active"
    BY <1>7, <1>9, <1>2 DEF Storing!Active, Storing!ActivePlaces
  <2>2. m \in 1 .. len
    BY <2>1, <1>1, FirstIs
  <2>3. s[m].status = "active"
    BY <2>1, <2>2, <1>3, <1>5
  <2> QED
    BY <2>1, <2>3, <1>1 DEF Storing!Active, Storing!ActivePlaces
<1>10. Len(d.recs) = len /\ d.recs[n] = s[n]
  BY <1>1
<1>11. RecordsAreRegular(d) /\ r.pending \subseteq 1 .. r.uses
       /\ \/ r.uses = d.recs[n].uses
          \/ \A m \in 1 .. Len(d.recs) : m < n /\ d.recs[m].id = r.id => d.recs[m].status # "active"
       => RecordsAreRegular(e)
  BY <1>1, <1>6, <1>10
<1> QED
  BY <1>4, <1>7, <1>8, <1>9, <1>11

LEMMA StepOfSame ==
  ASSUME NEW f \in PolicyRecords
  PROVE  RecordStep(f, f)
BY DEF RecordStep, PolicyRecords

\* A record which the change of a record makes a step of.
LEMMA ChangeIsStep ==
  ASSUME NEW d \in PolicyDocuments, NEW n \in 1 .. Len(d.recs), NEW r \in PolicyRecords, r.id = d.recs[n].id,
         NEW v \in [PolicyIds -> 0 .. MaxEvents \cup {None}],
         NEW e, e = WithChange(d, v, n, r),
         RecordStep(d.recs[n], r),
         \A i \in Hosted : d.revs[i] # None => v[i] # None /\ d.revs[i] <= v[i],
         NEW h, NEW gone, Accounted(d, h, gone),
         r.status # "invalid" /\ r.id \in Hosted \ gone /\ n = Storing!Least(Storing!Places(d, r.id)) =>
           1 .. r.uses \subseteq h[r.id] \cup r.pending
  PROVE  DocumentStep(d, e) /\ Accounted(e, h, gone)
<1>1. /\ \A i \in PolicyIds : Storing!Places(e, i) = Storing!Places(d, i)
      /\ \A i \in PolicyIds : Storing!Places(d, i) # {} =>
            FirstOf(e, i) = IF n = Storing!Least(Storing!Places(d, i)) THEN r ELSE FirstOf(d, i)
  <2>1. r.status = "active" => d.recs[n].status = "active"
    BY DEF RecordStep
  <2> QED
    BY <2>1, RecordChanged
<1>2. ASSUME NEW i \in PolicyIds, Storing!Places(d, i) # {}, n = Storing!Least(Storing!Places(d, i))
      PROVE  FirstOf(d, i) = d.recs[n] /\ r.id = i
  BY <1>2, FirstIs DEF FirstOf
<1>3. ASSUME NEW i \in PolicyIds, Storing!Places(d, i) # {}
      PROVE  Storing!Places(e, i) # {} /\ RecordStep(FirstOf(d, i), FirstOf(e, i))
  <2>1. FirstOf(d, i) \in PolicyRecords
    BY <1>3, FirstIs
  <2> QED
    BY <2>1, <1>1, <1>2, <1>3, StepOfSame
<1>4. e.revs = v
  BY DEF WithChange
<1>5. DocumentStep(d, e)
  BY <1>3, <1>4 DEF DocumentStep
<1>6. ASSUME NEW i \in Hosted \ gone, Storing!Places(e, i) # {}, FirstOf(e, i).status # "invalid"
      PROVE  1 .. FirstOf(e, i).uses \subseteq h[i] \cup FirstOf(e, i).pending
  <2>1. i \in PolicyIds /\ Storing!Places(d, i) # {}
    BY <1>1, <1>6 DEF PolicyIds
  <2>2. CASE n = Storing!Least(Storing!Places(d, i))
    BY <2>1, <2>2, <1>1, <1>2, <1>6
  <2>3. CASE n # Storing!Least(Storing!Places(d, i))
    <3>1. FirstOf(e, i) = FirstOf(d, i)
      BY <2>1, <2>3, <1>1
    <3> QED
      BY <3>1, <2>1, <1>6 DEF Accounted
  <2> QED
    BY <2>2, <2>3
<1> QED
  BY <1>5, <1>6 DEF Accounted

-----------------------------------------------------------------------------
(* The documents that get written.                                          *)

\* What is written over d keeps the rules of the documents.
Sound(d, e, h, gone) ==
    RecordsAreRegular(d) /\ Accounted(d, h, gone) =>
        RecordsAreRegular(e) /\ Accounted(e, h, gone) /\ DocumentStep(d, e)

LEMMA PolicyBounds ==
  /\ MaxEvents \in Nat /\ MaxUses \in Nat /\ MaxPolicyFaults \in Nat
  /\ Hosted \cap Local = {}
  /\ None \notin 0 .. MaxEvents /\ None # "accepted" /\ None # "gone"
  /\ None \notin Writes
<1>1. PolicyDocuments = Storing!Documents
  BY DEF PolicyDocuments, PolicyRecords, PolicyIds, Storing!Documents, Storing!Records, Storing!Ids, Storing!Revisions
<1> QED
  BY <1>1, AccessAssumption DEF AccessAssumption, Writes

LEMMA AddedIsSound ==
  ASSUME NEW d \in PolicyDocuments, NEW h, NEW gone,
         NEW a, a.id \in PolicyIds, a.preset \in Presets, a.run \in 0 .. MaxPolicyFaults + 1,
         NEW rev \in 0 .. MaxEvents \cup {None},
         a.id \in Hosted /\ d.revs[a.id] # None => rev # None /\ d.revs[a.id] <= rev
  PROVE  /\ Storing!Added(d, a, rev) \in PolicyDocuments
         /\ Sound(d, Storing!Added(d, a, rev), h, gone)
         /\ Storing!Added(d, a, rev).revs[a.id] = rev
         /\ \A i \in PolicyIds :
               Storing!Active(Storing!Added(d, a, rev), i) /\ ~Storing!Active(d, i) => i = a.id
<1>1. PICK v, r : /\ v = [d.revs EXCEPT ![a.id] = rev]
                  /\ r = [id |-> a.id, preset |-> a.preset, run |-> a.run, status |-> "active",
                          uses |-> 0, pending |-> {}]
  OBVIOUS
<1>2. PICK e : e = WithRecord(d, v, r) /\ e = Storing!Added(d, a, rev)
  BY <1>1 DEF Storing!Added, WithRecord
<1>3. r \in PolicyRecords /\ r.id = a.id /\ r.uses = 0 /\ r.pending = {}
  BY <1>1, PolicyBounds DEF PolicyRecords
<1>4. /\ v \in [PolicyIds -> 0 .. MaxEvents \cup {None}] /\ v[a.id] = rev
      /\ \A i \in PolicyIds : i # a.id => v[i] = d.revs[i]
      /\ d.revs \in [PolicyIds -> 0 .. MaxEvents \cup {None}]
  BY <1>1 DEF PolicyDocuments
<1>5. /\ e \in PolicyDocuments /\ (RecordsAreRegular(d) => RecordsAreRegular(e))
      /\ \A i \in PolicyIds : Storing!Places(d, i) # {} =>
            Storing!Places(e, i) # {} /\ FirstOf(e, i) = FirstOf(d, i)
      /\ \A i \in PolicyIds : Storing!Places(d, i) = {} /\ Storing!Places(e, i) # {} => FirstOf(e, i) = r
      /\ \A i \in PolicyIds : Storing!Active(e, i) /\ ~Storing!Active(d, i) => i = r.id
  <2>1. /\ e = WithRecord(d, v, r) /\ r.uses = 0 /\ r.pending = {} /\ r \in PolicyRecords
        /\ v \in [PolicyIds -> 0 .. MaxEvents \cup {None}]
    BY <1>2, <1>3, <1>4
  <2>2. e \in PolicyDocuments /\ (RecordsAreRegular(d) => RecordsAreRegular(e))
    BY ONLY <2>1, d \in PolicyDocuments, RecordAdded
  <2>3. \A i \in PolicyIds : Storing!Places(d, i) # {} =>
            Storing!Places(e, i) # {} /\ FirstOf(e, i) = FirstOf(d, i)
    BY ONLY <2>1, d \in PolicyDocuments, RecordAdded
  <2>4. \A i \in PolicyIds : Storing!Places(d, i) = {} /\ Storing!Places(e, i) # {} => FirstOf(e, i) = r
    BY ONLY <2>1, d \in PolicyDocuments, RecordAdded
  <2>5. \A i \in PolicyIds : Storing!Active(e, i) /\ ~Storing!Active(d, i) => i = r.id
    BY ONLY <2>1, d \in PolicyDocuments, RecordAdded
  <2> QED
    BY <2>2, <2>3, <2>4, <2>5
<1>6. e.revs = v
  BY <1>2 DEF WithRecord
<1>7. DocumentStep(d, e)
  <2>1. ASSUME NEW i \in PolicyIds, Storing!Places(d, i) # {}
        PROVE  Storing!Places(e, i) # {} /\ RecordStep(FirstOf(d, i), FirstOf(e, i))
    <3>1. FirstOf(d, i) \in PolicyRecords
      BY <2>1, FirstIs
    <3> QED
      BY <3>1, <2>1, <1>5, StepOfSame
  <2>2. ASSUME NEW i \in Hosted, d.revs[i] # None
        PROVE  v[i] # None /\ d.revs[i] <= v[i]
    <3>1. i \in PolicyIds /\ d.revs[i] \in 0 .. MaxEvents
      BY <2>2, <1>4 DEF PolicyIds
    <3>2. CASE i = a.id
      BY <3>2, <2>2, <1>4
    <3>3. CASE i # a.id
      BY <3>1, <3>3, <2>2, <1>4
    <3> QED
      BY <3>2, <3>3
  <2> QED
    BY <2>1, <2>2, <1>6 DEF DocumentStep
<1>8. ASSUME Accounted(d, h, gone)
      PROVE  Accounted(e, h, gone)
  <2> SUFFICES ASSUME NEW i \in Hosted \ gone, Storing!Places(e, i) # {}, FirstOf(e, i).status # "invalid"
               PROVE  1 .. FirstOf(e, i).uses \subseteq h[i] \cup FirstOf(e, i).pending
    BY DEF Accounted
  <2>1. i \in PolicyIds
    BY DEF PolicyIds
  <2>2. CASE Storing!Places(d, i) # {}
    BY <2>1, <2>2, <1>5, <1>8 DEF Accounted
  <2>3. CASE Storing!Places(d, i) = {}
    BY <2>1, <2>3, <1>3, <1>5
  <2> QED
    BY <2>2, <2>3
<1> QED
  BY <1>2, <1>3, <1>4, <1>5, <1>6, <1>7, <1>8 DEF Sound

LEMMA RevokedIsSound ==
  ASSUME NEW d \in PolicyDocuments, NEW h, NEW gone,
         NEW i \in PolicyIds, NEW rev \in 0 .. MaxEvents, Storing!RevokeWrites(d, i, rev)
  PROVE  /\ Storing!Revoked(d, i, rev) \in PolicyDocuments
         /\ Sound(d, Storing!Revoked(d, i, rev), h, gone)
         /\ Storing!Revoked(d, i, rev).revs[i] = rev
         /\ \A j \in PolicyIds : Storing!Active(Storing!Revoked(d, i, rev), j) => Storing!Active(d, j)
<1>1. PICK v, e : v = [d.revs EXCEPT ![i] = rev] /\ e = Storing!Revoked(d, i, rev)
  OBVIOUS
<1>2. /\ v \in [PolicyIds -> 0 .. MaxEvents \cup {None}] /\ v[i] = rev
      /\ \A j \in PolicyIds : j # i => v[j] = d.revs[j]
      /\ d.revs \in [PolicyIds -> 0 .. MaxEvents \cup {None}]
  BY <1>1 DEF PolicyDocuments
<1>3. \A j \in Hosted : d.revs[j] # None => v[j] # None /\ d.revs[j] <= v[j]
  <2> SUFFICES ASSUME NEW j \in Hosted, d.revs[j] # None
               PROVE  v[j] # None /\ d.revs[j] <= v[j]
    OBVIOUS
  <2>1. j \in PolicyIds /\ d.revs[j] \in 0 .. MaxEvents
    BY <1>2 DEF PolicyIds
  <2>2. CASE j = i
    BY <2>1, <2>2, <1>2, PolicyBounds DEF Storing!RevokeWrites
  <2>3. CASE j # i
    BY <2>1, <2>3, <1>2
  <2> QED
    BY <2>2, <2>3
<1>4. CASE Storing!Places(d, i) = {}
  <2>1. e = [revs |-> v, recs |-> d.recs]
    BY <1>1, <1>4 DEF Storing!Revoked
  <2>2. e.recs = d.recs /\ e.revs = v
    BY <2>1
  <2>3. e \in PolicyDocuments
    BY <2>1, <1>2 DEF PolicyDocuments
  <2>4. \A j : Storing!Places(e, j) = Storing!Places(d, j) /\ FirstOf(e, j) = FirstOf(d, j)
    BY <2>2 DEF Storing!Places, FirstOf
  <2>5. RecordsAreRegular(d) => RecordsAreRegular(e)
    BY <2>2 DEF RecordsAreRegular
  <2>6. Accounted(d, h, gone) => Accounted(e, h, gone)
    BY <2>4 DEF Accounted
  <2>7. ASSUME NEW j \in PolicyIds, Storing!Places(d, j) # {}
        PROVE  RecordStep(FirstOf(d, j), FirstOf(e, j))
    <3>1. FirstOf(d, j) \in PolicyRecords
      BY <2>7, FirstIs
    <3> QED
      BY <3>1, <2>4, StepOfSame
  <2>8. DocumentStep(d, e)
    BY <2>2, <2>4, <2>7, <1>3 DEF DocumentStep
  <2>9. \A j \in PolicyIds : Storing!Active(e, j) => Storing!Active(d, j)
    BY <2>2, <2>4 DEF Storing!Active, Storing!ActivePlaces
  <2> QED
    BY <1>1, <1>2, <2>2, <2>3, <2>5, <2>6, <2>8, <2>9 DEF Sound
<1>5. CASE Storing!Places(d, i) # {}
  <2>1. PICK n : n = Storing!Least(Storing!Places(d, i))
    OBVIOUS
  <2>2. PICK f \in PolicyRecords : f = d.recs[n]
    BY <2>1, <1>5, FirstIs DEF FirstOf
  <2>3. n \in 1 .. Len(d.recs) /\ f.id = i /\ FirstOf(d, i) = f /\ f.status = "active"
    BY <2>1, <2>2, <1>5, FirstIs DEF FirstOf, Storing!RevokeWrites
  <2>4. PICK r : r = [f EXCEPT !.status = "revoked"]
    OBVIOUS
  <2>5. /\ r \in PolicyRecords /\ r.id = i /\ r.uses = f.uses /\ r.pending = f.pending
        /\ r.status = "revoked"
    BY <2>2, <2>3, <2>4 DEF PolicyRecords
  <2>6. e = WithChange(d, v, n, r)
    BY <1>1, <1>5, <2>1, <2>2, <2>4 DEF Storing!Revoked, WithChange
  <2>7. RecordStep(f, r)
    BY <2>2, <2>5 DEF RecordStep, PolicyRecords
  <2>8. RecordsAreRegular(d) => r.pending \subseteq 1 .. r.uses
    BY <2>2, <2>3, <2>5 DEF RecordsAreRegular
  <2>9. Accounted(d, h, gone) /\ i \in Hosted \ gone => 1 .. r.uses \subseteq h[i] \cup r.pending
    BY <1>5, <2>3, <2>5 DEF Accounted
  <2>10. Accounted(d, h, gone) => DocumentStep(d, e) /\ Accounted(e, h, gone)
    BY <1>2, <1>3, <2>2, <2>3, <2>5, <2>6, <2>7, <2>9, ChangeIsStep
  <2>11. /\ e \in PolicyDocuments /\ (RecordsAreRegular(d) => RecordsAreRegular(e))
         /\ \A j \in PolicyIds : Storing!Active(e, j) => Storing!Active(d, j)
    BY <1>2, <2>2, <2>3, <2>5, <2>6, <2>8, RecordChanged
  <2>12. e.revs = v
    BY <2>6 DEF WithChange
  <2> QED
    BY <1>1, <1>2, <2>10, <2>11, <2>12 DEF Sound
<1> QED
  BY <1>4, <1>5

LEMMA UsedIsSound ==
  ASSUME NEW d \in PolicyDocuments, NEW h, NEW gone,
         NEW i \in PolicyIds, Storing!ActivePlaces(d, i) # {},
         d.recs[Storing!Least(Storing!ActivePlaces(d, i))].uses < MaxUses
  PROVE  /\ Storing!Used(d, i) \in PolicyDocuments
         /\ Sound(d, Storing!Used(d, i), h, gone)
         /\ Storing!Used(d, i).revs = d.revs
         /\ \A j \in PolicyIds : Storing!Active(Storing!Used(d, i), j) => Storing!Active(d, j)
<1>1. Storing!ActivePlaces(d, i) \subseteq Storing!Places(d, i) /\ Storing!Places(d, i) # {}
  BY DEF Storing!ActivePlaces
<1>2. Storing!Places(d, i) \subseteq 1 .. Len(d.recs)
  BY <1>1, FirstIs
<1>3. PICK n : n = Storing!Least(Storing!ActivePlaces(d, i))
  OBVIOUS
<1>4. n \in Storing!ActivePlaces(d, i) /\ \A m \in Storing!ActivePlaces(d, i) : n <= m
  <2>1. Storing!ActivePlaces(d, i) \subseteq Nat
    BY <1>1, <1>2
  <2> QED
    BY <2>1, <1>3, LeastIs
<1>5. n \in 1 .. Len(d.recs) /\ d.recs[n].id = i /\ d.recs[n].status = "active"
  <2>1. n \in Storing!Places(d, i) /\ d.recs[n].status = "active"
    BY <1>4 DEF Storing!ActivePlaces
  <2> QED
    BY <2>1, <1>2 DEF Storing!Places
<1>6. PICK f \in PolicyRecords : f = d.recs[n]
  BY <1>5 DEF PolicyDocuments
<1>7. f.id = i /\ f.status = "active" /\ f.uses < MaxUses
  BY <1>3, <1>5, <1>6
<1>8. PICK r : r = [f EXCEPT !.uses = @ + 1, !.pending = @ \cup {f.uses + 1}]
  OBVIOUS
<1>9. /\ f.uses \in 0 .. MaxUses /\ f.uses + 1 \in 1 .. MaxUses /\ f.uses + 1 \in 0 .. MaxUses
      /\ f.pending \subseteq 1 .. MaxUses
  <2>1. f.uses \in 0 .. MaxUses /\ f.pending \subseteq 1 .. MaxUses
    BY <1>6 DEF PolicyRecords
  <2> QED
    BY ONLY <2>1, <1>7, PolicyBounds
<1>10. /\ r.id = i /\ r.status = "active" /\ r.uses = f.uses + 1
       /\ r.pending = f.pending \cup {f.uses + 1} /\ r \in PolicyRecords
  BY <1>6, <1>7, <1>8, <1>9 DEF PolicyRecords
<1>11. PICK e : e = WithChange(d, d.revs, n, r)
  OBVIOUS
<1>12. Storing!Used(d, i) = e
  <2>1. d = [revs |-> d.revs, recs |-> d.recs] /\ DOMAIN d.recs = 1 .. Len(d.recs)
    BY DEF PolicyDocuments
  <2>2. PICK q \in Seq(PolicyRecords), len \in Nat : q = d.recs /\ len = Len(q)
    BY DEF PolicyDocuments
  <2>3. PICK g : g = [f EXCEPT !.uses = @ + 1]
    OBVIOUS
  <2>4. r = [g EXCEPT !.pending = @ \cup {f.uses + 1}]
    BY <1>8, <2>3
  <2>5. PICK x : x = [q EXCEPT ![n] = g]
    OBVIOUS
  <2>6. n \in DOMAIN q /\ q[n] = f
    BY <2>2, <1>5, <1>6
  <2>7. x[n] = g
    BY <2>5, <2>6
  <2>8. [q EXCEPT ![n] = r] = [x EXCEPT ![n] = r]
    BY <2>5, <2>2
  <2>9. [[d EXCEPT !.recs[n].uses = @ + 1] EXCEPT !.recs[n].pending = @ \cup {d.recs[n].uses + 1}] = e
    <3>1. PICK v, u, y : v = d.revs /\ u = f.uses + 1 /\ y = [revs |-> v, recs |-> x]
      OBVIOUS
    <3>2. d.recs = q /\ y.recs = x /\ [q[n] EXCEPT !.uses = q[n].uses + 1] = g
      BY <2>2, <2>3, <2>6, <3>1
    <3>3. [d EXCEPT !.recs = x] = y
      BY <2>1, <3>1
    <3>4. [d EXCEPT !.recs[n].uses = @ + 1] = [d EXCEPT !.recs = x]
      BY ONLY <3>2, <2>5, Zenon
    <3>5. r = [x[n] EXCEPT !.pending = x[n].pending \cup {u}]
      BY ONLY <2>4, <2>7, <3>1
    <3>6. PICK z : z = [x EXCEPT ![n] = r]
      OBVIOUS
    <3>7. [y EXCEPT !.recs[n].pending = @ \cup {u}] = [y EXCEPT !.recs = z]
      BY ONLY <3>2, <3>5, <3>6, Zenon
    <3>8. [y EXCEPT !.recs = z] = [revs |-> v, recs |-> z]
      BY ONLY <3>1
    <3>9. [[d EXCEPT !.recs[n].uses = @ + 1] EXCEPT !.recs[n].pending = @ \cup {u}]
            = [revs |-> v, recs |-> z]
      BY ONLY <3>3, <3>4, <3>7, <3>8, Zenon
    <3>10. e = [revs |-> v, recs |-> z]
      BY <3>1, <3>6, <2>2, <2>8, <1>11 DEF WithChange
    <3> QED
      BY <3>1, <3>9, <3>10, <1>6
  <2> QED
    BY <2>9, <1>3 DEF Storing!Used
<1>13. d.revs \in [PolicyIds -> 0 .. MaxEvents \cup {None}]
  BY DEF PolicyDocuments
<1>14. \A m \in 1 .. Len(d.recs) : m < n /\ d.recs[m].id = r.id => d.recs[m].status # "active"
  <2> SUFFICES ASSUME NEW m \in 1 .. Len(d.recs), m < n, d.recs[m].id = i, d.recs[m].status = "active"
               PROVE  FALSE
    BY <1>10
  <2>1. Len(d.recs) \in Nat /\ DOMAIN d.recs = 1 .. Len(d.recs)
    BY DEF PolicyDocuments
  <2>2. m \in Storing!ActivePlaces(d, i)
    BY <2>1 DEF Storing!ActivePlaces, Storing!Places
  <2>3. n <= m
    BY <2>2, <1>4
  <2> QED
    BY ONLY <2>1, <2>3, <1>5, m \in 1 .. Len(d.recs), m < n
<1>15. RecordsAreRegular(d) => f.pending \subseteq 1 .. f.uses
  BY <1>5, <1>6 DEF RecordsAreRegular
<1>16. RecordsAreRegular(d) => r.pending \subseteq 1 .. r.uses
  BY ONLY <1>9, <1>10, <1>15
<1>17. RecordStep(f, r)
  BY <1>7, <1>9, <1>10 DEF RecordStep
<1>18. ASSUME Accounted(d, h, gone), i \in Hosted \ gone, n = Storing!Least(Storing!Places(d, i))
       PROVE  1 .. r.uses \subseteq h[i] \cup r.pending
  <2>1. FirstOf(d, i) = f
    BY <1>18, <1>6 DEF FirstOf
  <2>2. 1 .. f.uses \subseteq h[i] \cup f.pending
    BY <2>1, <1>1, <1>7, <1>18 DEF Accounted
  <2> QED
    BY ONLY <2>2, <1>9, <1>10
<1>19. Len(d.recs) \in Nat /\ \A j \in Hosted : d.revs[j] # None => d.revs[j] # None /\ d.revs[j] <= d.revs[j]
  <2>1. \A j \in Hosted : d.revs[j] # None => d.revs[j] \in Nat
    BY <1>13, PolicyBounds DEF PolicyIds
  <2>2. \A j \in Hosted : d.revs[j] # None => d.revs[j] <= d.revs[j]
    BY ONLY <2>1
  <2> QED
    BY <2>2 DEF PolicyDocuments
<1>20. Accounted(d, h, gone) => DocumentStep(d, e) /\ Accounted(e, h, gone)
  BY <1>5, <1>6, <1>10, <1>11, <1>13, <1>17, <1>18, <1>19, ChangeIsStep
<1>21. /\ e \in PolicyDocuments /\ (RecordsAreRegular(d) => RecordsAreRegular(e))
       /\ \A j \in PolicyIds : Storing!Active(e, j) => Storing!Active(d, j)
  <2>1. d.recs[n].id = r.id /\ (r.status = "active" => d.recs[n].status = "active")
    BY <1>5, <1>10
  <2> QED
    BY <2>1, <1>5, <1>10, <1>11, <1>13, <1>14, <1>16, RecordChanged
<1>22. e.revs = d.revs
  BY <1>11 DEF WithChange
<1> QED
  BY <1>12, <1>20, <1>21, <1>22 DEF Sound

\* The first record of a policy with another status and only some of its pending uses.
WithFirst(d, i, status, left) ==
    [d EXCEPT !.recs[Storing!Least(Storing!Places(d, i))] = [@ EXCEPT !.status = status, !.pending = left]]

\* While the control plane has the policy, only uses it has accepted are left out.
LeavesAccepted(f, i, status, left, h, gone) ==
    i \in Hosted \ gone => status = f.status /\ \A s \in f.pending \ left : s \in h[i]

LEMMA ReportedIsSound ==
  ASSUME NEW d \in PolicyDocuments, NEW h, NEW gone, NEW i \in PolicyIds, Storing!Places(d, i) # {},
         NEW left, left \subseteq FirstOf(d, i).pending,
         NEW status, status = FirstOf(d, i).status \/ status = "invalid"
  PROVE  /\ WithFirst(d, i, status, left) \in PolicyDocuments
         /\ LeavesAccepted(FirstOf(d, i), i, status, left, h, gone)
              => Sound(d, WithFirst(d, i, status, left), h, gone)
         /\ WithFirst(d, i, status, left).revs = d.revs
         /\ \A j \in PolicyIds : Storing!Active(WithFirst(d, i, status, left), j) => Storing!Active(d, j)
<1>1. PICK f, e : f = FirstOf(d, i) /\ e = WithFirst(d, i, status, left)
  OBVIOUS
<1>2. PICK n : n = Storing!Least(Storing!Places(d, i))
  OBVIOUS
<1>3. /\ n \in 1 .. Len(d.recs) /\ f = d.recs[n] /\ f \in PolicyRecords /\ f.id = i
  BY <1>1, <1>2, FirstIs DEF FirstOf
<1>4. PICK r : r = [f EXCEPT !.status = status, !.pending = left]
  OBVIOUS
<1>5. /\ r.id = i /\ r.status = status /\ r.uses = f.uses /\ r.pending = left /\ r \in PolicyRecords
  BY <1>1, <1>3, <1>4 DEF PolicyRecords
<1>6. e = WithChange(d, d.revs, n, r)
  <2>1. d = [revs |-> d.revs, recs |-> d.recs] /\ DOMAIN d.recs = 1 .. Len(d.recs)
    BY DEF PolicyDocuments
  <2> QED
    BY <2>1, <1>1, <1>2, <1>3, <1>4 DEF WithChange, WithFirst
<1>7. d.revs \in [PolicyIds -> 0 .. MaxEvents \cup {None}]
  BY DEF PolicyDocuments
<1>8. RecordsAreRegular(d) => f.pending \subseteq 1 .. f.uses
  BY <1>3 DEF RecordsAreRegular
<1>9. RecordStep(f, r)
  <2>1. f.uses \in Nat
    BY <1>3 DEF PolicyRecords
  <2> QED
    BY <1>1, <1>3, <1>5, <2>1 DEF RecordStep
<1>10. ASSUME r.status # "invalid", i \in Hosted \ gone, Accounted(d, h, gone),
             status = f.status, \A s \in f.pending \ left : s \in h[i]
      PROVE  1 .. r.uses \subseteq h[i] \cup r.pending
  <2>1. 1 .. f.uses \subseteq h[i] \cup f.pending
    BY <1>1, <1>5, <1>10 DEF Accounted
  <2>2. \A s \in f.pending \ left : s \in h[i]
    BY <1>10
  <2> QED
    BY ONLY <2>1, <2>2, <1>5
<1>11. Len(d.recs) \in Nat /\ \A j \in Hosted : d.revs[j] # None => d.revs[j] # None /\ d.revs[j] <= d.revs[j]
  <2>1. \A j \in Hosted : d.revs[j] # None => d.revs[j] \in Nat
    BY <1>7, PolicyBounds DEF PolicyIds
  <2>2. \A j \in Hosted : d.revs[j] # None => d.revs[j] <= d.revs[j]
    BY ONLY <2>1
  <2> QED
    BY <2>2 DEF PolicyDocuments
<1>12. /\ d.recs[n].id = r.id /\ (r.status = "active" => d.recs[n].status = "active")
       /\ r.uses = d.recs[n].uses /\ (RecordsAreRegular(d) => r.pending \subseteq 1 .. r.uses)
  BY <1>1, <1>3, <1>5, <1>8
<1>13. ASSUME Accounted(d, h, gone), LeavesAccepted(f, i, status, left, h, gone)
       PROVE  DocumentStep(d, e) /\ Accounted(e, h, gone)
  <2>1. i \in Hosted \ gone => status = f.status /\ \A s \in f.pending \ left : s \in h[i]
    BY <1>13 DEF LeavesAccepted
  <2> QED
    BY ONLY <1>3, <1>5, <1>6, <1>7, <1>9, <1>10, <1>11, <1>12, <1>13, <2>1, ChangeIsStep, d \in PolicyDocuments
<1>14. /\ e \in PolicyDocuments /\ (RecordsAreRegular(d) => RecordsAreRegular(e))
       /\ \A j \in PolicyIds : Storing!Active(e, j) => Storing!Active(d, j)
  BY ONLY <1>3, <1>5, <1>6, <1>7, <1>12, RecordChanged, d \in PolicyDocuments
<1>15. e.revs = d.revs
  BY <1>6 DEF WithChange
<1> QED
  BY <1>1, <1>13, <1>14, <1>15 DEF Sound

-----------------------------------------------------------------------------
(* Revisions.                                                               *)

LEMMA NewestIs ==
  ASSUME NEW l \in Seq(PolicyEvents), NEW cut \in 0 .. Len(l), NEW i
  PROVE  /\ NewestOf(l, cut, i) \in 0 .. MaxEvents
         /\ \A n \in 1 .. cut : l[n].id = i => l[n].rev <= NewestOf(l, cut, i)
         /\ NewestOf(l, cut, i) = 0 \/ \E n \in 1 .. cut : l[n].id = i /\ l[n].rev = NewestOf(l, cut, i)
<1>1. PICK revs : revs = {l[n].rev : n \in {m \in 1 .. cut : l[m].id = i}}
  OBVIOUS
<1>2. \A n \in 1 .. cut : l[n] \in PolicyEvents
  OBVIOUS
<1>3. revs \cup {0} \subseteq 0 .. MaxEvents /\ MaxEvents \in Nat
  <2>1. MaxEvents \in Nat
    BY PolicyBounds
  <2>2. \A n \in 1 .. cut : l[n].rev \in 0 .. MaxEvents
    BY ONLY <1>2 DEF PolicyEvents
  <2> QED
    BY ONLY <1>1, <2>1, <2>2
<1> DEFINE T == {MaxEvents - r : r \in revs \cup {0}}
<1>4. T \subseteq Nat /\ T # {}
  BY <1>3
<1>5. PICK x \in T : \A y \in T : x <= y
  BY <1>4, LeastNumber
<1>6. PICK top \in revs \cup {0} : x = MaxEvents - top
  BY <1>5
<1>7. \A q \in revs : q <= top
  <2> SUFFICES ASSUME NEW q \in revs
               PROVE  q <= top
    OBVIOUS
  <2>1. x <= MaxEvents - q
    BY <1>5
  <2> QED
    BY <2>1, <1>3, <1>6
<1>8. \E r \in revs \cup {0} : \A q \in revs : q <= r
  BY <1>7
<1>9. NewestOf(l, cut, i) = CHOOSE r \in revs \cup {0} : \A q \in revs : q <= r
  BY <1>1 DEF NewestOf
<1>10. NewestOf(l, cut, i) \in revs \cup {0} /\ \A q \in revs : q <= NewestOf(l, cut, i)
  BY ONLY <1>8, <1>9
<1>11. \A n \in 1 .. cut : l[n].id = i => l[n].rev \in revs
  BY <1>1
<1>12. \A q \in revs : \E n \in 1 .. cut : l[n].id = i /\ l[n].rev = q
  BY <1>1
<1> QED
  BY <1>3, <1>10, <1>11, <1>12

\* A later event leaves the revisions of the earlier ones.
LEMMA NewestAppended ==
  ASSUME NEW l \in Seq(PolicyEvents), NEW cut \in 0 .. Len(l), NEW i, NEW a \in PolicyEvents
  PROVE  NewestOf(Append(l, a), cut, i) = NewestOf(l, cut, i)
<1>1. PICK k : k = Append(l, a)
  OBVIOUS
<1>2. \A n \in 1 .. cut : k[n] = l[n]
  BY <1>1
<1>3. {m \in 1 .. cut : k[m].id = i} = {m \in 1 .. cut : l[m].id = i}
  BY <1>2
<1>4. {k[n].rev : n \in {m \in 1 .. cut : k[m].id = i}} = {l[n].rev : n \in {m \in 1 .. cut : l[m].id = i}}
  BY <1>2, <1>3
<1> QED
  BY <1>1, <1>4 DEF NewestOf

\* The next event has a newer revision than those before it, and is the newest then.
LEMMA NewestNext ==
  ASSUME NEW l \in Seq(PolicyEvents), NEW r, LogIsOrdered(l, r), NEW cut \in 0 .. Len(l), cut < Len(l), NEW i
  PROVE  /\ cut + 1 \in 0 .. Len(l) /\ l[cut + 1] \in PolicyEvents
         /\ NewestOf(l, cut, i) <= NewestOf(l, cut + 1, i)
         /\ i = l[cut + 1].id => NewestOf(l, cut, i) < l[cut + 1].rev /\ NewestOf(l, cut + 1, i) = l[cut + 1].rev
         /\ i # l[cut + 1].id => NewestOf(l, cut + 1, i) = NewestOf(l, cut, i)
<1>1. PICK old, new : old = NewestOf(l, cut, i) /\ new = NewestOf(l, cut + 1, i)
  OBVIOUS
<1>2. cut + 1 \in 1 .. Len(l) /\ cut + 1 \in 0 .. Len(l) /\ cut \in Nat /\ Len(l) \in Nat
  OBVIOUS
<1>3. /\ old \in Nat /\ \A n \in 1 .. cut : l[n].id = i => l[n].rev <= old
      /\ old = 0 \/ \E n \in 1 .. cut : l[n].id = i /\ l[n].rev = old
  BY <1>1, NewestIs
<1>4. /\ new \in Nat /\ \A n \in 1 .. cut + 1 : l[n].id = i => l[n].rev <= new
      /\ new = 0 \/ \E n \in 1 .. cut + 1 : l[n].id = i /\ l[n].rev = new
  BY <1>1, <1>2, NewestIs
<1>5. PICK next : next = l[cut + 1]
  OBVIOUS
<1>6. next \in PolicyEvents /\ next.rev \in Nat /\ next.rev >= 1
  <2>1. next \in PolicyEvents
    BY <1>2, <1>5
  <2>2. next.rev >= 1
    BY <1>2, <1>5 DEF LogIsOrdered
  <2> QED
    BY <2>1, <2>2 DEF PolicyEvents
<1>7. \A n \in 1 .. cut : l[n].id = next.id => l[n].rev < next.rev
  <2> SUFFICES ASSUME NEW n \in 1 .. cut, l[n].id = next.id
               PROVE  l[n].rev < next.rev
    OBVIOUS
  <2>1. n \in 1 .. Len(l) /\ n < cut + 1
    BY ONLY <1>2, n \in 1 .. cut, cut < Len(l)
  <2> QED
    BY <2>1, <1>2, <1>5 DEF LogIsOrdered
<1>8. \A n \in 1 .. cut : n \in 1 .. cut + 1
  BY <1>2
<1>9. \A n \in 1 .. cut + 1 : n \in 1 .. cut \/ n = cut + 1
  BY <1>2
<1>10. old <= new
  BY ONLY <1>3, <1>4, <1>8
<1>11. ASSUME i = next.id
       PROVE  old < next.rev /\ new = next.rev
  <2>1. old < next.rev
    BY ONLY <1>3, <1>6, <1>7, <1>11
  <2>2. next.rev <= new
    BY ONLY <1>4, <1>5, <1>9, <1>11, <1>2
  <2>3. new <= next.rev
    <3>1. CASE new = 0
      BY ONLY <3>1, <1>6
    <3>2. ASSUME NEW n \in 1 .. cut + 1, l[n].id = i, l[n].rev = new
          PROVE  new <= next.rev
      <4>1. CASE n \in 1 .. cut
        BY ONLY <4>1, <3>2, <1>4, <1>6, <1>7, <1>11
      <4>2. CASE n = cut + 1
        BY ONLY <4>2, <3>2, <1>5, <1>6
      <4> QED
        BY <4>1, <4>2, <1>9
    <3> QED
      BY <3>1, <3>2, <1>4
  <2> QED
    BY ONLY <2>1, <2>2, <2>3, <1>4, <1>6
<1>12. ASSUME i # next.id
       PROVE  new = old
  <2>1. new <= old
    <3>1. CASE new = 0
      BY ONLY <3>1, <1>3
    <3>2. ASSUME NEW n \in 1 .. cut + 1, l[n].id = i, l[n].rev = new
          PROVE  new <= old
      <4>1. n \in 1 .. cut
        BY <1>5, <1>9, <1>12, <3>2
      <4> QED
        BY ONLY <4>1, <3>2, <1>3
    <3> QED
      BY <3>1, <3>2, <1>4
  <2> QED
    BY ONLY <2>1, <1>3, <1>4, <1>10
<1> QED
  BY <1>1, <1>2, <1>5, <1>6, <1>10, <1>11, <1>12

-----------------------------------------------------------------------------
(* Reports.                                                                 *)

LEMMA HighestIs ==
  ASSUME NEW uses \in (SUBSET (1 .. MaxUses)) \ {{}}
  PROVE  Storing!Highest(uses) \in uses /\ \A s \in uses : s <= Storing!Highest(uses)
<1>1. uses \subseteq 1 .. MaxUses /\ MaxUses \in Nat /\ uses # {}
  BY PolicyBounds
<1> DEFINE T == {MaxUses - s : s \in uses}
<1>2. T \subseteq Nat /\ T # {}
  BY <1>1
<1>3. PICK x \in T : \A y \in T : x <= y
  BY <1>2, LeastNumber
<1>4. PICK top \in uses : x = MaxUses - top
  BY <1>3
<1>5. \A s \in uses : s <= top
  <2> SUFFICES ASSUME NEW s \in uses
               PROVE  s <= top
    OBVIOUS
  <2>1. x <= MaxUses - s
    BY <1>3
  <2> QED
    BY <2>1, <1>1, <1>4
<1>6. \E r \in uses : \A s \in uses : s <= r
  BY <1>5
<1> QED
  BY ONLY <1>6 DEF Storing!Highest

LEMMA AccountedGrows ==
  ASSUME NEW d, NEW h, NEW gone, Accounted(d, h, gone),
         NEW more, \A i \in Hosted : h[i] \subseteq more[i], NEW also, gone \subseteq also
  PROVE  Accounted(d, more, also)
BY DEF Accounted

LEMMA ReportGrows ==
  ASSUME NEW d, NEW todo, NEW h, NEW gone, ReportIsCurrent(d, todo, h, gone),
         NEW more, \A i \in Hosted : h[i] \subseteq more[i], NEW also, gone \subseteq also
  PROVE  ReportIsCurrent(d, todo, more, also)
BY DEF ReportIsCurrent

\* What a write adds is beyond what a report under way tells of.
LEMMA ReportSteps ==
  ASSUME NEW d \in PolicyDocuments, NEW e \in PolicyDocuments, DocumentStep(d, e),
         NEW todo \in Seq(UseRows), NEW h, NEW gone, ReportIsCurrent(d, todo, h, gone)
  PROVE  ReportIsCurrent(e, todo, h, gone)
<1> SUFFICES ASSUME NEW k \in 1 .. Len(todo)
             PROVE  /\ Storing!Places(e, todo[k].id) # {}
                    /\ FirstOf(e, todo[k].id).status = "active" =>
                          todo[k].uses \subseteq 1 .. FirstOf(e, todo[k].id).uses
                    /\ todo[k].id \in Hosted \ gone =>
                          \A s \in FirstOf(e, todo[k].id).pending :
                              s <= Storing!Highest(todo[k].uses) =>
                                  s \in h[todo[k].id] \cup Told(todo, todo[k].id, k)
  BY DEF ReportIsCurrent
<1>1. PICK row \in UseRows, i \in PolicyIds : row = todo[k] /\ i = row.id
  <2>1. todo[k] \in UseRows
    BY ONLY todo \in Seq(UseRows), k \in 1 .. Len(todo)
  <2>2. todo[k].id \in PolicyIds
    BY ONLY <2>1 DEF UseRows
  <2> QED
    BY <2>1, <2>2
<1>2. PICK f, g, top : f = FirstOf(d, i) /\ g = FirstOf(e, i) /\ top = Storing!Highest(row.uses)
  OBVIOUS
<1>3. /\ Storing!Places(d, i) # {} /\ (f.status = "active" => row.uses \subseteq 1 .. f.uses)
      /\ i \in Hosted \ gone => \A s \in f.pending : s <= top => s \in h[i] \cup Told(todo, i, k)
  BY <1>1, <1>2 DEF ReportIsCurrent
<1>4. Storing!Places(e, i) # {} /\ RecordStep(f, g)
  BY <1>2, <1>3 DEF DocumentStep
<1>5. f \in PolicyRecords /\ g \in PolicyRecords
  BY <1>2, <1>3, <1>4, FirstIs
<1>6. f.uses \in Nat /\ g.uses \in Nat /\ g.pending \subseteq Nat /\ row.uses \subseteq Nat
  BY <1>1, <1>5 DEF PolicyRecords, UseRows
<1>7. top \in row.uses
  BY <1>1, <1>2, HighestIs DEF UseRows
<1>8. ASSUME g.status = "active"
      PROVE  row.uses \subseteq 1 .. g.uses
  <2>1. row.uses \subseteq 1 .. f.uses /\ f.uses <= g.uses
    BY <1>3, <1>4, <1>8 DEF RecordStep
  <2> QED
    BY ONLY <2>1, <1>6
<1>9. ASSUME i \in Hosted \ gone, NEW s \in g.pending, s <= top
      PROVE  s \in h[i] \cup Told(todo, i, k)
  <2>1. CASE s \in f.pending
    BY <2>1, <1>3, <1>9
  <2>2. CASE f.status = "active" /\ s > f.uses
    <3>1. top \in 1 .. f.uses
      BY <2>2, <1>3, <1>7
    <3> QED
      BY ONLY <3>1, <2>2, <1>6, <1>9
  <2> QED
    BY <2>1, <2>2, <1>4, <1>9 DEF RecordStep
<1> QED
  BY <1>1, <1>2, <1>4, <1>8, <1>9

\* The rows after the first, once that is recorded.
LEMMA ReportGoesOn ==
  ASSUME NEW d \in PolicyDocuments, NEW todo \in Seq(UseRows), todo # <<>>, NEW h, NEW gone,
         ReportIsCurrent(d, todo, h, gone),
         todo[1].id \in Hosted \ gone => todo[1].uses \subseteq h[todo[1].id]
  PROVE  Tail(todo) \in Seq(UseRows) /\ ReportIsCurrent(d, Tail(todo), h, gone)
<1>1. PICK t : t = Tail(todo)
  OBVIOUS
<1>2. /\ t \in Seq(UseRows) /\ Len(t) = Len(todo) - 1 /\ Len(todo) \in Nat
      /\ \A n \in 1 .. Len(todo) - 1 : t[n] = todo[n + 1]
  BY <1>1
<1>3. ASSUME NEW k \in 1 .. Len(t)
      PROVE  /\ Storing!Places(d, t[k].id) # {}
             /\ FirstOf(d, t[k].id).status = "active" => t[k].uses \subseteq 1 .. FirstOf(d, t[k].id).uses
             /\ t[k].id \in Hosted \ gone =>
                   \A s \in FirstOf(d, t[k].id).pending :
                       s <= Storing!Highest(t[k].uses) => s \in h[t[k].id] \cup Told(t, t[k].id, k)
  <2>1. k + 1 \in 1 .. Len(todo) /\ t[k] = todo[k + 1]
    BY ONLY <1>2, k \in 1 .. Len(t)
  <2>2. PICK row, i : row = t[k] /\ i = row.id
    OBVIOUS
  <2>3. ASSUME NEW s \in Told(todo, i, k + 1), i \in Hosted \ gone
        PROVE  s \in h[i] \cup Told(t, i, k)
    <3>1. PICK j \in 1 .. k + 1 : todo[j].id = i /\ s \in todo[j].uses
      BY <2>3 DEF Told
    <3>2. CASE j = 1
      BY <3>1, <3>2, <2>3
    <3>3. CASE j # 1
      <4>1. j - 1 \in 1 .. k /\ t[j - 1] = todo[j]
        BY ONLY <3>1, <3>3, <1>2, <2>1, j \in 1 .. k + 1, k \in 1 .. Len(t)
      <4> QED
        BY <3>1, <4>1 DEF Told
    <3> QED
      BY <3>2, <3>3
  <2>4. /\ Storing!Places(d, i) # {} /\ (FirstOf(d, i).status = "active" => row.uses \subseteq 1 .. FirstOf(d, i).uses)
        /\ i \in Hosted \ gone =>
              \A s \in FirstOf(d, i).pending :
                  s <= Storing!Highest(row.uses) => s \in h[i] \cup Told(todo, i, k + 1)
    BY <2>1, <2>2 DEF ReportIsCurrent
  <2> QED
    BY <2>2, <2>3, <2>4
<1> QED
  BY <1>1, <1>2, <1>3 DEF ReportIsCurrent

LEMMA KeptOfPolicies ==
  ASSUME NEW s, NEW rows
  PROVE  Storing!Kept(s, rows) = Kept(s, rows)
BY DEF Storing!Kept, Kept

\* The rows a report begins with.
LEMMA ReportBegins ==
  ASSUME StoringTypes
  PROVE  /\ Storing!PendingUses \in Seq(UseRows)
         /\ RecordsAreRegular(doc) => ReportIsCurrent(doc, Storing!PendingUses, hosted, deleted)
<1>1. PICK s, revs : s = doc.recs /\ revs = doc.revs
  OBVIOUS
<1>2. s \in Seq(PolicyRecords) /\ DOMAIN s = 1 .. Len(s) /\ Len(s) \in Nat /\ doc \in PolicyDocuments
  BY <1>1 DEF StoringTypes, PolicyDocuments
<1>3. PICK due : due = {r \in {s[n] : n \in DOMAIN s} : revs[r.id] # None /\ r.pending # {}}
  OBVIOUS
<1>4. PICK rows : rows = Kept(s, due)
  OBVIOUS
<1>5. PICK at : Places(rows, Len(s), at, s, due)
  BY <1>2, <1>4, KeptPlaces
<1>6. rows \in Seq(PolicyRecords) /\ \A k \in 1 .. Len(rows) : rows[k] \in due
  BY <1>2, <1>4, KeptElements
<1>7. PICK todo : todo = Storing!PendingUses
  OBVIOUS
<1>8. todo = [n \in DOMAIN rows |-> [id |-> rows[n].id, uses |-> rows[n].pending]]
  BY <1>1, <1>3, <1>4, <1>7, KeptOfPolicies DEF Storing!PendingUses
<1>9. ASSUME NEW k \in 1 .. Len(rows)
      PROVE  /\ at[k] \in 1 .. Len(s) /\ rows[k] = s[at[k]] /\ rows[k] \in PolicyRecords
             /\ revs[rows[k].id] # None /\ rows[k].pending # {}
             /\ [id |-> rows[k].id, uses |-> rows[k].pending] \in UseRows
  <2>1. rows[k] \in PolicyRecords /\ rows[k] = s[at[k]] /\ at[k] \in 1 .. Len(s)
    BY <1>5, <1>6 DEF Places
  <2>2. revs[rows[k].id] # None /\ rows[k].pending # {}
    BY <1>3, <1>6
  <2> QED
    BY <2>1, <2>2 DEF PolicyRecords, UseRows
<1>10. /\ todo \in Seq(UseRows) /\ Len(todo) = Len(rows) /\ Len(rows) \in Nat
       /\ \A k \in 1 .. Len(rows) : todo[k] = [id |-> rows[k].id, uses |-> rows[k].pending]
  BY <1>6, <1>8, <1>9
<1>11. ASSUME RecordsAreRegular(doc), NEW k \in 1 .. Len(rows), NEW i \in PolicyIds, i = rows[k].id
       PROVE  /\ Storing!Places(doc, i) # {}
              /\ FirstOf(doc, i).status = "active" => rows[k].pending \subseteq 1 .. FirstOf(doc, i).uses
              /\ \A u \in FirstOf(doc, i).pending : u \in Told(todo, i, k)
  <2>1. at[k] \in Storing!Places(doc, i)
    BY <1>1, <1>2, <1>9, <1>11 DEF Storing!Places
  <2>2. PICK n, f : n = Storing!Least(Storing!Places(doc, i)) /\ f = FirstOf(doc, i)
    OBVIOUS
  <2>3. n \in 1 .. Len(s) /\ f \in PolicyRecords /\ f = s[n] /\ f.id = i /\ n <= at[k]
    BY <2>1, <2>2, <1>1, <1>2, FirstIs DEF FirstOf
  <2>4. rows[k].pending \subseteq 1 .. rows[k].uses /\ rows[k].uses > 0
    <3>1. rows[k].pending \subseteq 1 .. rows[k].uses
      BY <1>1, <1>9, <1>11 DEF RecordsAreRegular
    <3>2. rows[k].uses \in Nat /\ rows[k].pending # {}
      <4>1. rows[k] \in PolicyRecords /\ rows[k].pending # {}
        BY <1>9
      <4> QED
        BY ONLY <4>1, PolicyBounds DEF PolicyRecords
    <3> QED
      BY ONLY <3>1, <3>2
  <2>5. ASSUME f.status = "active"
        PROVE  rows[k].pending \subseteq 1 .. f.uses
    <3>1. ~(n < at[k])
      BY <2>3, <2>4, <2>5, <1>1, <1>9, <1>11 DEF RecordsAreRegular
    <3>2. n = at[k]
      <4>1. at[k] \in 1 .. Len(s)
        BY <1>9
      <4> QED
        BY ONLY <3>1, <4>1, <2>3, <1>2
    <3> QED
      BY <3>2, <2>3, <2>4, <1>9
  <2>6. ASSUME NEW u \in f.pending
        PROVE  u \in Told(todo, i, k)
    <3>1. f \in due
      <4>1. revs[f.id] # None
        BY <1>9, <1>11, <2>3
      <4>2. f \in {s[m] : m \in DOMAIN s} /\ f.pending # {}
        BY <1>2, <2>3, <2>6
      <4> QED
        BY ONLY <4>1, <4>2, <1>3
    <3>2. PICK j \in 1 .. Len(rows) : at[j] = n
      BY <3>1, <2>3, <1>5 DEF Places
    <3>3. ~(k < j)
      BY <3>2, <2>3, <1>2, <1>5, <1>9 DEF Places
    <3>4. j \in 1 .. k
      BY ONLY <3>3, <1>10, k \in 1 .. Len(rows), j \in 1 .. Len(rows)
    <3>5. todo[j].id = i /\ todo[j].uses = f.pending
      <4>1. rows[j] = f
        BY <3>2, <2>3, <1>9
      <4>2. todo[j] = [id |-> f.id, uses |-> f.pending]
        BY <4>1, <1>10
      <4> QED
        BY <4>2, <2>3
    <3> QED
      BY <3>4, <3>5 DEF Told
  <2> QED
    BY <2>1, <2>2, <2>5, <2>6
<1>12. ASSUME RecordsAreRegular(doc), NEW k \in 1 .. Len(todo)
       PROVE  /\ Storing!Places(doc, todo[k].id) # {}
              /\ FirstOf(doc, todo[k].id).status = "active" =>
                    todo[k].uses \subseteq 1 .. FirstOf(doc, todo[k].id).uses
              /\ \A u \in FirstOf(doc, todo[k].id).pending : u \in Told(todo, todo[k].id, k)
  <2>1. k \in 1 .. Len(rows) /\ todo[k].id = rows[k].id /\ todo[k].uses = rows[k].pending
    <3>1. k \in 1 .. Len(rows)
      BY <1>10
    <3>2. todo[k] = [id |-> rows[k].id, uses |-> rows[k].pending]
      BY <3>1, <1>10
    <3> QED
      BY <3>1, <3>2
  <2>2. rows[k].id \in PolicyIds
    BY <2>1, <1>9 DEF PolicyRecords
  <2> QED
    BY <2>1, <2>2, <1>11, <1>12
<1> QED
  BY <1>7, <1>10, <1>12 DEF ReportIsCurrent

-----------------------------------------------------------------------------
(* The types are invariant.                                                 *)

LEMMA NoElements ==
  ASSUME NEW S
  PROVE  <<>> \in Seq(S) /\ Len(<<>>) = 0 /\ DOMAIN <<>> = {}
OBVIOUS

LEMMA StoringInit ==
  ASSUME Storing!Init
  PROVE  StoringInv
<1>1. /\ doc = [revs |-> [i \in PolicyIds |-> None], recs |-> <<>>]
      /\ writing = [p \in {"bridge", "cli"} |-> None] /\ raced = FALSE
      /\ log = <<>> /\ cursor = 0 /\ handled = FALSE /\ run = 1 /\ report = [todo |-> <<>>, answer |-> None]
      /\ hosted = [i \in PolicyIds |-> {}] /\ deleted = {} /\ ended = [i \in PolicyIds |-> None]
      /\ kept = {} /\ policyFaults = 0
  BY DEF Storing!Init, Storing!Ids, Storing!Processes, PolicyIds
<1>2. PICK s \in Seq(PolicyRecords) : s = <<>> /\ DOMAIN s = {} /\ Len(s) = 0
  BY NoElements
<1>3. PICK l \in Seq(PolicyEvents) : l = <<>> /\ Len(l) = 0
  BY NoElements
<1>4. PICK t \in Seq(UseRows) : t = <<>> /\ Len(t) = 0
  BY NoElements
<1>5. doc \in PolicyDocuments /\ doc.recs = s
  BY <1>1, <1>2 DEF PolicyDocuments
<1>6. \A i : Storing!Places(doc, i) = {}
  BY <1>2, <1>5 DEF Storing!Places
<1>7. log \in Seq(PolicyEvents) /\ cursor \in 0 .. Len(log)
  BY <1>1, <1>3
<1>8. report \in [todo : Seq(UseRows), answer : {None, "accepted", "gone"}]
  BY <1>1, <1>4
<1>9. report.answer = None /\ report.todo = t
  BY <1>1, <1>4
<1>10. StoringTypes
  <2>1. policyFaults \in 0 .. MaxPolicyFaults /\ run \in 1 .. policyFaults + 1
    BY <1>1, PolicyBounds
  <2> QED
    BY <1>1, <1>5, <1>7, <1>8, <1>9, <2>1 DEF StoringTypes
<1>11. LogIsOrdered(log, run)
  BY <1>1, <1>3 DEF LogIsOrdered
<1>12. RecordsAreRegular(doc)
  BY <1>2, <1>5 DEF RecordsAreRegular
<1>13. Accounted(doc, hosted, deleted) /\ ReportIsCurrent(doc, report.todo, hosted, deleted)
  BY <1>4, <1>6, <1>9 DEF Accounted, ReportIsCurrent
<1>14. HandledIsDigested /\ EndedIsPast /\ LocalStays /\ AnswerIsTrue
  BY <1>1, <1>9, PolicyBounds DEF HandledIsDigested, EndedIsPast, LocalStays, AnswerIsTrue, PolicyIds
<1>15. WriteIsStep("bridge") /\ WriteIsStep("cli")
  BY <1>1 DEF WriteIsStep, Fresh
<1> QED
  BY <1>10, <1>11, <1>12, <1>13, <1>14, <1>15 DEF StoringInv, StoringRules

LEMMA WriteIs ==
  ASSUME StoringTypes, NEW p \in {"bridge", "cli"}, NEW new \in PolicyDocuments, Storing!Write(p, new)
  PROVE  /\ writing[p] = None /\ doc' = doc /\ raced' = raced
         /\ writing' \in [{"bridge", "cli"} -> {None} \cup Writes]
         /\ writing'[p] = [stale |-> FALSE, new |-> new] /\ writing'[p] # None
         /\ \A q \in {"bridge", "cli"} : q # p => writing'[q] = writing[q]
<1>1. [stale |-> FALSE, new |-> new] \in Writes
  BY DEF Writes
<1> QED
  BY <1>1, PolicyBounds DEF Storing!Write, StoringTypes

LEMMA NewestIsTyped ==
  ASSUME StoringTypes, NEW cut \in 0 .. Len(log), NEW i
  PROVE  Storing!Newest(cut, i) = NewestOf(log, cut, i) /\ NewestOf(log, cut, i) \in 0 .. MaxEvents
<1>1. Storing!Newest(cut, i) = NewestOf(log, cut, i)
  BY DEF Storing!Newest, NewestOf
<1>2. log \in Seq(PolicyEvents)
  BY DEF StoringTypes
<1> QED
  BY <1>1, <1>2, NewestIs

LEMMA RenameIs ==
  ASSUME StoringTypes, NEW p \in {"bridge", "cli"}, Storing!Rename(p)
  PROVE  /\ writing[p] \in Writes /\ doc' = writing[p].new /\ doc' \in PolicyDocuments
         /\ writing' \in [{"bridge", "cli"} -> {None} \cup Writes]
         /\ writing'[p] = None
         /\ \A q \in {"bridge", "cli"} : writing[q] = None => writing'[q] = None
         /\ \A q \in {"bridge", "cli"} : writing[q] # None => writing'[q] = None \/ writing'[q].stale
         /\ \A q \in {"bridge", "cli"} : q # p /\ writing[q] # None => writing'[q] # None
         /\ raced' = (raced \/ writing[p].stale) /\ raced' \in BOOLEAN
<1>1. /\ writing[p] # None /\ doc' = writing[p].new /\ raced' = (raced \/ writing[p].stale)
      /\ writing' = [q \in {"bridge", "cli"} |->
                       IF q = p \/ writing[q] = None THEN None ELSE [writing[q] EXCEPT !.stale = TRUE]]
  BY DEF Storing!Rename, Storing!Processes
<1>2. \A q \in {"bridge", "cli"} : writing[q] # None => writing[q] \in Writes
  BY DEF StoringTypes
<1>3. ASSUME NEW q \in {"bridge", "cli"}, writing[q] # None
      PROVE  [writing[q] EXCEPT !.stale = TRUE] \in Writes /\ [writing[q] EXCEPT !.stale = TRUE].stale
  <2>1. PICK w \in Writes : w = writing[q]
    BY <1>2, <1>3
  <2> QED
    BY <2>1 DEF Writes
<1>4. writing[p] \in Writes /\ writing[p].new \in PolicyDocuments /\ writing[p].stale \in BOOLEAN
  BY <1>1, <1>2 DEF Writes
<1>5. \A q \in {"bridge", "cli"} :
         writing'[q] = IF q = p \/ writing[q] = None THEN None ELSE [writing[q] EXCEPT !.stale = TRUE]
  BY <1>1
<1>6. \A q \in {"bridge", "cli"} : writing'[q] \in {None} \cup Writes
  BY <1>3, <1>5
<1>7. writing' \in [{"bridge", "cli"} -> {None} \cup Writes]
  BY <1>1, <1>6
<1>8. \A w \in Writes : w # None
  BY PolicyBounds
<1>9. \A q \in {"bridge", "cli"} : q # p /\ writing[q] # None => writing'[q] # None
  BY <1>3, <1>5, <1>8
<1>10. raced' \in BOOLEAN
  BY <1>1
<1> QED
  BY <1>1, <1>3, <1>4, <1>5, <1>7, <1>9, <1>10

LEMMA EventsAreTyped ==
  ASSUME StoringTypes, NEW n \in 1 .. Len(log)
  PROVE  log[n] \in PolicyEvents /\ log[n].id \in Hosted /\ log[n].id \in PolicyIds /\ log[n].preset \in Presets
         /\ log[n].run \in 0 .. MaxPolicyFaults + 1 /\ log[n].rev \in 0 .. MaxEvents
<1>1. log \in Seq(PolicyEvents)
  BY DEF StoringTypes
<1>2. log[n] \in PolicyEvents
  BY ONLY <1>1, n \in 1 .. Len(log)
<1> QED
  BY <1>2 DEF PolicyEvents, PolicyIds

LEMMA RowsAreTyped ==
  ASSUME StoringTypes, report.todo # <<>>
  PROVE  /\ 1 \in 1 .. Len(report.todo) /\ Head(report.todo) = report.todo[1]
         /\ report.todo \in Seq(UseRows) /\ Tail(report.todo) \in Seq(UseRows)
         /\ report.todo[1] \in UseRows /\ report.todo[1].id \in PolicyIds
         /\ report.todo[1].uses \in (SUBSET (1 .. MaxUses)) \ {{}}
<1>1. report.todo \in Seq(UseRows)
  BY DEF StoringTypes
<1>2. /\ 1 \in 1 .. Len(report.todo) /\ Head(report.todo) = report.todo[1]
      /\ Tail(report.todo) \in Seq(UseRows) /\ report.todo[1] \in UseRows
  BY ONLY <1>1, report.todo # <<>>
<1> QED
  BY <1>1, <1>2 DEF UseRows

\* The documents an event makes are documents.
LEMMA HandleIs ==
  ASSUME StoringTypes, Storing!HandleEvent, NEW e, e = log[cursor + 1]
  PROVE  /\ cursor < Len(log) /\ cursor + 1 \in 1 .. Len(log) /\ e \in PolicyEvents /\ e.id \in Hosted
         /\ ~handled /\ handled' = TRUE /\ writing["bridge"] = None /\ doc' = doc /\ raced' = raced
         /\ ended' \in {ended, [ended EXCEPT ![e.id] = NewestOf(log, cursor + 1, e.id)]}
         /\ e.type = "allow" => ended' = ended
         /\ kept' \in {kept, kept \cup {e.id}}
         /\ \/ /\ e.type = "allow" /\ e.run \in {0, run} /\ Storing!Newer(doc, e)
               /\ Storing!Write("bridge", Storing!Added(doc, e, e.rev))
            \/ /\ e.type = "revoke" /\ Storing!RevokeWrites(doc, e.id, e.rev)
               /\ Storing!Write("bridge", Storing!Revoked(doc, e.id, e.rev))
            \/ writing' = writing /\ Digested(doc, e, run, kept')
         /\ UNCHANGED <<log, cursor, run, report, hosted, deleted, policyFaults>>
<1>1. /\ cursor < Len(log) /\ ~handled /\ writing["bridge"] = None /\ handled' = TRUE
      /\ Storing!Ends(e, cursor + 1)
      /\ kept' = IF Storing!Applies(e) /\ Storing!Newer(doc, e) /\ Storing!Exact(doc, e)
                 THEN kept \cup {e.id} ELSE kept
      /\ \/ /\ Storing!Applies(e) /\ Storing!Newer(doc, e) /\ ~Storing!Exact(doc, e)
            /\ Storing!Write("bridge", Storing!Added(doc, e, e.rev))
         \/ /\ e.type = "revoke" /\ Storing!RevokeWrites(doc, e.id, e.rev)
            /\ Storing!Write("bridge", Storing!Revoked(doc, e.id, e.rev))
         \/ /\ IF e.type = "allow" THEN ~Storing!Applies(e) \/ ~Storing!Newer(doc, e) \/ Storing!Exact(doc, e)
                                   ELSE ~Storing!RevokeWrites(doc, e.id, e.rev)
            /\ doc' = doc /\ writing' = writing /\ raced' = raced
      /\ UNCHANGED <<log, cursor, run, report, hosted, deleted, policyFaults>>
  BY DEF Storing!HandleEvent, Storing!file
<1>2. cursor \in Nat /\ Len(log) \in Nat /\ cursor + 1 \in 1 .. Len(log) /\ cursor + 1 \in 0 .. Len(log)
  BY <1>1 DEF StoringTypes
<1>3. e \in PolicyEvents /\ e.id \in Hosted /\ e.id \in PolicyIds /\ e.rev \in 0 .. MaxEvents
      /\ e.type \in {"allow", "revoke"}
  BY <1>2, EventsAreTyped DEF PolicyEvents
<1>4. Storing!Newest(cursor + 1, e.id) = NewestOf(log, cursor + 1, e.id)
  BY <1>2, NewestIsTyped
<1>5. doc' = doc /\ raced' = raced
  BY <1>1 DEF Storing!Write
<1>6. ASSUME writing' = writing,
             IF e.type = "allow" THEN ~Storing!Applies(e) \/ ~Storing!Newer(doc, e) \/ Storing!Exact(doc, e)
                                 ELSE ~Storing!RevokeWrites(doc, e.id, e.rev)
      PROVE  Digested(doc, e, run, kept')
  <2>1. CASE e.type = "revoke"
    BY <2>1 DEF Digested
  <2>2. CASE ~Storing!Applies(e) /\ e.type = "allow"
    BY <2>2 DEF Storing!Applies, Digested
  <2>3. CASE ~Storing!Newer(doc, e)
    <3>1. doc.revs[e.id] # None /\ doc.revs[e.id] \in 0 .. MaxEvents /\ ~(doc.revs[e.id] < e.rev)
      BY <2>3, <1>3 DEF Storing!Newer, StoringTypes, PolicyDocuments
    <3>2. doc.revs[e.id] >= e.rev
      BY ONLY <3>1, <1>3, PolicyBounds
    <3> QED
      BY <3>1, <3>2 DEF Digested
  <2>4. CASE Storing!Applies(e) /\ Storing!Newer(doc, e) /\ Storing!Exact(doc, e)
    BY <2>4, <1>1 DEF Digested
  <2> QED
    BY <1>3, <1>6, <2>1, <2>2, <2>3, <2>4
<1>7. /\ ended' \in {ended, [ended EXCEPT ![e.id] = NewestOf(log, cursor + 1, e.id)]}
      /\ e.type = "allow" => ended' = ended
  BY <1>1, <1>4 DEF Storing!Ends
<1>8. \/ /\ e.type = "allow" /\ e.run \in {0, run} /\ Storing!Newer(doc, e)
         /\ Storing!Write("bridge", Storing!Added(doc, e, e.rev))
      \/ /\ e.type = "revoke" /\ Storing!RevokeWrites(doc, e.id, e.rev)
         /\ Storing!Write("bridge", Storing!Revoked(doc, e.id, e.rev))
      \/ writing' = writing /\ Digested(doc, e, run, kept')
  BY <1>1, <1>6 DEF Storing!Applies
<1>9. kept' \in {kept, kept \cup {e.id}}
  BY <1>1
<1> QED
  BY <1>1, <1>2, <1>3, <1>5, <1>7, <1>8, <1>9

\* What a use and the record of a report write, and that no revision changes.
LEMMA UseIs ==
  ASSUME StoringTypes, NEW i \in PolicyIds, Storing!Use(i)
  PROVE  /\ Storing!Write("bridge", Storing!Used(doc, i))
         /\ Storing!Used(doc, i) \in PolicyDocuments /\ Sound(doc, Storing!Used(doc, i), hosted, deleted)
         /\ Storing!Used(doc, i).revs = doc.revs
         /\ \A j \in PolicyIds : Storing!Active(Storing!Used(doc, i), j) => Storing!Active(doc, j)
         /\ UNCHANGED <<log, cursor, handled, run, report, hosted, deleted, ended, kept, policyFaults>>
<1>1. doc \in PolicyDocuments
  BY DEF StoringTypes
<1>2. /\ Storing!ActivePlaces(doc, i) # {}
      /\ doc.recs[Storing!Least(Storing!ActivePlaces(doc, i))].uses < MaxUses
      /\ Storing!Write("bridge", Storing!Used(doc, i))
      /\ UNCHANGED <<log, cursor, handled, run, report, hosted, deleted, ended, kept, policyFaults>>
  BY DEF Storing!Use, Storing!events
<1> QED
  BY <1>1, <1>2, UsedIsSound

LEMMA RecordIs ==
  ASSUME StoringTypes, Storing!RecordReport
  PROVE  /\ report.answer # None /\ report.todo # <<>> /\ report' = [todo |-> Tail(report.todo), answer |-> None]
         /\ writing["bridge"] = None
         /\ \/ writing' = writing /\ doc' = doc /\ raced' = raced
            \/ \E new \in PolicyDocuments :
                  /\ Storing!Write("bridge", new) /\ new.revs = doc.revs
                  /\ \A j \in PolicyIds : Storing!Active(new, j) => Storing!Active(doc, j)
                  /\ AnswerIsTrue /\ ReportIsCurrent(doc, report.todo, hosted, deleted)
                       => Sound(doc, new, hosted, deleted)
         /\ UNCHANGED <<log, cursor, handled, run, hosted, deleted, ended, kept, policyFaults>>
<1>1. PICK r, i, through :
        r = report.todo[1] /\ i = r.id /\ through = Storing!Highest(r.uses)
  OBVIOUS
<1>2. report.answer # None /\ report.todo # <<>> /\ Head(report.todo) = r /\ r \in UseRows /\ i \in PolicyIds
      /\ 1 \in 1 .. Len(report.todo)
  <2>1. report.answer # None /\ report.todo # <<>>
    BY DEF Storing!RecordReport, StoringTypes
  <2> QED
    BY <2>1, <1>1, RowsAreTyped
<1>3. PICK new : new = IF Storing!Places(doc, i) = {} THEN doc
                       ELSE IF report.answer = "gone" THEN Storing!Invalidated(doc, i)
                       ELSE Storing!Reported(doc, i, through)
  OBVIOUS
<1>4. /\ \/ new # doc /\ Storing!Write("bridge", new)
         \/ new = doc /\ writing["bridge"] = None /\ doc' = doc /\ writing' = writing /\ raced' = raced
      /\ report' = [todo |-> Tail(report.todo), answer |-> None]
      /\ UNCHANGED <<log, cursor, handled, run, hosted, deleted, ended, kept, policyFaults>>
  BY <1>1, <1>2, <1>3 DEF Storing!RecordReport, Storing!file, Storing!events
<1>5. writing["bridge"] = None
  BY <1>4 DEF Storing!Write
<1>6. doc \in PolicyDocuments /\ report.answer \in {"accepted", "gone"}
  BY <1>2 DEF StoringTypes
<1>7. ASSUME Storing!Places(doc, i) # {}
      PROVE  /\ new \in PolicyDocuments /\ new.revs = doc.revs
             /\ \A j \in PolicyIds : Storing!Active(new, j) => Storing!Active(doc, j)
             /\ AnswerIsTrue /\ ReportIsCurrent(doc, report.todo, hosted, deleted)
                  => Sound(doc, new, hosted, deleted)
  <2>1. PICK f \in PolicyRecords : f = FirstOf(doc, i)
    BY <1>6, <1>7, FirstIs
  <2>2. PICK left, status :
          IF report.answer = "gone" THEN left = {} /\ status = "invalid"
          ELSE left = {s \in f.pending : s > through} /\ status = f.status
    OBVIOUS
  <2>3. left \subseteq f.pending /\ (status = f.status \/ status = "invalid")
    BY <2>2
  <2>4. PICK n : n = Storing!Least(Storing!Places(doc, i)) /\ doc.recs[n] = f
    BY <2>1 DEF FirstOf
  <2>5. new = WithFirst(doc, i, status, left)
    <3>1. CASE report.answer = "gone"
      BY <3>1, <1>3, <1>7, <2>2, <2>4 DEF Storing!Invalidated, WithFirst
    <3>2. CASE report.answer # "gone"
      <4>1. new = [doc EXCEPT !.recs[n].pending = left]
        BY <3>2, <1>3, <1>7, <2>2, <2>4 DEF Storing!Reported
      <4>2. [f EXCEPT !.status = status, !.pending = left] = [f EXCEPT !.pending = left]
        BY <3>2, <2>1, <2>2 DEF PolicyRecords
      <4> QED
        BY <4>1, <4>2, <2>4 DEF WithFirst
    <3> QED
      BY <3>1, <3>2
  <2>6. ASSUME AnswerIsTrue, ReportIsCurrent(doc, report.todo, hosted, deleted), i \in Hosted \ deleted
        PROVE  status = f.status /\ \A s \in f.pending \ left : s \in hosted[i]
    <3>1. report.answer = "accepted" /\ r.uses \subseteq hosted[i]
      BY <2>6, <1>1, <1>6 DEF AnswerIsTrue
    <3>2. status = f.status /\ \A s \in f.pending \ left : ~(s > through)
      BY <3>1, <2>2
    <3>3. \A s \in f.pending : s <= through => s \in hosted[i] \cup Told(report.todo, i, 1)
      BY <2>1, <2>6, <1>1, <1>2 DEF ReportIsCurrent
    <3>4. Told(report.todo, i, 1) = r.uses
      BY <1>1 DEF Told
    <3>5. f.pending \subseteq Nat /\ through \in Nat
      <4>1. r.uses \in (SUBSET (1 .. MaxUses)) \ {{}}
        BY <1>2 DEF UseRows
      <4>2. through \in r.uses
        BY <4>1, <1>1, HighestIs
      <4>3. through \in Nat
        BY <4>1, <4>2
      <4> QED
        BY <4>3, <2>1 DEF PolicyRecords
    <3>6. \A s \in f.pending \ left : s <= through
      BY ONLY <3>2, <3>5
    <3> QED
      BY <3>1, <3>2, <3>3, <3>4, <3>6
  <2>7. /\ doc \in PolicyDocuments /\ i \in PolicyIds /\ Storing!Places(doc, i) # {}
        /\ f = FirstOf(doc, i) /\ left \subseteq f.pending /\ (status = f.status \/ status = "invalid")
        /\ new = WithFirst(doc, i, status, left)
    BY <1>2, <1>6, <1>7, <2>1, <2>3, <2>5
  <2>8. /\ new \in PolicyDocuments /\ new.revs = doc.revs
        /\ \A j \in PolicyIds : Storing!Active(new, j) => Storing!Active(doc, j)
        /\ LeavesAccepted(f, i, status, left, hosted, deleted) => Sound(doc, new, hosted, deleted)
    <3>1. /\ WithFirst(doc, i, status, left) \in PolicyDocuments
          /\ WithFirst(doc, i, status, left).revs = doc.revs
          /\ \A j \in PolicyIds : Storing!Active(WithFirst(doc, i, status, left), j) => Storing!Active(doc, j)
          /\ LeavesAccepted(FirstOf(doc, i), i, status, left, hosted, deleted)
               => Sound(doc, WithFirst(doc, i, status, left), hosted, deleted)
      BY <2>7, ReportedIsSound
    <3> QED
      BY <2>7, <3>1
  <2>9. AnswerIsTrue /\ ReportIsCurrent(doc, report.todo, hosted, deleted)
          => LeavesAccepted(f, i, status, left, hosted, deleted)
    BY <2>6 DEF LeavesAccepted
  <2> QED
    BY <2>8, <2>9
<1>8. Storing!Places(doc, i) = {} => new = doc
  BY <1>3
<1> QED
  BY <1>2, <1>4, <1>5, <1>7, <1>8

\* The steps of the command line.
LEMMA CommandIs ==
  ASSUME StoringTypes, NEW i \in PolicyIds,
         Storing!Revoke(i) \/ \E preset \in Presets, r \in {0, run} : i \in Local /\ Storing!Allow(i, preset, r)
  PROVE  /\ \E new \in PolicyDocuments :
               /\ Storing!Write("cli", new) /\ Sound(doc, new, hosted, deleted)
               /\ \A j \in PolicyIds : Storing!Active(new, j) /\ ~Storing!Active(doc, j) =>
                     j \in Local /\ Storing!Places(doc, j) = {}
         /\ \/ ended' = ended
            \/ /\ Storing!Places(doc, i) # {}
               /\ \E cut \in {cursor, cursor + 1} :
                     /\ cut \in 0 .. Len(log) /\ ended' = [ended EXCEPT ![i] = NewestOf(log, cut, i)]
                     /\ cut # cursor => handled /\ writing["bridge"] = None
         /\ policyFaults' = policyFaults + 1 /\ policyFaults' \in 0 .. MaxPolicyFaults
         /\ UNCHANGED <<log, cursor, handled, run, report, hosted, deleted, kept>>
<1>1. doc \in PolicyDocuments /\ cursor \in 0 .. Len(log) /\ Len(log) \in Nat /\ run \in 0 .. MaxPolicyFaults + 1
      /\ policyFaults \in 0 .. MaxPolicyFaults
  <2>1. policyFaults \in 0 .. MaxPolicyFaults /\ run \in 1 .. policyFaults + 1
    BY DEF StoringTypes
  <2>2. run \in 0 .. MaxPolicyFaults + 1
    BY ONLY <2>1, PolicyBounds
  <2> QED
    BY <2>1, <2>2 DEF StoringTypes
<1>2. CASE Storing!Revoke(i)
  <2>1. PICK rev, cut : rev = Storing!FileRevision(i)
                        /\ cut = cursor + (IF handled /\ writing["bridge"] = None THEN 1 ELSE 0)
    OBVIOUS
  <2>2. /\ policyFaults < MaxPolicyFaults /\ policyFaults' = policyFaults + 1
        /\ Storing!Places(doc, i) # {} /\ Storing!RevokeWrites(doc, i, rev)
        /\ Storing!Write("cli", Storing!Revoked(doc, i, rev))
        /\ ended' = [ended EXCEPT ![i] = Storing!Newest(cut, i)]
        /\ UNCHANGED <<log, cursor, handled, run, report, hosted, deleted, kept>>
    BY <1>2, <2>1 DEF Storing!Revoke, Storing!Fault, Storing!events
  <2>3. rev \in 0 .. MaxEvents
    BY <1>1, <2>1, PolicyBounds DEF Storing!FileRevision, PolicyDocuments
  <2>4. /\ Storing!Revoked(doc, i, rev) \in PolicyDocuments
        /\ Sound(doc, Storing!Revoked(doc, i, rev), hosted, deleted)
        /\ \A j \in PolicyIds : Storing!Active(Storing!Revoked(doc, i, rev), j) => Storing!Active(doc, j)
    BY <1>1, <2>2, <2>3, RevokedIsSound
  <2>5. /\ cut \in {cursor, cursor + 1} /\ cut \in 0 .. Len(log)
        /\ cut # cursor => handled /\ writing["bridge"] = None
    <3>1. handled => cursor < Len(log)
      BY DEF StoringTypes
    <3> QED
      BY <1>1, <2>1, <3>1
  <2>6. policyFaults' = policyFaults + 1 /\ policyFaults' \in 0 .. MaxPolicyFaults
    BY <1>1, <2>2, PolicyBounds
  <2>7. Storing!Newest(cut, i) = NewestOf(log, cut, i)
    BY <2>5, NewestIsTyped
  <2> QED
    BY <2>2, <2>4, <2>5, <2>6, <2>7
<1>3. ASSUME NEW preset \in Presets, NEW r \in {0, run}, i \in Local, Storing!Allow(i, preset, r)
      PROVE  /\ \E new \in PolicyDocuments :
                   /\ Storing!Write("cli", new) /\ Sound(doc, new, hosted, deleted)
                   /\ \A j \in PolicyIds : Storing!Active(new, j) /\ ~Storing!Active(doc, j) =>
                         j \in Local /\ Storing!Places(doc, j) = {}
             /\ ended' = ended
             /\ policyFaults' = policyFaults + 1 /\ policyFaults' \in 0 .. MaxPolicyFaults
             /\ UNCHANGED <<log, cursor, handled, run, report, hosted, deleted, kept>>
  <2>1. PICK a : a = [id |-> i, preset |-> preset, run |-> r]
    OBVIOUS
  <2>2. a.id = i /\ a.preset = preset /\ a.run = r
    BY <2>1
  <2>3. /\ policyFaults < MaxPolicyFaults /\ policyFaults' = policyFaults + 1
        /\ Storing!Places(doc, i) = {} /\ Storing!Write("cli", Storing!Added(doc, a, None))
        /\ ended' = ended
        /\ UNCHANGED <<log, cursor, handled, run, report, hosted, deleted, kept>>
    BY <1>3, <2>1 DEF Storing!Allow, Storing!Fault, Storing!events
  <2>4. /\ a.id \in PolicyIds /\ a.id \notin Hosted /\ a.preset \in Presets /\ a.run \in 0 .. MaxPolicyFaults + 1
        /\ None \in 0 .. MaxEvents \cup {None}
    <3>1. r \in 0 .. MaxPolicyFaults + 1
      BY <1>1, PolicyBounds
    <3> QED
      BY <1>3, <2>2, <3>1, PolicyBounds
  <2>5. /\ Storing!Added(doc, a, None) \in PolicyDocuments
        /\ Sound(doc, Storing!Added(doc, a, None), hosted, deleted)
        /\ \A j \in PolicyIds :
              Storing!Active(Storing!Added(doc, a, None), j) /\ ~Storing!Active(doc, j) => j = a.id
    BY <1>1, <2>4, AddedIsSound
  <2>6. policyFaults' = policyFaults + 1 /\ policyFaults' \in 0 .. MaxPolicyFaults
    BY <1>1, <2>3, PolicyBounds
  <2> QED
    BY <1>3, <2>2, <2>3, <2>5, <2>6
<1> QED
  BY <1>2, <1>3

LEMMA EndedIsTyped ==
  ASSUME StoringTypes, NEW i, NEW rev \in 0 .. MaxEvents
  PROVE  [ended EXCEPT ![i] = rev] \in [PolicyIds -> 0 .. MaxEvents \cup {None}]
BY DEF StoringTypes

\* An event and the revision it has.
LEMMA IssueIs ==
  ASSUME StoringTypes, NEW e, Storing!Issue(e), e \in PolicyEvents
  PROVE  /\ e.rev = NewestOf(log, Len(log), e.id) + 1
         /\ log' = Append(log, e) /\ log' \in Seq(PolicyEvents) /\ Len(log') = Len(log) + 1 /\ Len(log) \in Nat
         /\ log'[Len(log) + 1] = e /\ \A n \in 1 .. Len(log) : log'[n] = log[n]
         /\ UNCHANGED <<doc, writing, raced, cursor, handled, run, report, hosted, deleted, ended, kept, policyFaults>>
<1>1. log \in Seq(PolicyEvents) /\ Len(log) \in 0 .. Len(log)
  BY DEF StoringTypes
<1>2. /\ e.rev = Storing!Newest(Len(log), e.id) + 1 /\ log' = Append(log, e)
      /\ UNCHANGED <<doc, writing, raced, cursor, handled, run, report, hosted, deleted, ended, kept, policyFaults>>
  BY DEF Storing!Issue, Storing!file
<1>3. Storing!Newest(Len(log), e.id) = NewestOf(log, Len(log), e.id)
  BY <1>1, NewestIsTyped
<1>4. /\ log' \in Seq(PolicyEvents) /\ Len(log') = Len(log) + 1 /\ Len(log) \in Nat
      /\ log'[Len(log) + 1] = e /\ \A n \in 1 .. Len(log) : log'[n] = log[n]
  BY ONLY <1>1, <1>2, e \in PolicyEvents
<1> QED
  BY <1>2, <1>3, <1>4

\* Next, with the parameters of its actions.
LEMMA StoringSteps ==
  ASSUME StoringTypes, Storing!Next
  PROVE  \/ \E p \in {"bridge", "cli"} : Storing!Rename(p)
         \/ \E e \in PolicyEvents : Storing!Issue(e) /\ e.run \in {0, run}
         \/ \E i \in PolicyIds : Storing!Delete(i)
         \/ Storing!HandleEvent \/ Storing!SaveCursor \/ (\E i \in PolicyIds : Storing!Use(i))
         \/ \E i \in PolicyIds :
               Storing!Revoke(i) \/ \E preset \in Presets, r \in {0, run} : i \in Local /\ Storing!Allow(i, preset, r)
         \/ Storing!StartReport \/ Storing!SendUses \/ Storing!ReportLost \/ Storing!RecordReport \/ Storing!Restart
<1>1. ASSUME NEW i \in Hosted, NEW preset \in Presets, NEW type \in {"allow", "revoke"}, NEW r \in {0, run},
             NEW rev \in 0 .. MaxEvents,
             Storing!Issue([id |-> i, type |-> type, preset |-> preset, run |-> r, rev |-> rev])
      PROVE  \E e \in PolicyEvents : Storing!Issue(e) /\ e.run \in {0, run}
  <2>1. PICK e : e = [id |-> i, type |-> type, preset |-> preset, run |-> r, rev |-> rev]
    OBVIOUS
  <2>2. r \in 0 .. MaxPolicyFaults + 1
    <3>1. policyFaults \in 0 .. MaxPolicyFaults /\ run \in 1 .. policyFaults + 1
      BY DEF StoringTypes
    <3> QED
      BY ONLY <3>1, PolicyBounds, r \in {0, run}
  <2>3. e \in PolicyEvents /\ e.run = r
    BY <2>1, <2>2 DEF PolicyEvents
  <2> QED
    BY <1>1, <2>1, <2>3
<1>2. \/ \E p \in Storing!Processes : Storing!Rename(p)
      \/ \E i \in Hosted, preset \in Presets, type \in {"allow", "revoke"}, r \in {0, run}, rev \in Storing!Revisions :
            Storing!Issue([id |-> i, type |-> type, preset |-> preset, run |-> r, rev |-> rev])
      \/ \E i \in Hosted : Storing!Delete(i)
      \/ Storing!HandleEvent \/ Storing!SaveCursor
      \/ \E i \in Storing!Ids : Storing!Use(i) \/ Storing!Revoke(i)
      \/ Storing!StartReport \/ Storing!SendUses \/ Storing!ReportLost \/ Storing!RecordReport \/ Storing!Restart
      \/ \E i \in Local, preset \in Presets, r \in {0, run} : Storing!Allow(i, preset, r)
  BY Zenon DEF Storing!Next
<1>3. Storing!Processes = {"bridge", "cli"} /\ Storing!Revisions = 0 .. MaxEvents /\ Storing!Ids = PolicyIds
      /\ Hosted \subseteq PolicyIds /\ Local \subseteq PolicyIds
  BY DEF Storing!Processes, Storing!Revisions, Storing!Ids, PolicyIds
<1>4. CASE \E i \in Hosted, preset \in Presets, type \in {"allow", "revoke"}, r \in {0, run}, rev \in Storing!Revisions :
            Storing!Issue([id |-> i, type |-> type, preset |-> preset, run |-> r, rev |-> rev])
  BY <1>1, <1>3, <1>4
<1>5. CASE \E i \in Local, preset \in Presets, r \in {0, run} : Storing!Allow(i, preset, r)
  BY <1>3, <1>5
<1> QED
  BY <1>2, <1>3, <1>4, <1>5

LEMMA StoringTypesNext ==
  ASSUME StoringTypes, Storing!Next
  PROVE  StoringTypes'
<1> DEFINE Events(l, c, h) == l \in Seq(PolicyEvents) /\ c \in 0 .. Len(l) /\ h \in BOOLEAN /\ (h => c < Len(l))
           Files(d, w, r) == d \in PolicyDocuments /\ w \in [{"bridge", "cli"} -> {None} \cup Writes] /\ r \in BOOLEAN
           Runs(f, r) == f \in 0 .. MaxPolicyFaults /\ r \in 1 .. f + 1
           Reports(r) == /\ r \in [todo : Seq(UseRows), answer : {None, "accepted", "gone"}]
                         /\ r.answer # None => r.todo # <<>>
           Uses(h) == h \in [PolicyIds -> SUBSET (1 .. MaxUses)]
           Ends(e, k) == e \in [PolicyIds -> 0 .. MaxEvents \cup {None}] /\ k \subseteq Hosted
<1>1. /\ Events(log, cursor, handled) /\ Files(doc, writing, raced) /\ Runs(policyFaults, run)
      /\ Reports(report) /\ Uses(hosted) /\ Ends(ended, kept)
  BY DEF StoringTypes
<1>2. ASSUME Events(log, cursor, handled)', Files(doc, writing, raced)', Runs(policyFaults, run)',
             Reports(report)', Uses(hosted)', Ends(ended, kept)'
      PROVE  StoringTypes'
  BY <1>2 DEF StoringTypes
<1>3. ASSUME NEW p \in {"bridge", "cli"}, NEW new \in PolicyDocuments, Storing!Write(p, new)
      PROVE  Files(doc, writing, raced)'
  BY <1>1, <1>3, WriteIs
<1>4. Reports([todo |-> <<>>, answer |-> None])
  BY NoElements
<1>5. CASE \E p \in {"bridge", "cli"} : Storing!Rename(p)
  <2>1. PICK p \in {"bridge", "cli"} : Storing!Rename(p)
    BY <1>5
  <2>2. Files(doc, writing, raced)'
    BY <2>1, RenameIs
  <2>3. UNCHANGED <<log, cursor, handled, run, report, hosted, deleted, ended, kept, policyFaults>>
    BY <2>1 DEF Storing!Rename, Storing!events
  <2> QED
    BY <1>1, <1>2, <2>2, <2>3
<1>6. CASE \E e \in PolicyEvents : Storing!Issue(e)
  <2>1. PICK e \in PolicyEvents : Storing!Issue(e)
    BY <1>6
  <2>2. /\ log' \in Seq(PolicyEvents) /\ Len(log') = Len(log) + 1 /\ Len(log) \in Nat
        /\ UNCHANGED <<doc, writing, raced, cursor, handled, run, report, hosted, deleted, ended, kept, policyFaults>>
    BY <2>1, IssueIs
  <2>3. Events(log, cursor, handled)'
    BY <1>1, <2>2
  <2> QED
    BY <1>1, <1>2, <2>2, <2>3
<1>7. CASE \E i \in PolicyIds : Storing!Delete(i)
  <2>1. /\ policyFaults < MaxPolicyFaults /\ policyFaults' = policyFaults + 1
        /\ UNCHANGED <<doc, writing, raced, log, cursor, handled, run, report, hosted, ended, kept>>
    BY <1>7 DEF Storing!Delete, Storing!Fault, Storing!file, Storing!events
  <2>2. Runs(policyFaults, run)'
    BY <1>1, <2>1, PolicyBounds
  <2> QED
    BY <1>1, <1>2, <2>1, <2>2
<1>8. CASE Storing!HandleEvent
  <2>1. PICK e : e = log[cursor + 1]
    OBVIOUS
  <2>2. /\ cursor < Len(log) /\ cursor + 1 \in 1 .. Len(log) /\ e.id \in Hosted /\ handled' = TRUE
        /\ doc' = doc /\ raced' = raced
        /\ ended' \in {ended, [ended EXCEPT ![e.id] = NewestOf(log, cursor + 1, e.id)]}
        /\ kept' \in {kept, kept \cup {e.id}}
        /\ \/ /\ e.type = "allow" /\ Storing!Newer(doc, e)
              /\ Storing!Write("bridge", Storing!Added(doc, e, e.rev))
           \/ /\ e.type = "revoke" /\ Storing!RevokeWrites(doc, e.id, e.rev)
              /\ Storing!Write("bridge", Storing!Revoked(doc, e.id, e.rev))
           \/ writing' = writing
        /\ UNCHANGED <<log, cursor, run, report, hosted, deleted, policyFaults>>
    BY <1>8, <2>1, HandleIs
  <2>3. /\ e.id \in PolicyIds /\ e.preset \in Presets /\ e.run \in 0 .. MaxPolicyFaults + 1
        /\ e.rev \in 0 .. MaxEvents
    BY <2>1, <2>2, EventsAreTyped
  <2>4. ASSUME Storing!Newer(doc, e), Storing!Write("bridge", Storing!Added(doc, e, e.rev))
        PROVE  Files(doc, writing, raced)'
    <3>1. doc.revs[e.id] # None => e.rev # None /\ doc.revs[e.id] <= e.rev
      BY <1>1, <2>3, <2>4, PolicyBounds DEF Storing!Newer, PolicyDocuments
    <3>2. Storing!Added(doc, e, e.rev) \in PolicyDocuments
      BY <1>1, <2>3, <3>1, AddedIsSound
    <3> QED
      BY ONLY <2>4, <3>2, <1>3
  <2>5. ASSUME Storing!RevokeWrites(doc, e.id, e.rev), Storing!Write("bridge", Storing!Revoked(doc, e.id, e.rev))
        PROVE  Files(doc, writing, raced)'
    <3>1. Storing!Revoked(doc, e.id, e.rev) \in PolicyDocuments
      BY <1>1, <2>3, <2>5, RevokedIsSound
    <3> QED
      BY ONLY <2>5, <3>1, <1>3
  <2>6. Files(doc, writing, raced)'
    <3>1. CASE writing' = writing
      BY ONLY <3>1, <1>1, <2>2
    <3>2. \/ Storing!Newer(doc, e) /\ Storing!Write("bridge", Storing!Added(doc, e, e.rev))
          \/ Storing!RevokeWrites(doc, e.id, e.rev) /\ Storing!Write("bridge", Storing!Revoked(doc, e.id, e.rev))
          \/ writing' = writing
      BY <2>2, Zenon
    <3> QED
      BY ONLY <3>1, <3>2, <2>4, <2>5
  <2>7. Ends(ended, kept)'
    <3>1. cursor + 1 \in 0 .. Len(log)
      BY <2>2
    <3>2. NewestOf(log, cursor + 1, e.id) \in 0 .. MaxEvents
      BY <3>1, NewestIsTyped
    <3>3. [ended EXCEPT ![e.id] = NewestOf(log, cursor + 1, e.id)] \in [PolicyIds -> 0 .. MaxEvents \cup {None}]
      BY <3>2, EndedIsTyped
    <3> QED
      BY <1>1, <2>2, <3>3
  <2> QED
    BY <1>1, <1>2, <2>2, <2>6, <2>7
<1>9. CASE Storing!SaveCursor
  <2>1. /\ handled /\ handled' = FALSE /\ cursor' = cursor + 1
        /\ UNCHANGED <<doc, writing, raced, log, run, report, hosted, deleted, ended, kept, policyFaults>>
    BY <1>9 DEF Storing!SaveCursor, Storing!file
  <2>2. cursor < Len(log)
    BY <1>1, <2>1
  <2>3. cursor + 1 \in 0 .. Len(log)
    BY ONLY <1>1, <2>2
  <2>4. Events(log, cursor, handled)'
    BY ONLY <1>1, <2>1, <2>3
  <2> QED
    BY <1>1, <1>2, <2>1, <2>4
<1>10. CASE \E i \in PolicyIds : Storing!Use(i)
  <2>1. PICK i \in PolicyIds : Storing!Use(i)
    BY <1>10
  <2>2. /\ Storing!Write("bridge", Storing!Used(doc, i)) /\ Storing!Used(doc, i) \in PolicyDocuments
        /\ UNCHANGED <<log, cursor, handled, run, report, hosted, deleted, ended, kept, policyFaults>>
    BY <2>1, UseIs
  <2> QED
    BY <1>1, <1>2, <1>3, <2>2
<1>11. ASSUME NEW i \in PolicyIds,
              Storing!Revoke(i) \/ \E preset \in Presets, r \in {0, run} : i \in Local /\ Storing!Allow(i, preset, r)
       PROVE  StoringTypes'
  <2>1. /\ \E new \in PolicyDocuments : Storing!Write("cli", new)
        /\ \/ ended' = ended
           \/ \E cut \in 0 .. Len(log) : ended' = [ended EXCEPT ![i] = NewestOf(log, cut, i)]
        /\ policyFaults' = policyFaults + 1 /\ policyFaults' \in 0 .. MaxPolicyFaults
        /\ UNCHANGED <<log, cursor, handled, run, report, hosted, deleted, kept>>
    BY <1>11, CommandIs
  <2>2. Files(doc, writing, raced)'
    BY <2>1, <1>3
  <2>3. Ends(ended, kept)'
    <3>1. ASSUME NEW cut \in 0 .. Len(log), ended' = [ended EXCEPT ![i] = NewestOf(log, cut, i)]
          PROVE  ended' \in [PolicyIds -> 0 .. MaxEvents \cup {None}]
      <4>1. NewestOf(log, cut, i) \in 0 .. MaxEvents
        BY NewestIsTyped
      <4> QED
        BY <3>1, <4>1, EndedIsTyped
    <3> QED
      BY <1>1, <2>1, <3>1
  <2>4. Runs(policyFaults, run)'
    BY <1>1, <2>1, PolicyBounds
  <2> QED
    BY <1>1, <1>2, <2>1, <2>2, <2>3, <2>4
<1>12. CASE Storing!StartReport
  <2>1. /\ report' = [todo |-> Storing!PendingUses, answer |-> None]
        /\ UNCHANGED <<doc, writing, raced, log, cursor, handled, run, hosted, deleted, ended, kept, policyFaults>>
    BY <1>12 DEF Storing!StartReport, Storing!file, Storing!events
  <2>2. Storing!PendingUses \in Seq(UseRows)
    BY ReportBegins
  <2>3. Reports(report)'
    BY <2>1, <2>2
  <2> QED
    BY <1>1, <1>2, <2>1, <2>3
<1>13. CASE Storing!SendUses
  <2>1. PICK r, t : r = Head(report.todo) /\ t = report.todo
    OBVIOUS
  <2>2. /\ report.todo # <<>>
        /\ \/ r.id \in Hosted /\ hosted' = [hosted EXCEPT ![r.id] = @ \cup r.uses]
              /\ report' = [report EXCEPT !.answer = "accepted"]
           \/ report' = [report EXCEPT !.answer = "gone"] /\ hosted' = hosted
        /\ UNCHANGED <<doc, writing, raced, log, cursor, handled, run, deleted, ended, kept, policyFaults>>
    BY <1>13, <2>1 DEF Storing!SendUses, Storing!file, Storing!events
  <2>3. r.id \in PolicyIds /\ r.uses \subseteq 1 .. MaxUses
    BY <2>1, <2>2, RowsAreTyped DEF PolicyIds
  <2>4. Reports(report)'
    BY <1>1, <2>2
  <2>5. Uses(hosted)'
    BY <1>1, <2>2, <2>3
  <2> QED
    BY <1>1, <1>2, <2>2, <2>4, <2>5
<1>14. CASE Storing!ReportLost
  <2>1. /\ policyFaults < MaxPolicyFaults /\ policyFaults' = policyFaults + 1
        /\ report' = [todo |-> <<>>, answer |-> None]
        /\ UNCHANGED <<doc, writing, raced, log, cursor, handled, run, hosted, deleted, ended, kept>>
    BY <1>14 DEF Storing!ReportLost, Storing!Fault, Storing!file, Storing!events
  <2>2. Runs(policyFaults, run)'
    BY <1>1, <2>1, PolicyBounds
  <2> QED
    BY <1>1, <1>2, <1>4, <2>1, <2>2
<1>15. CASE Storing!RecordReport
  <2>1. /\ report.todo # <<>> /\ report' = [todo |-> Tail(report.todo), answer |-> None]
        /\ \/ writing' = writing /\ doc' = doc /\ raced' = raced
           \/ \E new \in PolicyDocuments : Storing!Write("bridge", new)
        /\ UNCHANGED <<log, cursor, handled, run, hosted, deleted, ended, kept, policyFaults>>
    BY <1>15, RecordIs
  <2>2. Files(doc, writing, raced)'
    BY <1>1, <1>3, <2>1
  <2>3. Reports(report)'
    BY <2>1, RowsAreTyped
  <2> QED
    BY <1>1, <1>2, <2>1, <2>2, <2>3
<1>16. CASE Storing!Restart
  <2>1. /\ policyFaults < MaxPolicyFaults /\ policyFaults' = policyFaults + 1 /\ run' = run + 1
        /\ writing' = [writing EXCEPT !["bridge"] = None] /\ handled' = FALSE
        /\ report' = [todo |-> <<>>, answer |-> None]
        /\ UNCHANGED <<doc, raced, log, cursor, hosted, deleted, ended, kept>>
    BY <1>16 DEF Storing!Restart, Storing!Fault
  <2>2. Runs(policyFaults, run)'
    BY <1>1, <2>1, PolicyBounds
  <2>3. Files(doc, writing, raced)' /\ Events(log, cursor, handled)'
    BY <1>1, <2>1
  <2> QED
    BY <1>1, <1>2, <1>4, <2>1, <2>2, <2>3
<1> QED
  BY <1>5, <1>6, <1>7, <1>8, <1>9, <1>10, <1>11, <1>12, <1>13, <1>14, <1>15, <1>16, StoringSteps

\* What a step of the document, more kept policies or a new run leave of Digested.
LEMMA DigestedSteps ==
  ASSUME NEW d \in PolicyDocuments, NEW e \in PolicyDocuments, DocumentStep(d, e),
         NEW a \in PolicyEvents, NEW r, NEW k, Digested(d, a, r, k)
  PROVE  Digested(e, a, r, k)
<1>1. a.id \in Hosted /\ a.id \in PolicyIds /\ a.rev \in Nat
  BY PolicyBounds DEF PolicyEvents, PolicyIds
<1>2. CASE a.type = "revoke" \/ a.run \notin {0, r} \/ a.id \in k
  BY <1>2 DEF Digested
<1>3. CASE d.revs[a.id] # None /\ d.revs[a.id] >= a.rev
  <2>1. e.revs[a.id] # None /\ d.revs[a.id] <= e.revs[a.id]
    BY <1>1, <1>3 DEF DocumentStep
  <2>2. d.revs[a.id] \in Nat /\ e.revs[a.id] \in Nat
    BY <1>1, <1>3, <2>1, PolicyBounds DEF PolicyDocuments
  <2>3. e.revs[a.id] >= a.rev
    BY ONLY <2>1, <2>2, <1>1, <1>3
  <2> QED
    BY <2>1, <2>3 DEF Digested
<1> QED
  BY <1>2, <1>3 DEF Digested

LEMMA DigestedGrows ==
  ASSUME NEW d, NEW a, NEW r, NEW k, Digested(d, a, r, k), NEW more, k \subseteq more
  PROVE  Digested(d, a, r, more)
BY DEF Digested

LEMMA DigestedStays ==
  ASSUME NEW d, NEW a \in PolicyEvents, NEW r \in Nat, NEW k, Digested(d, a, r, k), a.run <= r
  PROVE  Digested(d, a, r + 1, k)
<1>1. a.run \in Nat
  BY PolicyBounds DEF PolicyEvents
<1> QED
  BY <1>1 DEF Digested

\* The control plane only ever accepts more uses and deletes more policies.
HostedGrows == (\A i \in PolicyIds : hosted[i] \subseteq hosted'[i]) /\ deleted \subseteq deleted'

LEMMA DocumentStays ==
  ASSUME StoringRules, HostedGrows, doc' = doc
  PROVE  RecordsAreRegular(doc)' /\ Accounted(doc, hosted, deleted)'
<1>1. RecordsAreRegular(doc) /\ Accounted(doc, hosted, deleted)
  BY DEF StoringRules
<1>2. Accounted(doc, hosted', deleted')
  BY <1>1, AccountedGrows DEF HostedGrows, PolicyIds
<1> QED
  BY <1>1, <1>2

LEMMA ReportStays ==
  ASSUME StoringTypes, StoringRules, HostedGrows, doc' = doc, report' = report
  PROVE  ReportIsCurrent(doc, report.todo, hosted, deleted)' /\ AnswerIsTrue'
<1>1. ReportIsCurrent(doc, report.todo, hosted, deleted) /\ AnswerIsTrue
  BY DEF StoringRules
<1>2. ReportIsCurrent(doc, report.todo, hosted', deleted')
  BY <1>1, ReportGrows DEF HostedGrows, PolicyIds
<1>3. AnswerIsTrue'
  <2>1. ASSUME report.answer = "accepted"
        PROVE  report.todo[1].uses \subseteq hosted'[report.todo[1].id]
    <3>1. report.answer # None
      BY <2>1, PolicyBounds
    <3>2. report.todo[1].id \in PolicyIds
      BY <3>1, RowsAreTyped DEF StoringTypes
    <3> QED
      BY <3>2, <2>1, <1>1 DEF AnswerIsTrue, HostedGrows
  <2>2. ASSUME report.answer = "gone"
        PROVE  report.todo[1].id \notin Hosted \ deleted'
    BY <2>2, <1>1 DEF AnswerIsTrue, HostedGrows
  <2> QED
    BY <2>1, <2>2 DEF AnswerIsTrue
<1> QED
  BY <1>2, <1>3

LEMMA EndedStays ==
  ASSUME StoringRules, UNCHANGED <<doc, ended, log, cursor, run, kept>>
  PROVE  EndedIsPast' /\ LocalStays'
BY DEF StoringRules, EndedIsPast, LocalStays

LEMMA HandledStays ==
  ASSUME StoringRules, UNCHANGED <<doc, log, cursor, run, kept, handled>>, writing'["bridge"] = writing["bridge"]
  PROVE  HandledIsDigested'
BY DEF StoringRules, HandledIsDigested, Fresh

\* A write that is begun, goes on, or ends.
LEMMA WriteBegins ==
  ASSUME StoringRules, NEW p, NEW new, writing'[p] = [stale |-> FALSE, new |-> new],
         UNCHANGED <<doc, hosted, deleted>>, Sound(doc, new, hosted, deleted),
         \A i \in PolicyIds : Storing!Active(new, i) /\ ~Storing!Active(doc, i) => Revived(p, i)'
  PROVE  WriteIsStep(p)'
<1>1. RecordsAreRegular(new) /\ Accounted(new, hosted, deleted) /\ DocumentStep(doc, new)
  BY DEF StoringRules, Sound
<1>2. writing'[p].new = new
  OBVIOUS
<1> QED
  BY <1>1, <1>2 DEF WriteIsStep

LEMMA WriteEnds ==
  ASSUME NEW p, writing'[p] = None \/ writing'[p].stale
  PROVE  WriteIsStep(p)'
BY DEF WriteIsStep, Fresh

LEMMA WriteStays ==
  ASSUME NEW p, WriteIsStep(p), writing'[p] = writing[p], doc' = doc, HostedGrows,
         p # "bridge" \/ /\ run' = run /\ handled' = handled
                         /\ handled => log'[cursor' + 1] = log[cursor + 1]
  PROVE  WriteIsStep(p)'
<1>1. CASE ~Fresh(p)
  BY <1>1 DEF WriteIsStep, Fresh
<1>2. CASE Fresh(p)
  <2>1. /\ RecordsAreRegular(writing[p].new) /\ Accounted(writing[p].new, hosted, deleted)
        /\ DocumentStep(doc, writing[p].new)
        /\ \A i \in PolicyIds :
              Storing!Active(writing[p].new, i) /\ ~Storing!Active(doc, i) => Revived(p, i)
    BY <1>2 DEF WriteIsStep
  <2>2. Accounted(writing[p].new, hosted', deleted')
    BY <2>1, AccountedGrows DEF HostedGrows, PolicyIds
  <2>3. ASSUME NEW i \in PolicyIds, Revived(p, i)
        PROVE  Revived(p, i)'
    BY <2>3 DEF Revived
  <2> QED
    BY <2>1, <2>2, <2>3 DEF WriteIsStep
<1> QED
  BY <1>1, <1>2

\* No revision of a policy is given twice, nor is a run that is yet to come.
LEMMA OrderedIssue ==
  ASSUME StoringTypes, LogIsOrdered(log, run), NEW e \in PolicyEvents, e.run \in {0, run}, Storing!Issue(e)
  PROVE  LogIsOrdered(log, run)'
<1>1. /\ e.rev = NewestOf(log, Len(log), e.id) + 1
      /\ Len(log') = Len(log) + 1 /\ Len(log) \in Nat
      /\ log'[Len(log) + 1] = e /\ \A n \in 1 .. Len(log) : log'[n] = log[n]
      /\ run' = run
  BY IssueIs
<1>2. /\ log \in Seq(PolicyEvents) /\ Len(log) \in 0 .. Len(log) /\ run \in Nat
      /\ \A n \in 1 .. Len(log) : log[n].rev >= 1 /\ log[n].run <= run
      /\ \A m, n \in 1 .. Len(log) : m < n /\ log[m].id = log[n].id => log[m].rev < log[n].rev
  BY <1>1, PolicyBounds DEF StoringTypes, LogIsOrdered
<1>3. PICK top \in Nat : top = NewestOf(log, Len(log), e.id)
  BY <1>2, NewestIs, PolicyBounds
<1>4. e.rev = top + 1
  BY <1>1, <1>3
<1>5. \A n \in 1 .. Len(log) : log[n].id = e.id => log[n].rev <= top
  BY <1>2, <1>3, NewestIs
<1>6. \A n \in 1 .. Len(log) : log[n].rev \in Nat
  BY EventsAreTyped, PolicyBounds
<1>7. ASSUME NEW n \in 1 .. Len(log) + 1
      PROVE  log'[n].rev >= 1 /\ log'[n].run <= run
  <2>1. CASE n = Len(log) + 1
    <3>1. log'[n] = e
      BY <1>1, <2>1
    <3>2. e.rev >= 1
      BY <1>4
    <3>3. e.run <= run
      BY <1>2
    <3> QED
      BY <3>1, <3>2, <3>3
  <2>2. CASE n \in 1 .. Len(log)
    BY <1>1, <1>2, <2>2
  <2> QED
    BY <1>1, <2>1, <2>2
<1>8. ASSUME NEW m \in 1 .. Len(log) + 1, NEW n \in 1 .. Len(log) + 1, m < n, log'[m].id = log'[n].id
      PROVE  log'[m].rev < log'[n].rev
  <2>1. m \in 1 .. Len(log)
    BY ONLY <1>1, <1>8
  <2>2. CASE n = Len(log) + 1
    <3>1. log'[n] = e /\ log'[m] = log[m]
      BY <1>1, <2>1, <2>2
    <3>2. log[m].rev <= top /\ log[m].rev \in Nat
      BY <3>1, <1>5, <1>6, <1>8, <2>1
    <3>3. log[m].rev < top + 1
      BY <3>2
    <3> QED
      BY <3>1, <3>3, <1>4
  <2>3. CASE n \in 1 .. Len(log)
    BY <1>1, <1>2, <1>8, <2>1, <2>3
  <2> QED
    BY <1>1, <2>2, <2>3
<1> QED
  BY <1>1, <1>7, <1>8 DEF LogIsOrdered

LEMMA RestartIs ==
  ASSUME StoringTypes, Storing!Restart
  PROVE  /\ run' = run + 1 /\ run \in Nat /\ writing'["bridge"] = None /\ writing'["cli"] = writing["cli"]
         /\ handled' = FALSE /\ report' = [todo |-> <<>>, answer |-> None]
         /\ UNCHANGED <<doc, raced, log, cursor, hosted, deleted, ended, kept>>
BY DEF Storing!Restart, StoringTypes

LEMMA OrderedRestart ==
  ASSUME StoringTypes, LogIsOrdered(log, run), Storing!Restart
  PROVE  LogIsOrdered(log, run)'
<1>1. run' = run + 1 /\ run \in Nat /\ log' = log
  BY RestartIs
<1>2. \A n \in 1 .. Len(log) : log[n].run \in Nat
  BY EventsAreTyped, PolicyBounds
<1> QED
  BY <1>1, <1>2 DEF LogIsOrdered

-----------------------------------------------------------------------------
(* Policies: every step keeps the rules.                                    *)

LEMMA RulesRename ==
  ASSUME StoringTypes, StoringTypes', StoringRules, NEW p \in {"bridge", "cli"}, Storing!Rename(p), ~raced'
  PROVE  StoringRules'
<1>1. /\ writing[p] \in Writes /\ doc' = writing[p].new /\ doc' \in PolicyDocuments
      /\ writing'[p] = None
      /\ \A q \in {"bridge", "cli"} : writing[q] = None => writing'[q] = None
      /\ \A q \in {"bridge", "cli"} : writing[q] # None => writing'[q] = None \/ writing'[q].stale
      /\ \A q \in {"bridge", "cli"} : q # p /\ writing[q] # None => writing'[q] # None
      /\ raced' = (raced \/ writing[p].stale)
  BY RenameIs
<1>2. UNCHANGED <<log, cursor, handled, run, report, hosted, deleted, ended, kept>>
  BY DEF Storing!Rename, Storing!events
<1>3. Fresh(p)
  BY <1>1, PolicyBounds DEF Fresh
<1>4. WriteIsStep(p)
  BY DEF StoringRules
<1>5. RecordsAreRegular(doc') /\ Accounted(doc', hosted, deleted) /\ DocumentStep(doc, doc')
  BY <1>1, <1>3, <1>4 DEF WriteIsStep
<1>6. \A q \in {"bridge", "cli"} : writing'[q] = None \/ writing'[q].stale
  BY <1>1
<1>7. ASSUME handled
      PROVE  cursor < Len(log) /\ cursor + 1 \in 1 .. Len(log) /\ log[cursor + 1] \in PolicyEvents
  BY <1>7 DEF StoringTypes
<1>8. doc \in PolicyDocuments
  BY DEF StoringTypes
<1>9. HandledIsDigested'
  <2> SUFFICES ASSUME handled, writing'["bridge"] = None
               PROVE  Digested(doc', log[cursor + 1], run, kept)
    BY <1>2, <1>6 DEF HandledIsDigested, Fresh
  <2>1. CASE p = "bridge"
    <3>1. Digested(writing["bridge"].new, log[cursor + 1], run, kept)
      BY <1>3, <2>1 DEF StoringRules, HandledIsDigested
    <3> QED
      BY <3>1, <1>1, <2>1
  <2>2. CASE p # "bridge"
    <3>1. writing["bridge"] = None
      BY <1>1, <2>2
    <3>2. Digested(doc, log[cursor + 1], run, kept)
      BY <3>1 DEF StoringRules, HandledIsDigested
    <3> QED
      BY <3>2, <1>1, <1>5, <1>7, <1>8, DigestedSteps
  <2> QED
    BY <2>1, <2>2
<1>10. EndedIsPast'
  <2> SUFFICES ASSUME NEW i \in Hosted \ kept, ended[i] # None
               PROVE  \/ ended[i] <= NewestOf(log, cursor, i)
                      \/ /\ cursor < Len(log) /\ log[cursor + 1].id = i
                         /\ ended[i] = log[cursor + 1].rev /\ Digested(doc', log[cursor + 1], run, kept)
    BY <1>2 DEF EndedIsPast
  <2>1. \/ ended[i] <= NewestOf(log, cursor, i)
        \/ /\ cursor < Len(log) /\ log[cursor + 1].id = i
           /\ ended[i] = log[cursor + 1].rev /\ Digested(doc, log[cursor + 1], run, kept)
    BY DEF StoringRules, EndedIsPast
  <2>2. cursor < Len(log) => log[cursor + 1] \in PolicyEvents
    BY DEF StoringTypes
  <2> QED
    BY <2>1, <2>2, <1>1, <1>5, <1>8, DigestedSteps
<1>11. LocalStays'
  <2>1. \A i \in Local : ended[i] # None => Storing!Places(doc, i) # {}
    BY DEF StoringRules, LocalStays
  <2>2. \A i \in Local : Storing!Places(doc, i) # {} => Storing!Places(doc', i) # {}
    BY <1>5 DEF DocumentStep, PolicyIds
  <2> QED
    BY <1>2, <2>1, <2>2 DEF LocalStays
<1>12. ReportIsCurrent(doc, report.todo, hosted, deleted)'
  <2>1. ReportIsCurrent(doc, report.todo, hosted, deleted) /\ report.todo \in Seq(UseRows)
    BY DEF StoringRules, StoringTypes
  <2>2. ReportIsCurrent(doc', report.todo, hosted, deleted)
    BY <2>1, <1>1, <1>5, <1>8, ReportSteps
  <2> QED
    BY <2>2, <1>2
<1>13. AnswerIsTrue'
  BY <1>2 DEF StoringRules, AnswerIsTrue
<1>14. WriteIsStep("bridge")' /\ WriteIsStep("cli")'
  BY <1>6, WriteEnds
<1>15. RecordsAreRegular(doc)' /\ Accounted(doc, hosted, deleted)'
  BY <1>2, <1>5
<1> QED
  BY <1>9, <1>10, <1>11, <1>12, <1>13, <1>14, <1>15 DEF StoringRules

LEMMA RulesIssue ==
  ASSUME StoringTypes, StoringRules, NEW e \in PolicyEvents, Storing!Issue(e)
  PROVE  StoringRules'
<1>1. /\ log' = Append(log, e) /\ Len(log') = Len(log) + 1 /\ Len(log) \in Nat
      /\ \A n \in 1 .. Len(log) : log'[n] = log[n]
      /\ UNCHANGED <<doc, writing, cursor, handled, run, report, hosted, deleted, ended, kept>>
  BY IssueIs
<1>2. /\ log \in Seq(PolicyEvents) /\ cursor \in 0 .. Len(log) /\ (handled => cursor < Len(log))
      /\ (cursor < Len(log) => cursor + 1 \in 1 .. Len(log))
  BY <1>1 DEF StoringTypes
<1>3. cursor < Len(log) => cursor < Len(log') /\ log'[cursor + 1] = log[cursor + 1]
  <2>1. cursor < Len(log) => cursor < Len(log')
    BY ONLY <1>1, <1>2
  <2> QED
    BY <2>1, <1>1, <1>2
<1>4. \A i : NewestOf(log', cursor, i) = NewestOf(log, cursor, i)
  BY <1>1, <1>2, NewestAppended
<1>5. HostedGrows
  BY <1>1 DEF HostedGrows
<1>6. HandledIsDigested'
  BY <1>1, <1>2, <1>3 DEF StoringRules, HandledIsDigested, Fresh
<1>7. EndedIsPast'
  <2> SUFFICES ASSUME NEW i \in Hosted \ kept, ended[i] # None
               PROVE  \/ ended[i] <= NewestOf(log', cursor, i)
                      \/ /\ cursor < Len(log') /\ log'[cursor + 1].id = i
                         /\ ended[i] = log'[cursor + 1].rev /\ Digested(doc, log'[cursor + 1], run, kept)
    BY <1>1 DEF EndedIsPast
  <2>1. \/ ended[i] <= NewestOf(log, cursor, i)
        \/ /\ cursor < Len(log) /\ log[cursor + 1].id = i
           /\ ended[i] = log[cursor + 1].rev /\ Digested(doc, log[cursor + 1], run, kept)
    BY DEF StoringRules, EndedIsPast
  <2> QED
    BY <2>1, <1>3, <1>4
<1>8. LocalStays'
  BY <1>1 DEF StoringRules, LocalStays
<1>9. WriteIsStep("bridge")' /\ WriteIsStep("cli")'
  <2>1. handled => log'[cursor' + 1] = log[cursor + 1]
    BY <1>1, <1>2, <1>3
  <2>2. WriteIsStep("bridge") /\ WriteIsStep("cli")
    BY DEF StoringRules
  <2> QED
    BY <2>1, <2>2, <1>1, <1>5, WriteStays
<1> QED
  BY <1>1, <1>5, <1>6, <1>7, <1>8, <1>9, DocumentStays, ReportStays DEF StoringRules

\* Steps that leave the file, its writes and the events alone.
LEMMA RulesElsewhere ==
  ASSUME StoringTypes, StoringRules, HostedGrows,
         UNCHANGED <<doc, writing, log, cursor, handled, run, ended, kept>>,
         ReportIsCurrent(doc, report.todo, hosted, deleted)' /\ AnswerIsTrue'
  PROVE  StoringRules'
<1>1. HandledIsDigested' /\ EndedIsPast' /\ LocalStays'
  BY HandledStays, EndedStays
<1>2. WriteIsStep("bridge") /\ WriteIsStep("cli")
  BY DEF StoringRules
<1>3. WriteIsStep("bridge")' /\ WriteIsStep("cli")'
  BY <1>2, WriteStays
<1> QED
  BY <1>1, <1>3, DocumentStays DEF StoringRules

LEMMA RulesDelete ==
  ASSUME StoringTypes, StoringRules, NEW i \in PolicyIds, Storing!Delete(i)
  PROVE  StoringRules'
<1>1. /\ deleted' = deleted \cup {i}
      /\ UNCHANGED <<doc, writing, log, cursor, handled, run, report, hosted, ended, kept>>
  BY DEF Storing!Delete, Storing!file, Storing!events
<1>2. HostedGrows
  BY <1>1 DEF HostedGrows
<1> QED
  BY <1>1, <1>2, ReportStays, RulesElsewhere

LEMMA RulesStartReport ==
  ASSUME StoringTypes, StoringRules, Storing!StartReport
  PROVE  StoringRules'
<1>1. /\ report' = [todo |-> Storing!PendingUses, answer |-> None]
      /\ UNCHANGED <<doc, writing, log, cursor, handled, run, hosted, deleted, ended, kept>>
  BY DEF Storing!StartReport, Storing!file, Storing!events
<1>2. HostedGrows
  BY <1>1 DEF HostedGrows
<1>3. ReportIsCurrent(doc, Storing!PendingUses, hosted, deleted)
  BY ReportBegins DEF StoringRules
<1>4. report'.todo = Storing!PendingUses /\ report'.answer = None
  BY <1>1
<1>5. ReportIsCurrent(doc, report.todo, hosted, deleted)'
  BY <1>1, <1>3, <1>4
<1>6. AnswerIsTrue'
  BY <1>4, PolicyBounds DEF AnswerIsTrue
<1> QED
  BY <1>1, <1>2, <1>5, <1>6, RulesElsewhere

LEMMA RulesReportLost ==
  ASSUME StoringTypes, StoringRules, Storing!ReportLost
  PROVE  StoringRules'
<1>1. /\ report' = [todo |-> <<>>, answer |-> None]
      /\ UNCHANGED <<doc, writing, log, cursor, handled, run, hosted, deleted, ended, kept>>
  BY DEF Storing!ReportLost, Storing!file, Storing!events
<1>2. HostedGrows
  BY <1>1 DEF HostedGrows
<1>3. report'.todo = <<>> /\ report'.answer = None
  BY <1>1
<1>4. ReportIsCurrent(doc, report.todo, hosted, deleted)'
  BY <1>3 DEF ReportIsCurrent
<1>5. AnswerIsTrue'
  BY <1>3, PolicyBounds DEF AnswerIsTrue
<1> QED
  BY <1>1, <1>2, <1>4, <1>5, RulesElsewhere

LEMMA RulesSendUses ==
  ASSUME StoringTypes, StoringRules, Storing!SendUses
  PROVE  StoringRules'
<1>1. PICK row : row = report.todo[1]
  OBVIOUS
<1>2. report.todo # <<>>
  BY DEF Storing!SendUses
<1>3. row \in UseRows /\ row.id \in PolicyIds /\ Head(report.todo) = row
  BY <1>1, <1>2, RowsAreTyped
<1>4. /\ \/ /\ row.id \in Hosted \ deleted
            /\ hosted' = [hosted EXCEPT ![row.id] = @ \cup row.uses]
            /\ report' = [report EXCEPT !.answer = "accepted"]
         \/ /\ row.id \notin Hosted \ deleted
            /\ report' = [report EXCEPT !.answer = "gone"] /\ hosted' = hosted
      /\ UNCHANGED <<doc, writing, log, cursor, handled, run, deleted, ended, kept>>
  BY <1>3 DEF Storing!SendUses, Storing!file, Storing!events
<1>5. /\ report \in [todo : Seq(UseRows), answer : {None, "accepted", "gone"}]
      /\ hosted \in [PolicyIds -> SUBSET (1 .. MaxUses)]
  BY DEF StoringTypes
<1>6. HostedGrows
  BY <1>3, <1>4, <1>5 DEF HostedGrows
<1>7. /\ report'.todo = report.todo
      /\ \/ report'.answer = "accepted" /\ row.uses \subseteq hosted'[row.id]
         \/ report'.answer = "gone" /\ row.id \notin Hosted \ deleted
  BY <1>3, <1>4, <1>5
<1>8. ReportIsCurrent(doc, report.todo, hosted, deleted)'
  <2>1. ReportIsCurrent(doc, report.todo, hosted, deleted)
    BY DEF StoringRules
  <2>2. ReportIsCurrent(doc, report.todo, hosted', deleted')
    BY <1>6, <2>1, ReportGrows DEF HostedGrows, PolicyIds
  <2> QED
    BY <1>4, <1>7, <2>2
<1>9. AnswerIsTrue'
  BY <1>1, <1>4, <1>7 DEF AnswerIsTrue
<1> QED
  BY <1>4, <1>6, <1>8, <1>9, RulesElsewhere

LEMMA RulesRestart ==
  ASSUME StoringTypes, LogIsOrdered(log, run), StoringRules, Storing!Restart
  PROVE  StoringRules'
<1>1. /\ run' = run + 1 /\ run \in Nat /\ writing'["bridge"] = None /\ writing'["cli"] = writing["cli"]
      /\ handled' = FALSE /\ report' = [todo |-> <<>>, answer |-> None]
      /\ UNCHANGED <<doc, log, cursor, hosted, deleted, ended, kept>>
  BY RestartIs
<1>2. HostedGrows
  BY <1>1 DEF HostedGrows
<1>3. report'.todo = <<>> /\ report'.answer = None
  BY <1>1
<1>4. ReportIsCurrent(doc, report.todo, hosted, deleted)'
  BY <1>3 DEF ReportIsCurrent
<1>5. AnswerIsTrue'
  BY <1>3, PolicyBounds DEF AnswerIsTrue
<1>6. HandledIsDigested'
  BY <1>1 DEF HandledIsDigested
<1>7. EndedIsPast'
  <2> SUFFICES ASSUME NEW i \in Hosted \ kept, ended[i] # None
               PROVE  \/ ended[i] <= NewestOf(log, cursor, i)
                      \/ /\ cursor < Len(log) /\ log[cursor + 1].id = i
                         /\ ended[i] = log[cursor + 1].rev /\ Digested(doc, log[cursor + 1], run + 1, kept)
    BY <1>1 DEF EndedIsPast
  <2>1. \/ ended[i] <= NewestOf(log, cursor, i)
        \/ /\ cursor < Len(log) /\ log[cursor + 1].id = i
           /\ ended[i] = log[cursor + 1].rev /\ Digested(doc, log[cursor + 1], run, kept)
    BY DEF StoringRules, EndedIsPast
  <2>2. cursor < Len(log) => log[cursor + 1] \in PolicyEvents /\ log[cursor + 1].run <= run
    <3>1. log \in Seq(PolicyEvents) /\ cursor \in 0 .. Len(log)
      BY DEF StoringTypes
    <3>2. cursor < Len(log) => cursor + 1 \in 1 .. Len(log)
      BY ONLY <3>1
    <3> QED
      BY <3>1, <3>2 DEF LogIsOrdered
  <2> QED
    BY <2>1, <2>2, <1>1, DigestedStays
<1>8. LocalStays'
  BY <1>1 DEF StoringRules, LocalStays
<1>9. WriteIsStep("bridge")' /\ WriteIsStep("cli")'
  <2>1. WriteIsStep("bridge")'
    BY <1>1, WriteEnds
  <2>2. WriteIsStep("cli")
    BY DEF StoringRules
  <2> QED
    BY <2>1, <2>2, <1>1, <1>2, WriteStays
<1> QED
  BY <1>1, <1>2, <1>4, <1>5, <1>6, <1>7, <1>8, <1>9, DocumentStays DEF StoringRules

LEMMA RulesSaveCursor ==
  ASSUME StoringTypes, LogIsOrdered(log, run), StoringRules, Storing!SaveCursor
  PROVE  StoringRules'
<1>1. /\ handled /\ writing["bridge"] = None /\ handled' = FALSE /\ cursor' = cursor + 1
      /\ UNCHANGED <<doc, writing, log, run, report, hosted, deleted, ended, kept>>
  BY DEF Storing!SaveCursor, Storing!file
<1>2. log \in Seq(PolicyEvents) /\ cursor \in 0 .. Len(log) /\ cursor < Len(log)
  BY <1>1 DEF StoringTypes
<1>3. HostedGrows
  BY <1>1 DEF HostedGrows
<1>4. HandledIsDigested'
  BY <1>1 DEF HandledIsDigested
<1>5. EndedIsPast'
  <2> SUFFICES ASSUME NEW i \in Hosted \ kept, ended[i] # None
               PROVE  ended[i] <= NewestOf(log, cursor + 1, i)
    BY <1>1 DEF EndedIsPast
  <2>1. \/ ended[i] <= NewestOf(log, cursor, i)
        \/ log[cursor + 1].id = i /\ ended[i] = log[cursor + 1].rev
    BY DEF StoringRules, EndedIsPast
  <2>2. /\ NewestOf(log, cursor, i) <= NewestOf(log, cursor + 1, i)
        /\ i = log[cursor + 1].id => NewestOf(log, cursor + 1, i) = log[cursor + 1].rev
    BY <1>2, NewestNext
  <2>3. PICK a \in Nat, b \in Nat, x \in Nat :
          /\ a = NewestOf(log, cursor, i) /\ b = NewestOf(log, cursor + 1, i) /\ x = ended[i]
    <3>1. cursor + 1 \in 0 .. Len(log)
      BY ONLY <1>2
    <3>2. NewestOf(log, cursor, i) \in Nat /\ NewestOf(log, cursor + 1, i) \in Nat
      BY <1>2, <3>1, NewestIs, PolicyBounds
    <3>3. ended[i] \in Nat
      BY PolicyBounds DEF StoringTypes, PolicyIds
    <3> QED
      BY <3>2, <3>3
  <2>4. (x <= a \/ x = b) /\ a <= b
    BY <2>1, <2>2, <2>3
  <2>5. x <= b
    BY ONLY <2>4, a \in Nat, b \in Nat, x \in Nat
  <2> QED
    BY <2>3, <2>5
<1>6. LocalStays'
  BY <1>1 DEF StoringRules, LocalStays
<1>7. WriteIsStep("bridge")' /\ WriteIsStep("cli")'
  <2>1. WriteIsStep("bridge")'
    BY <1>1, WriteEnds
  <2>2. WriteIsStep("cli")
    BY DEF StoringRules
  <2> QED
    BY <2>1, <2>2, <1>1, <1>3, WriteStays
<1> QED
  BY <1>1, <1>3, <1>4, <1>5, <1>6, <1>7, DocumentStays, ReportStays DEF StoringRules

LEMMA RulesHandleEvent ==
  ASSUME StoringTypes, LogIsOrdered(log, run), StoringRules, Storing!HandleEvent
  PROVE  StoringRules'
<1>1. PICK e : e = log[cursor + 1]
  OBVIOUS
<1>2. /\ cursor < Len(log) /\ cursor + 1 \in 1 .. Len(log) /\ e \in PolicyEvents /\ e.id \in Hosted
      /\ ~handled /\ handled' = TRUE /\ writing["bridge"] = None /\ doc' = doc
      /\ ended' \in {ended, [ended EXCEPT ![e.id] = NewestOf(log, cursor + 1, e.id)]}
      /\ e.type = "allow" => ended' = ended
      /\ kept' \in {kept, kept \cup {e.id}}
      /\ UNCHANGED <<log, cursor, run, report, hosted, deleted>>
  BY <1>1, HandleIs
<1>3. \/ /\ e.type = "allow" /\ e.run \in {0, run} /\ Storing!Newer(doc, e)
         /\ Storing!Write("bridge", Storing!Added(doc, e, e.rev))
      \/ /\ e.type = "revoke" /\ Storing!RevokeWrites(doc, e.id, e.rev)
         /\ Storing!Write("bridge", Storing!Revoked(doc, e.id, e.rev))
      \/ writing' = writing /\ Digested(doc, e, run, kept')
  BY <1>1, HandleIs
<1>4. /\ doc \in PolicyDocuments /\ log \in Seq(PolicyEvents) /\ cursor \in 0 .. Len(log)
      /\ ended \in [PolicyIds -> 0 .. MaxEvents \cup {None}]
      /\ e.id \in PolicyIds /\ e.preset \in Presets /\ e.run \in 0 .. MaxPolicyFaults + 1 /\ e.rev \in 0 .. MaxEvents
      /\ e.type \in {"allow", "revoke"}
  <2>1. e.type \in {"allow", "revoke"}
    BY <1>2 DEF PolicyEvents
  <2> QED
    BY <2>1, <1>1, <1>2, EventsAreTyped DEF StoringTypes
<1>5. HostedGrows
  BY <1>2 DEF HostedGrows
<1>6. HandledIsDigested' /\ WriteIsStep("bridge")'
  <2>1. CASE /\ e.type = "allow" /\ e.run \in {0, run} /\ Storing!Newer(doc, e)
             /\ Storing!Write("bridge", Storing!Added(doc, e, e.rev))
    <3>1. doc.revs[e.id] # None => doc.revs[e.id] < e.rev
      BY <2>1 DEF Storing!Newer
    <3>2. e.rev \in 0 .. MaxEvents \cup {None} /\ e.rev # None /\ e.rev \in Nat
          /\ (doc.revs[e.id] # None => doc.revs[e.id] \in Nat)
      BY <1>4, PolicyBounds DEF PolicyDocuments
    <3>3. doc.revs[e.id] # None => doc.revs[e.id] <= e.rev
      BY ONLY <3>1, <3>2
    <3>4. /\ Storing!Added(doc, e, e.rev) \in PolicyDocuments
          /\ Sound(doc, Storing!Added(doc, e, e.rev), hosted, deleted)
          /\ Storing!Added(doc, e, e.rev).revs[e.id] = e.rev
          /\ \A i \in PolicyIds :
                Storing!Active(Storing!Added(doc, e, e.rev), i) /\ ~Storing!Active(doc, i) => i = e.id
      BY <1>4, <3>2, <3>3, AddedIsSound
    <3>5. PICK new \in PolicyDocuments :
            /\ new = Storing!Added(doc, e, e.rev)
            /\ Sound(doc, new, hosted, deleted) /\ new.revs[e.id] = e.rev
            /\ \A i \in PolicyIds : Storing!Active(new, i) /\ ~Storing!Active(doc, i) => i = e.id
      BY <3>4
    <3>6. Storing!Write("bridge", new)
      BY <2>1, <3>5
    <3>7. writing'["bridge"] = [stale |-> FALSE, new |-> new] /\ writing'["bridge"] # None
      BY <3>6, WriteIs
    <3>8. writing'["bridge"].new = new
      BY <3>7
    <3>9. Digested(new, e, run, kept')
      BY <3>2, <3>5 DEF Digested
    <3>10. HandledIsDigested'
      BY <1>1, <1>2, <3>7, <3>8, <3>9 DEF HandledIsDigested
    <3>11. ASSUME NEW i \in PolicyIds, Storing!Active(new, i), ~Storing!Active(doc, i)
           PROVE  Revived("bridge", i)'
      BY <3>11, <3>5, <3>8, <3>1, <2>1, <1>1, <1>2 DEF Revived
    <3> QED
      BY <3>5, <3>7, <3>10, <3>11, <1>2, WriteBegins
  <2>2. CASE /\ e.type = "revoke" /\ Storing!RevokeWrites(doc, e.id, e.rev)
             /\ Storing!Write("bridge", Storing!Revoked(doc, e.id, e.rev))
    <3>1. /\ Storing!Revoked(doc, e.id, e.rev) \in PolicyDocuments
          /\ Sound(doc, Storing!Revoked(doc, e.id, e.rev), hosted, deleted)
          /\ \A j \in PolicyIds : Storing!Active(Storing!Revoked(doc, e.id, e.rev), j) => Storing!Active(doc, j)
      BY <1>4, <2>2, RevokedIsSound
    <3>2. PICK new \in PolicyDocuments :
            /\ new = Storing!Revoked(doc, e.id, e.rev)
            /\ Sound(doc, new, hosted, deleted)
            /\ \A j \in PolicyIds : Storing!Active(new, j) => Storing!Active(doc, j)
      BY <3>1
    <3>3. Storing!Write("bridge", new)
      BY <2>2, <3>2
    <3>4. writing'["bridge"] = [stale |-> FALSE, new |-> new] /\ writing'["bridge"] # None
      BY <3>3, WriteIs
    <3>5. \A d : Digested(d, e, run, kept')
      BY <2>2 DEF Digested
    <3>6. HandledIsDigested'
      BY <1>1, <1>2, <3>5 DEF HandledIsDigested
    <3> QED
      BY <3>2, <3>4, <3>6, <1>2, WriteBegins
  <2>3. CASE writing' = writing /\ Digested(doc, e, run, kept')
    <3>1. writing'["bridge"] = None
      BY <1>2, <2>3
    <3>2. HandledIsDigested'
      BY <3>1, <1>1, <1>2, <2>3 DEF HandledIsDigested, Fresh
    <3> QED
      BY <3>1, <3>2, WriteEnds
  <2> QED
    BY <1>3, <2>1, <2>2, <2>3
<1>7. EndedIsPast'
  <2> SUFFICES ASSUME NEW i \in Hosted \ kept', ended'[i] # None
               PROVE  \/ ended'[i] <= NewestOf(log, cursor, i)
                      \/ /\ cursor < Len(log) /\ e.id = i
                         /\ ended'[i] = e.rev /\ Digested(doc, e, run, kept')
    BY <1>1, <1>2 DEF EndedIsPast
  <2>1. i \in Hosted \ kept /\ kept \subseteq kept' /\ i \in PolicyIds
    BY <1>2 DEF PolicyIds
  <2>2. CASE ended'[i] = ended[i]
    <3>1. \/ ended[i] <= NewestOf(log, cursor, i)
          \/ e.id = i /\ ended[i] = e.rev /\ Digested(doc, e, run, kept)
      BY <1>1, <2>1, <2>2 DEF StoringRules, EndedIsPast
    <3> QED
      BY <3>1, <2>1, <2>2, <1>2, DigestedGrows
  <2>3. CASE ended'[i] # ended[i]
    <3>1. i = e.id /\ ended'[i] = NewestOf(log, cursor + 1, e.id) /\ e.type # "allow"
      BY <1>2, <1>4, <2>1, <2>3
    <3>2. NewestOf(log, cursor + 1, e.id) = e.rev
      BY <1>1, <1>2, <1>4, NewestNext
    <3>3. Digested(doc, e, run, kept')
      BY <3>1, <1>4 DEF Digested
    <3> QED
      BY <3>1, <3>2, <3>3, <1>2
  <2> QED
    BY <2>2, <2>3
<1>8. LocalStays'
  <2>1. ASSUME NEW i \in Local
        PROVE  ended'[i] = ended[i]
    <3>1. i # e.id /\ i \in PolicyIds
      BY <1>2, PolicyBounds DEF PolicyIds
    <3> QED
      BY <3>1, <1>2, <1>4
  <2> QED
    BY <2>1, <1>2 DEF StoringRules, LocalStays
<1>9. WriteIsStep("cli")'
  <2>1. writing'["cli"] = writing["cli"]
    <3>1. CASE writing' = writing
      BY <3>1
    <3>3. writing' = writing \/ \E new : Storing!Write("bridge", new)
      BY <1>3
    <3>4. ASSUME NEW new, Storing!Write("bridge", new)
          PROVE  writing'["cli"] = writing["cli"]
      BY <3>4 DEF Storing!Write, StoringTypes
    <3> QED
      BY <3>1, <3>3, <3>4
  <2>2. WriteIsStep("cli")
    BY DEF StoringRules
  <2> QED
    BY <2>1, <2>2, <1>2, <1>5, WriteStays
<1> QED
  BY <1>2, <1>5, <1>6, <1>7, <1>8, <1>9, DocumentStays, ReportStays DEF StoringRules

\* The bridge writes what keeps every revision and makes nothing active.
LEMMA RulesBridgeWrite ==
  ASSUME StoringTypes, StoringRules, NEW new \in PolicyDocuments, Storing!Write("bridge", new),
         new.revs = doc.revs, Sound(doc, new, hosted, deleted),
         \A j \in PolicyIds : Storing!Active(new, j) => Storing!Active(doc, j),
         UNCHANGED <<log, cursor, handled, run, hosted, deleted, ended, kept>>,
         ReportIsCurrent(doc, report.todo, hosted, deleted)' /\ AnswerIsTrue'
  PROVE  StoringRules'
<1>1. /\ writing["bridge"] = None /\ doc' = doc
      /\ writing'["bridge"] = [stale |-> FALSE, new |-> new] /\ writing'["bridge"] # None
      /\ writing'["cli"] = writing["cli"]
  BY WriteIs
<1>2. HostedGrows
  BY DEF HostedGrows
<1>3. HandledIsDigested'
  <2>1. ASSUME handled
        PROVE  Digested(new, log[cursor + 1], run, kept)
    <3>1. Digested(doc, log[cursor + 1], run, kept)
      BY <1>1, <2>1 DEF StoringRules, HandledIsDigested
    <3> QED
      BY <3>1 DEF Digested
  <2>2. writing'["bridge"].new = new
    BY <1>1
  <2> QED
    BY <1>1, <2>1, <2>2 DEF HandledIsDigested
<1>4. WriteIsStep("bridge")'
  BY <1>1, WriteBegins
<1>5. WriteIsStep("cli")'
  <2>1. WriteIsStep("cli")
    BY DEF StoringRules
  <2> QED
    BY <2>1, <1>1, <1>2, WriteStays
<1> QED
  BY <1>1, <1>2, <1>3, <1>4, <1>5, DocumentStays, EndedStays DEF StoringRules

LEMMA RulesUse ==
  ASSUME StoringTypes, StoringRules, NEW i \in PolicyIds, Storing!Use(i)
  PROVE  StoringRules'
<1>1. PICK new \in PolicyDocuments :
        /\ Storing!Write("bridge", new) /\ Sound(doc, new, hosted, deleted) /\ new.revs = doc.revs
        /\ \A j \in PolicyIds : Storing!Active(new, j) => Storing!Active(doc, j)
  BY UseIs
<1>2. UNCHANGED <<log, cursor, handled, run, report, hosted, deleted, ended, kept>>
  BY UseIs
<1>3. doc' = doc /\ HostedGrows
  BY <1>1, <1>2, WriteIs DEF HostedGrows
<1>4. ReportIsCurrent(doc, report.todo, hosted, deleted)' /\ AnswerIsTrue'
  BY <1>2, <1>3, ReportStays
<1> QED
  BY <1>1, <1>2, <1>4, RulesBridgeWrite

LEMMA RulesRecordReport ==
  ASSUME StoringTypes, StoringRules, Storing!RecordReport
  PROVE  StoringRules'
<1>1. /\ report.answer # None /\ report.todo # <<>> /\ report' = [todo |-> Tail(report.todo), answer |-> None]
      /\ UNCHANGED <<log, cursor, handled, run, hosted, deleted, ended, kept>>
  BY RecordIs
<1>2. \/ writing' = writing /\ doc' = doc
      \/ \E new \in PolicyDocuments :
            /\ Storing!Write("bridge", new) /\ new.revs = doc.revs
            /\ \A j \in PolicyIds : Storing!Active(new, j) => Storing!Active(doc, j)
            /\ AnswerIsTrue /\ ReportIsCurrent(doc, report.todo, hosted, deleted)
                 => Sound(doc, new, hosted, deleted)
  BY RecordIs
<1>3. AnswerIsTrue /\ ReportIsCurrent(doc, report.todo, hosted, deleted)
  BY DEF StoringRules
<1>4. report'.todo = Tail(report.todo) /\ report'.answer = None
  BY <1>1
<1>5. doc' = doc
  <2>1. ASSUME NEW new \in PolicyDocuments, Storing!Write("bridge", new)
        PROVE  doc' = doc
    BY <2>1, WriteIs
  <2> QED
    BY <1>2, <2>1
<1>6. ReportIsCurrent(doc, report.todo, hosted, deleted)'
  <2>1. report.answer \in {"accepted", "gone"}
    BY <1>1 DEF StoringTypes
  <2>2. report.todo[1].id \in Hosted \ deleted => report.todo[1].uses \subseteq hosted[report.todo[1].id]
    BY <1>3, <2>1 DEF AnswerIsTrue
  <2>3. doc \in PolicyDocuments /\ report.todo \in Seq(UseRows)
    BY DEF StoringTypes
  <2>4. ReportIsCurrent(doc, Tail(report.todo), hosted, deleted)
    BY <2>2, <2>3, <1>1, <1>3, ReportGoesOn
  <2> QED
    BY <2>4, <1>1, <1>4, <1>5
<1>7. AnswerIsTrue'
  BY <1>4, PolicyBounds DEF AnswerIsTrue
<1>8. CASE writing' = writing
  <2>1. HostedGrows
    BY <1>1 DEF HostedGrows
  <2> QED
    BY <1>1, <1>5, <1>6, <1>7, <1>8, <2>1, RulesElsewhere
<1>9. ASSUME NEW new \in PolicyDocuments, Storing!Write("bridge", new), new.revs = doc.revs,
             \A j \in PolicyIds : Storing!Active(new, j) => Storing!Active(doc, j),
             Sound(doc, new, hosted, deleted)
      PROVE  StoringRules'
  BY <1>1, <1>6, <1>7, <1>9, RulesBridgeWrite
<1> QED
  BY <1>2, <1>3, <1>8, <1>9

LEMMA RulesCommand ==
  ASSUME StoringTypes, LogIsOrdered(log, run), StoringRules, NEW i \in PolicyIds,
         Storing!Revoke(i) \/ \E preset \in Presets, r \in {0, run} : i \in Local /\ Storing!Allow(i, preset, r)
  PROVE  StoringRules'
<1>1. PICK new \in PolicyDocuments :
        /\ Storing!Write("cli", new) /\ Sound(doc, new, hosted, deleted)
        /\ \A j \in PolicyIds : Storing!Active(new, j) /\ ~Storing!Active(doc, j) =>
              j \in Local /\ Storing!Places(doc, j) = {}
  BY CommandIs
<1>2. /\ \/ ended' = ended
         \/ /\ Storing!Places(doc, i) # {}
            /\ \E cut \in {cursor, cursor + 1} :
                  /\ cut \in 0 .. Len(log) /\ ended' = [ended EXCEPT ![i] = NewestOf(log, cut, i)]
                  /\ cut # cursor => handled /\ writing["bridge"] = None
      /\ UNCHANGED <<log, cursor, handled, run, report, hosted, deleted, kept>>
  BY CommandIs
<1>3. /\ doc' = doc /\ writing'["cli"] = [stale |-> FALSE, new |-> new]
      /\ writing'["bridge"] = writing["bridge"]
  BY <1>1, WriteIs
<1>4. HostedGrows
  BY <1>2 DEF HostedGrows
<1>5. HandledIsDigested'
  BY <1>2, <1>3, HandledStays
<1>6. /\ log \in Seq(PolicyEvents) /\ cursor \in 0 .. Len(log) /\ (handled => cursor < Len(log))
      /\ ended \in [PolicyIds -> 0 .. MaxEvents \cup {None}]
  BY DEF StoringTypes
<1>7. EndedIsPast'
  <2> SUFFICES ASSUME NEW j \in Hosted \ kept, ended'[j] # None
               PROVE  \/ ended'[j] <= NewestOf(log, cursor, j)
                      \/ /\ cursor < Len(log) /\ log[cursor + 1].id = j
                         /\ ended'[j] = log[cursor + 1].rev /\ Digested(doc, log[cursor + 1], run, kept)
    BY <1>2, <1>3 DEF EndedIsPast
  <2>1. CASE ended'[j] = ended[j]
    BY <2>1, <1>2 DEF StoringRules, EndedIsPast
  <2>2. CASE ended'[j] # ended[j]
    <3>1. PICK cut \in {cursor, cursor + 1} :
            /\ cut \in 0 .. Len(log) /\ ended' = [ended EXCEPT ![i] = NewestOf(log, cut, i)]
            /\ cut # cursor => handled /\ writing["bridge"] = None
      BY <1>2, <2>2
    <3>2. j = i /\ ended'[j] = NewestOf(log, cut, j)
      <4>1. j \in PolicyIds
        BY DEF PolicyIds
      <4>2. j = i
        BY <4>1, <3>1, <2>2, <1>6
      <4> QED
        BY <4>1, <4>2, <3>1, <1>6
    <3>3. CASE cut = cursor
      <4>1. NewestOf(log, cursor, j) \in Nat
        BY <1>6, NewestIs, PolicyBounds
      <4> QED
        BY <4>1, <3>2, <3>3
    <3>4. CASE cut # cursor
      <4>1. cut = cursor + 1 /\ cursor < Len(log) /\ handled /\ writing["bridge"] = None
        BY <3>1, <3>4, <1>6
      <4>2. Digested(doc, log[cursor + 1], run, kept)
        BY <4>1 DEF StoringRules, HandledIsDigested
      <4>3. /\ j = log[cursor + 1].id => NewestOf(log, cursor + 1, j) = log[cursor + 1].rev
            /\ j # log[cursor + 1].id => NewestOf(log, cursor + 1, j) = NewestOf(log, cursor, j)
        BY <4>1, <1>6, NewestNext
      <4>4. NewestOf(log, cursor, j) \in Nat
        BY <1>6, NewestIs, PolicyBounds
      <4> QED
        BY <4>1, <4>2, <4>3, <4>4, <3>2
    <3> QED
      BY <3>3, <3>4
  <2> QED
    BY <2>1, <2>2
<1>8. LocalStays'
  <2> SUFFICES ASSUME NEW j \in Local, ended'[j] # None
               PROVE  Storing!Places(doc, j) # {}
    BY <1>3 DEF LocalStays
  <2>1. CASE ended'[j] = ended[j]
    BY <2>1 DEF StoringRules, LocalStays
  <2>2. CASE ended'[j] # ended[j]
    <3>1. j \in PolicyIds /\ \E v : ended' = [ended EXCEPT ![i] = v]
      BY <1>2, <2>2 DEF PolicyIds
    <3>2. j = i
      BY <3>1, <2>2, <1>6
    <3> QED
      BY <3>2, <1>2, <2>2
  <2> QED
    BY <2>1, <2>2
<1>9. WriteIsStep("cli")'
  <2>1. ASSUME NEW j \in PolicyIds, Storing!Active(new, j), ~Storing!Active(doc, j)
        PROVE  Revived("cli", j)'
    BY <2>1, <1>1, <1>3 DEF Revived
  <2> QED
    BY <2>1, <1>1, <1>2, <1>3, WriteBegins
<1>10. WriteIsStep("bridge")'
  <2>1. WriteIsStep("bridge")
    BY DEF StoringRules
  <2> QED
    BY <2>1, <1>2, <1>3, <1>4, WriteStays
<1> QED
  BY <1>2, <1>3, <1>4, <1>5, <1>7, <1>8, <1>9, <1>10, DocumentStays, ReportStays DEF StoringRules

\* Only a rename changes the file.
LEMMA OthersKeepFile ==
  ASSUME StoringTypes, Storing!Next
  PROVE  (\E p \in {"bridge", "cli"} : Storing!Rename(p)) \/ (doc' = doc /\ raced' = raced)
<1>1. ASSUME NEW e \in PolicyEvents, Storing!Issue(e)
      PROVE  doc' = doc /\ raced' = raced
  BY <1>1, IssueIs
<1>2. ASSUME NEW i \in PolicyIds, Storing!Delete(i)
      PROVE  doc' = doc /\ raced' = raced
  BY <1>2 DEF Storing!Delete, Storing!file
<1>3. ASSUME Storing!HandleEvent
      PROVE  doc' = doc /\ raced' = raced
  <2>1. PICK e : e = log[cursor + 1]
    OBVIOUS
  <2> QED
    BY <1>3, <2>1, HandleIs
<1>4. ASSUME Storing!SaveCursor \/ Storing!StartReport \/ Storing!SendUses \/ Storing!ReportLost
      PROVE  doc' = doc /\ raced' = raced
  BY <1>4 DEF Storing!SaveCursor, Storing!StartReport, Storing!SendUses, Storing!ReportLost, Storing!file
<1>5. ASSUME NEW p \in {"bridge", "cli"}, NEW new \in PolicyDocuments, Storing!Write(p, new)
      PROVE  doc' = doc /\ raced' = raced
  BY <1>5, WriteIs
<1>6. ASSUME NEW i \in PolicyIds, Storing!Use(i)
      PROVE  doc' = doc /\ raced' = raced
  <2>1. Storing!Write("bridge", Storing!Used(doc, i)) /\ Storing!Used(doc, i) \in PolicyDocuments
    BY <1>6, UseIs
  <2> QED
    BY <2>1, <1>5
<1>7. ASSUME NEW i \in PolicyIds,
             Storing!Revoke(i) \/ \E preset \in Presets, r \in {0, run} : i \in Local /\ Storing!Allow(i, preset, r)
      PROVE  doc' = doc /\ raced' = raced
  <2>1. \E new \in PolicyDocuments : Storing!Write("cli", new)
    BY <1>7, CommandIs
  <2> QED
    BY <2>1, <1>5
<1>8. ASSUME Storing!RecordReport
      PROVE  doc' = doc /\ raced' = raced
  <2>1. \/ doc' = doc /\ raced' = raced
        \/ \E new \in PolicyDocuments : Storing!Write("bridge", new)
    BY <1>8, RecordIs
  <2> QED
    BY <2>1, <1>5
<1>9. ASSUME Storing!Restart
      PROVE  doc' = doc /\ raced' = raced
  BY <1>9, RestartIs
<1> QED
  BY StoringSteps, <1>1, <1>2, <1>3, <1>4, <1>6, <1>7, <1>8, <1>9

LEMMA RacedForEver ==
  ASSUME StoringTypes, Storing!Next, raced
  PROVE  raced'
<1>1. ASSUME NEW p \in {"bridge", "cli"}, Storing!Rename(p)
      PROVE  raced'
  BY <1>1, RenameIs
<1> QED
  BY <1>1, OthersKeepFile

LEMMA RulesNext ==
  ASSUME StoringTypes, LogIsOrdered(log, run), StoringRules, Storing!Next, ~raced'
  PROVE  StoringRules'
<1>1. StoringTypes'
  BY StoringTypesNext
<1>2. ASSUME NEW p \in {"bridge", "cli"}, Storing!Rename(p)
      PROVE  StoringRules'
  BY <1>1, <1>2, RulesRename
<1>3. ASSUME NEW e \in PolicyEvents, Storing!Issue(e)
      PROVE  StoringRules'
  BY <1>3, RulesIssue
<1>4. ASSUME NEW i \in PolicyIds, Storing!Delete(i) \/ Storing!Use(i)
      PROVE  StoringRules'
  BY <1>4, RulesDelete, RulesUse
<1>5. ASSUME NEW i \in PolicyIds,
             Storing!Revoke(i) \/ \E preset \in Presets, r \in {0, run} : i \in Local /\ Storing!Allow(i, preset, r)
      PROVE  StoringRules'
  BY <1>5, RulesCommand
<1>6. ASSUME \/ Storing!HandleEvent \/ Storing!SaveCursor \/ Storing!StartReport \/ Storing!SendUses
             \/ Storing!ReportLost \/ Storing!RecordReport \/ Storing!Restart
      PROVE  StoringRules'
  BY <1>6, RulesHandleEvent, RulesSaveCursor, RulesStartReport, RulesSendUses, RulesReportLost,
     RulesRecordReport, RulesRestart
<1> QED
  BY StoringSteps, <1>2, <1>3, <1>4, <1>5, <1>6

LEMMA OrderedNext ==
  ASSUME StoringTypes, LogIsOrdered(log, run), Storing!Next
  PROVE  LogIsOrdered(log, run)'
<1>1. ASSUME NEW e \in PolicyEvents, Storing!Issue(e), e.run \in {0, run}
      PROVE  LogIsOrdered(log, run)'
  BY <1>1, OrderedIssue
<1>2. ASSUME Storing!Restart
      PROVE  LogIsOrdered(log, run)'
  BY <1>2, OrderedRestart
<1>3. ASSUME UNCHANGED <<log, run>>
      PROVE  LogIsOrdered(log, run)'
  BY <1>3
<1>4. ASSUME NEW p \in {"bridge", "cli"}, Storing!Rename(p)
      PROVE  UNCHANGED <<log, run>>
  BY <1>4 DEF Storing!Rename, Storing!events
<1>5. ASSUME NEW i \in PolicyIds, Storing!Delete(i) \/ Storing!Use(i)
      PROVE  UNCHANGED <<log, run>>
  BY <1>5, UseIs DEF Storing!Delete, Storing!events
<1>6. ASSUME NEW i \in PolicyIds,
             Storing!Revoke(i) \/ \E preset \in Presets, r \in {0, run} : i \in Local /\ Storing!Allow(i, preset, r)
      PROVE  UNCHANGED <<log, run>>
  BY <1>6, CommandIs
<1>7. ASSUME Storing!HandleEvent
      PROVE  UNCHANGED <<log, run>>
  BY <1>7 DEF Storing!HandleEvent
<1>8. ASSUME Storing!SaveCursor \/ Storing!StartReport \/ Storing!SendUses \/ Storing!ReportLost
      PROVE  UNCHANGED <<log, run>>
  BY <1>8 DEF Storing!SaveCursor, Storing!StartReport, Storing!SendUses, Storing!ReportLost, Storing!events
<1>9. ASSUME Storing!RecordReport
      PROVE  UNCHANGED <<log, run>>
  BY <1>9, RecordIs
<1> QED
  BY StoringSteps, <1>1, <1>2, <1>3, <1>4, <1>5, <1>6, <1>7, <1>8, <1>9

LEMMA StoringStays ==
  ASSUME StoringInv, UNCHANGED storing
  PROVE  StoringInv'
<1>1. /\ UNCHANGED <<doc, writing, log, cursor, handled, run, report, hosted, deleted, ended, kept>>
      /\ UNCHANGED <<raced, policyFaults>>
  BY DEF storing
<1>2. StoringTypes'
  BY <1>1 DEF StoringInv, StoringTypes
<1>3. LogIsOrdered(log, run)'
  BY <1>1 DEF StoringInv
<1>4. ASSUME StoringRules
      PROVE  StoringRules'
  <2>1. HostedGrows
    BY <1>1 DEF HostedGrows
  <2>2. ReportIsCurrent(doc, report.todo, hosted, deleted)' /\ AnswerIsTrue'
    BY <1>1, <1>4, <2>1, ReportStays DEF StoringInv
  <2> QED
    BY <1>1, <1>4, <2>1, <2>2, RulesElsewhere DEF StoringInv
<1> QED
  BY <1>1, <1>2, <1>3, <1>4 DEF StoringInv

LEMMA StoringNext ==
  ASSUME StoringInv, Storing!Next
  PROVE  StoringInv'
<1>1. StoringTypes /\ LogIsOrdered(log, run) /\ (~raced => StoringRules)
  BY DEF StoringInv
<1>2. StoringTypes' /\ LogIsOrdered(log, run)'
  BY <1>1, StoringTypesNext, OrderedNext
<1>3. ~raced' => StoringRules'
  BY <1>1, RacedForEver, RulesNext
<1> QED
  BY <1>2, <1>3 DEF StoringInv

-----------------------------------------------------------------------------
(* Policies: what the rules give.                                           *)

\* A policy gets active again only by an event that is newer than its revocation.
LEMMA StoringStaysRevoked ==
  ASSUME StoringInv, Storing!Next
  PROVE  Storing!StaysRevoked
<1> SUFFICES ASSUME NEW i \in PolicyIds \ kept, ~raced', ended[i] # None,
                    ~Storing!Active(doc, i), Storing!Active(doc', i)
             PROVE  doc'.revs[i] > ended[i]
  <2>1. Storing!Ids = PolicyIds
    BY DEF Storing!Ids, PolicyIds
  <2> QED
    BY <2>1 DEF Storing!StaysRevoked, Storing!Revives
<1>1. StoringTypes /\ LogIsOrdered(log, run) /\ StoringRules
  BY RacedForEver DEF StoringInv
<1>2. doc' # doc
  OBVIOUS
<1>3. PICK p \in {"bridge", "cli"} : Storing!Rename(p)
  BY <1>1, <1>2, OthersKeepFile
<1>4. writing[p] \in Writes /\ doc' = writing[p].new /\ raced' = (raced \/ writing[p].stale)
  BY <1>1, <1>3, RenameIs
<1>5. Fresh(p)
  BY <1>4, PolicyBounds DEF Fresh
<1>6. Revived(p, i)
  BY <1>1, <1>4, <1>5 DEF StoringRules, WriteIsStep
<1>7. ~(i \in Local /\ Storing!Places(doc, i) = {})
  BY <1>1 DEF StoringRules, LocalStays
<1>8. PICK e : e = log[cursor + 1]
  OBVIOUS
<1>9. /\ handled /\ e.id = i /\ e.type = "allow" /\ e.run \in {0, run}
      /\ doc'.revs[i] = e.rev
      /\ doc.revs[i] # None => doc.revs[i] < e.rev
  BY <1>4, <1>6, <1>7, <1>8 DEF Revived
<1>10. /\ log \in Seq(PolicyEvents) /\ cursor \in 0 .. Len(log) /\ cursor < Len(log)
       /\ cursor + 1 \in 1 .. Len(log) /\ e \in PolicyEvents /\ i \in Hosted /\ e.rev \in Nat
  <2>1. log \in Seq(PolicyEvents) /\ cursor \in 0 .. Len(log) /\ cursor < Len(log)
    BY <1>1, <1>9 DEF StoringTypes
  <2>2. cursor + 1 \in 1 .. Len(log)
    BY ONLY <2>1
  <2> QED
    BY <2>1, <2>2, <1>1, <1>8, <1>9, EventsAreTyped, PolicyBounds
<1>11. \/ ended[i] <= NewestOf(log, cursor, i)
       \/ Digested(doc, e, run, kept)
  BY <1>1, <1>8, <1>10 DEF StoringRules, EndedIsPast
<1>12. ~Digested(doc, e, run, kept)
  <2>1. doc.revs[i] # None => doc.revs[i] \in Nat
    BY <1>1, PolicyBounds DEF StoringTypes, PolicyDocuments
  <2>2. ~(doc.revs[i] # None /\ doc.revs[i] >= e.rev)
    BY <2>1, <1>9, <1>10
  <2> QED
    BY <2>2, <1>9 DEF Digested
<1>13. NewestOf(log, cursor, i) < e.rev /\ NewestOf(log, cursor, i) \in Nat
  BY <1>1, <1>8, <1>9, <1>10, NewestNext, NewestIs, PolicyBounds
<1>14. ended[i] \in Nat
  BY <1>1, PolicyBounds DEF StoringTypes
<1>15. ended[i] < e.rev
  BY <1>10, <1>11, <1>12, <1>13, <1>14
<1> QED
  BY <1>9, <1>10, <1>14, <1>15

LEMMA StoringIsAccounted ==
  ASSUME StoringInv
  PROVE  Storing!UsesAreAccounted
BY DEF StoringInv, StoringRules, Accounted, FirstOf, Storing!UsesAreAccounted

LEMMA StoringIsTyped ==
  ASSUME StoringInv
  PROVE  Storing!TypeOK
<1>1. StoringTypes
  BY DEF StoringInv
<1>2. Storing!Documents = PolicyDocuments
  <2>1. Storing!Records = PolicyRecords
    BY DEF Storing!Records, PolicyRecords, Storing!Ids, PolicyIds
  <2> QED
    BY <2>1 DEF Storing!Documents, PolicyDocuments, Storing!Ids, PolicyIds, Storing!Revisions
<1>3. \A p \in Storing!Processes : writing[p] # None => writing[p] \in [stale : BOOLEAN, new : Storing!Documents]
  BY <1>1, <1>2 DEF StoringTypes, Storing!Processes, Writes
<1>4. /\ Storing!Ids = PolicyIds /\ Storing!Revisions = 0 .. MaxEvents
      /\ \A i \in PolicyIds : hosted[i] \subseteq 1 .. MaxUses
  BY <1>1 DEF StoringTypes, Storing!Ids, PolicyIds, Storing!Revisions
<1> QED
  BY <1>1, <1>2, <1>3, <1>4 DEF StoringTypes, Storing!TypeOK

-----------------------------------------------------------------------------
(* What the specification promises.                                         *)

AccessInv ==
  part \in Parts /\ UpdatingInv /\ ContinuingInv /\ DecidingInv /\ StoringInv

LEMMA AccessInit ==
  ASSUME Init
  PROVE  AccessInv
<1>1. part \in Parts /\ Updating!Init /\ Continuing!Init /\ Deciding!Init /\ Storing!Init
  BY DEF Init
<1> QED
  BY <1>1, UpdatingInit, ContinuingInit, DecidingInit, StoringInit DEF AccessInv

LEMMA AccessStep ==
  ASSUME AccessInv, [Next]_vars
  PROVE  /\ AccessInv' /\ Continuing!NeverBack
         /\ [part = "storing" => Storing!StaysRevoked]_vars
<1>1. /\ [Updating!Next]_updating /\ [Continuing!Next]_continuing /\ [Deciding!Next]_deciding
      /\ Storing!Next \/ UNCHANGED storing
      /\ UNCHANGED part
  BY DEF Next, vars
<1>2. UpdatingInv' /\ ContinuingInv' /\ DecidingInv' /\ Continuing!NeverBack
  BY <1>1, UpdatingNext, ContinuingNext, DecidingNext DEF AccessInv
<1>3. StoringInv'
  BY <1>1, StoringNext, StoringStays DEF AccessInv
<1>4. [part = "storing" => Storing!StaysRevoked]_vars
  <2> SUFFICES ASSUME part = "storing", Next
               PROVE  Storing!StaysRevoked
    OBVIOUS
  <2>1. Storing!Next
    BY DEF Next
  <2> QED
    BY <2>1, StoringStaysRevoked DEF AccessInv
<1> QED
  BY <1>1, <1>2, <1>3, <1>4 DEF AccessInv

LEMMA AccessInvariant == Spec => []AccessInv
<1>1. Init => AccessInv
  BY AccessInit
<1>2. AccessInv /\ [Next]_vars => AccessInv'
  BY AccessStep
<1> QED
  BY <1>1, <1>2, PTL DEF Spec

LEMMA ContinuingIsTyped ==
  ASSUME ContinuingInv
  PROVE  Continuing!TypeOK
<1>1. ContinuingTypes /\ MaxTaskFaults \in Nat
  BY AccessAssumption DEF AccessAssumption, ContinuingInv
<1>2. manifest \in 0 .. MaxTaskFaults
  BY <1>1 DEF ContinuingTypes
<1>3. \A c \in Calls : checkpoint[c] # None =>
         checkpoint[c] \in [state : Continuing!States, approvalId : BOOLEAN, expected : 0 .. MaxTaskFaults]
  BY <1>1 DEF ContinuingTypes, Checkpoint
<1> QED
  BY <1>1, <1>2, <1>3 DEF ContinuingTypes, Continuing!TypeOK

LEMMA UpdatingIsTyped ==
  ASSUME UpdatingInv
  PROVE  Updating!TypeOK
<1>1. UpdatingTypes
  BY DEF UpdatingInv
<1>2. 1 .. applied \subseteq Updating!Revisions
  <2>1. applied \in 0 .. Len(updates) /\ Len(updates) <= MaxUpdates /\ MaxUpdates \in Nat /\ Len(updates) \in Nat
    BY <1>1, AccessAssumption DEF AccessAssumption, UpdatingTypes
  <2> QED
    BY ONLY <2>1 DEF Updating!Revisions
<1> QED
  BY <1>1, <1>2 DEF UpdatingTypes, Updating!TypeOK, Held

\* The state of the grants and the running task, of the policies, of the continuations and of the
\* relationship updates keeps its types.
THEOREM AccessTypes == Spec => []TypeOK
<1>1. AccessInv => TypeOK
  <2> SUFFICES ASSUME AccessInv
               PROVE  TypeOK
    OBVIOUS
  <2>1. part \in {"deciding", "storing", "continuing", "updating"}
    BY AccessAssumption DEF AccessAssumption, AccessInv
  <2>2. Deciding!TypeOK /\ Storing!TypeOK /\ Continuing!TypeOK /\ Updating!TypeOK
    BY StoringIsTyped, ContinuingIsTyped, UpdatingIsTyped DEF AccessInv, DecidingInv
  <2> QED
    BY <2>1, <2>2 DEF TypeOK
<1> QED
  BY <1>1, AccessInvariant, PTL

\* A policy that an event or the owner has revoked gets active again only by an event newer than
\* every one handled before the revocation, by no replay and no report, unless the two processes
\* wrote the file at the same time or an event gave what the file already had; and every use of a
\* policy's record is accepted or still to be reported.
THEOREM PoliciesAlwaysSound == Spec => PoliciesAreSound
<1>1. AccessInv /\ [Next]_vars => [part = "storing" => Storing!StaysRevoked]_vars
  BY AccessStep
<1>2. AccessInv => (part = "storing" => Storing!UsesAreAccounted)
  BY StoringIsAccounted DEF AccessInv
<1> QED
  BY <1>1, <1>2, AccessInvariant, PTL DEF Spec, PoliciesAreSound

\* Once a revocation is handled no session that the reset has not missed holds what was revoked,
\* and what a session holds was given by the newest acknowledged update of its peer or a later one.
THEOREM NothingRevokedKept == Spec => []NothingRevokedIsKept
BY AccessInvariant, UpdatingSafe, PTL DEF AccessInv

\* A call that reaches the owner is in a folder granted now and one grant of the time of the launch
\* allows its tool there by itself; nothing that is granted is refused while the grants stay as
\* they were; and a task that selects one policy has its folder and rights, no others.
THEOREM AccessAlwaysExact == Spec => []AccessIsExact
<1>1. AccessInv => AccessIsExact
  BY DecidingSafe DEF AccessInv, AccessIsExact
<1> QED
  BY <1>1, AccessInvariant, PTL

\* What runs again after its session was rebuilt was approved by the owner and runs within the
\* boundary of its own approval, once in a process; a completed continuation has an answer to
\* deliver; and no execution returns to an earlier stage, one that is over least of all.
THEOREM ContinuationAlwaysSound == Spec => ContinuationIsSound
<1>1. AccessInv /\ [Next]_vars =>
        [/\ Continuing!ResumedAsApproved' /\ Continuing!ResumedOncePerProcess'
         /\ Continuing!CompletedHasAnswer' /\ Continuing!NeverBack]_vars
  <2> SUFFICES ASSUME AccessInv, [Next]_vars
               PROVE  /\ Continuing!ResumedAsApproved' /\ Continuing!ResumedOncePerProcess'
                      /\ Continuing!CompletedHasAnswer' /\ Continuing!NeverBack
    OBVIOUS
  <2>1. ContinuingInv' /\ Continuing!NeverBack
    BY AccessStep DEF AccessInv
  <2>2. ContinuingInv' => /\ Continuing!ResumedAsApproved' /\ Continuing!ResumedOncePerProcess'
                          /\ Continuing!CompletedHasAnswer'
    BY DEF ContinuingInv, CheckpointRules, OwnerAgreed, Continuing!ResumedAsApproved,
           Continuing!ResumedOncePerProcess, Continuing!CompletedHasAnswer
  <2> QED
    BY <2>1, <2>2
<1> QED
  BY <1>1, AccessInvariant, PTL DEF Spec, ContinuationIsSound
===============================================================================
