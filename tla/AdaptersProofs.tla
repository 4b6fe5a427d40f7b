---------------------------- MODULE AdaptersProofs ----------------------------
(***************************************************************************)
(* The safety of the two runtime adapters, for any grants and boundaries    *)
(* and any number of turns, processes and restarts.                         *)
(*                                                                          *)
(*   - Claude Code: a conversation has been given turns of the session's    *)
(*     grant only, and every process that still runs is the session's or    *)
(*     was never given a turn, so that an answer goes to a turn of the      *)
(*     grant it is of.  This needs that the injector and the continuation   *)
(*     recovery are not in the session at once (~Overlap).                  *)
(*   - Codex: a thread serves the grant of its turns, the session's thread  *)
(*     its bound grant, and a turn is over exactly when it was reported,    *)
(*     unless it ends silently.                                             *)
(***************************************************************************)
EXTENDS MCAdapters, SequenceLemmas, FiniteSetTheorems, TLAPS

Positive == Nat \ {0}

-----------------------------------------------------------------------------
(* Claude Code (ClaudeSession).                                             *)

ClaudeS == [state : Claude!States, bound : Grants \cup {None}, sandbox : Boundaries \cup {None}, init : BOOLEAN,
            ctx : Nat, accepting : BOOLEAN, resetting : BOOLEAN, query : Nat,
            pending : SUBSET Positive, turns : Seq(Positive)]
Process == [ctx : Nat, box : Boundaries \cup {None}, resume : BOOLEAN, life : {"starting", "up", "ended"},
            closing : BOOLEAN, inbox : Seq(Positive), work : Seq(Positive), fed : SUBSET Grants]
Points == {"idle", "launch", "drain", "relaunch", "push", "ack", "quiesce", "rebuild", "rebuild_launch", "resume"}
ClaudeCall == [at : Points, grant : Grants \cup {None}, on : Nat, turn : Nat]

\* A call is on a process and for a turn, or none.
CallShape(k, processes, inputs) ==
    /\ k.on <= processes /\ k.turn <= inputs
    /\ k.at # "idle" => k.grant \in Grants
    /\ k.at \notin {"push", "ack"} => k.turn = 0
    /\ k.at \in {"launch", "relaunch", "rebuild_launch"} => k.on # 0

\* Every position is one of a process or a turn.
ClaudeTypes ==
    /\ s \in ClaudeS /\ db = Claude!Row(s)
    /\ procs \in Seq(Process) /\ turns \in Seq(Grants)
    /\ call \in [Claude!Callers -> ClaudeCall]
    /\ loop \in [at : {"idle", "drain"}, grant : Grants \cup {None}, on : Nat]
    /\ policy \in Boundaries
    /\ s.query <= Len(procs) /\ loop.on <= Len(procs)
    /\ \A t \in s.pending : t <= Len(turns)
    /\ \A n \in DOMAIN s.turns : s.turns[n] <= Len(turns)
    /\ \A q \in DOMAIN procs :
          /\ \A n \in DOMAIN procs[q].inbox : procs[q].inbox[n] <= Len(turns)
          /\ \A n \in DOMAIN procs[q].work : procs[q].work[n] <= Len(turns)
    /\ \A c \in Claude!Callers : CallShape(call[c], Len(procs), Len(turns))

Launching == {"launch", "relaunch", "rebuild_launch"}

\* What a caller that is neither idle nor waiting for its turn knows of the session: nobody
\* else has launched or fed a process of it, but the loop may have reset it.
CallerRules(c) ==
    /\ call[c].at \notin {"idle", "push", "ack"} => s.pending = {} /\ s.turns = <<>>
    /\ call[c].at \in {"drain", "quiesce"} \cup Launching => s.query \in {call[c].on, 0}
    /\ call[c].at \in {"drain", "launch", "relaunch"} => s.bound \in {None, call[c].grant}
    /\ call[c].at \in Launching => procs[call[c].on].fed = {}
    /\ call[c].at = "resume" => loop.at = "idle"

OneCaller == \A c, d \in Claude!Callers : call[c].at # "idle" /\ call[d].at # "idle" => c = d

\* The loop awaits the process of the session, or that process is new and has nothing.
LoopRules ==
    loop.at = "drain" =>
        \/ s.query = loop.on /\ (loop.on # 0 => procs[loop.on].closing)
        \/ Claude!Ended(loop.on) /\ (s.query # 0 => procs[s.query].fed = {})

\* The turns under way are of the session's grant, those of a process of a grant it was given.
TurnsAreOfTheGrant ==
    /\ \A t \in s.pending : turns[t] = s.bound
    /\ \A n \in DOMAIN s.turns : turns[s.turns[n]] = s.bound
    /\ \A q \in DOMAIN procs :
          /\ \A n \in DOMAIN procs[q].inbox : turns[procs[q].inbox[n]] \in procs[q].fed
          /\ \A n \in DOMAIN procs[q].work : turns[procs[q].work[n]] \in procs[q].fed

\* A conversation has one grant, that of the session the session's.
ConversationsAreSeparate ==
    /\ \A p, q \in DOMAIN procs : procs[p].ctx = procs[q].ctx => \A g \in procs[p].fed, h \in procs[q].fed : g = h
    /\ \A q \in DOMAIN procs : procs[q].ctx = s.ctx => procs[q].fed \subseteq {s.bound}
    /\ s.query # 0 => procs[s.query].ctx = s.ctx

\* A process that still runs is the session's, or nothing was given to it.
OthersAreUnfed == \A q \in DOMAIN procs : procs[q].life # "ended" => q = s.query \/ procs[q].fed = {}

\* The boundary the session remembers is that of its process, while nobody launches another.
BoundaryIsKnown ==
    (/\ s.query # 0 /\ \A c \in Claude!Callers : call[c].at \notin Launching
     /\ procs[s.query].life # "ended" /\ ~procs[s.query].closing)
        => procs[s.query].box = s.sandbox

ClaudeInv ==
    /\ OneCaller /\ \A c \in Claude!Callers : CallerRules(c)
    /\ LoopRules /\ TurnsAreOfTheGrant /\ ConversationsAreSeparate /\ OthersAreUnfed /\ BoundaryIsKnown

ClaudePart == part = "claude" => ClaudeTypes /\ ClaudeInv

-----------------------------------------------------------------------------
(* Claude Code: the proof.                                                  *)

\* A finite set does not hold every number up to its cardinality.
LEMMA Unused ==
  ASSUME NEW U, IsFiniteSet(U), NEW low \in {0, 1}
  PROVE  \E id \in low .. Cardinality(U) + low : id \notin U
<1>1. Cardinality(U) \in Nat
  BY FS_CardinalityType
<1> SUFFICES ASSUME low .. Cardinality(U) + low \subseteq U
             PROVE  FALSE
  OBVIOUS
<1>2. Cardinality(low .. Cardinality(U) + low) <= Cardinality(U)
  BY FS_Subset
<1>3. Cardinality(low .. Cardinality(U) + low) = Cardinality(U) + 1
  BY <1>1, FS_Interval
<1> QED
  BY <1>1, <1>2, <1>3

LEMMA ClaudeFacts ==
  ASSUME ClaudeTypes
  PROVE  /\ s \in ClaudeS /\ s.query \in Nat /\ s.query <= Len(procs) /\ s.bound \in Grants \cup {None} /\ s.ctx \in Nat
         /\ s.pending \subseteq Positive /\ s.turns \in Seq(Positive)
         /\ db.bound = s.bound /\ db.ctx = s.ctx
         /\ Len(procs) \in Nat /\ DOMAIN procs = 1 .. Len(procs)
         /\ Len(turns) \in Nat /\ DOMAIN turns = 1 .. Len(turns) /\ \A t \in DOMAIN turns : turns[t] \in Grants
         /\ \A q \in 1 .. Len(procs) : /\ procs[q] \in Process /\ procs[q].ctx \in Nat /\ procs[q].fed \subseteq Grants
                                       /\ procs[q].inbox \in Seq(Positive) /\ procs[q].work \in Seq(Positive)
         /\ s.query # 0 => s.query \in 1 .. Len(procs)
         /\ \A c \in Claude!Callers : /\ call[c] \in ClaudeCall /\ call[c].on \in Nat /\ call[c].turn \in Nat
                                      /\ call[c].at \in Points
                                      /\ call[c].on # 0 => call[c].on \in 1 .. Len(procs)
         /\ loop.on \in Nat /\ (loop.on # 0 => loop.on \in 1 .. Len(procs)) /\ loop.at \in {"idle", "drain"}
<1>1. PICK P : P = Process
  OBVIOUS
<1>2. procs \in Seq(P)
  BY <1>1 DEF ClaudeTypes
<1>3. Len(procs) \in Nat /\ DOMAIN procs = 1 .. Len(procs) /\ \A q \in 1 .. Len(procs) : procs[q] \in P
  BY <1>2
<1>4. Len(turns) \in Nat /\ DOMAIN turns = 1 .. Len(turns) /\ \A t \in DOMAIN turns : turns[t] \in Grants
  BY DEF ClaudeTypes
<1>5. /\ s \in ClaudeS /\ s.query \in Nat /\ s.query <= Len(procs) /\ s.bound \in Grants \cup {None} /\ s.ctx \in Nat
      /\ s.pending \subseteq Positive /\ s.turns \in Seq(Positive)
      /\ db.bound = s.bound /\ db.ctx = s.ctx
  BY DEF ClaudeTypes, ClaudeS, Claude!Row
<1>6. \A c \in Claude!Callers : /\ call[c] \in ClaudeCall /\ call[c].on \in Nat /\ call[c].turn \in Nat
                                /\ call[c].at \in Points /\ call[c].on <= Len(procs)
  BY DEF ClaudeTypes, ClaudeCall, CallShape
<1>7. loop.on \in Nat /\ loop.on <= Len(procs) /\ loop.at \in {"idle", "drain"}
  BY DEF ClaudeTypes
<1>8. \A q \in 1 .. Len(procs) : /\ procs[q] \in Process /\ procs[q].ctx \in Nat /\ procs[q].fed \subseteq Grants
                                 /\ procs[q].inbox \in Seq(Positive) /\ procs[q].work \in Seq(Positive)
  BY <1>1, <1>3 DEF Process
<1> QED
  BY <1>3, <1>4, <1>5, <1>6, <1>7, <1>8

\* A new conversation is nobody's.
LEMMA NewIdIsNew ==
  ASSUME ClaudeTypes
  PROVE  /\ Claude!NewId \in Nat /\ Claude!NewId # s.ctx
         /\ \A q \in 1 .. Len(procs) : procs[q].ctx # Claude!NewId
<1> DEFINE ids == {procs[q].ctx : q \in 1 .. Len(procs)}
           used == {s.ctx, db.ctx} \cup {procs[q].ctx : q \in Claude!Queries}
<1>1. Len(procs) \in Nat /\ Claude!Queries = 1 .. Len(procs)
  BY ClaudeFacts DEF Claude!Queries
<1>2. IsFiniteSet(1 .. Len(procs))
  BY <1>1, FS_Interval
<1>3. IsFiniteSet(ids)
  <2> DEFINE of == [q \in 1 .. Len(procs) |-> procs[q].ctx]
  <2>1. of \in Surjection(1 .. Len(procs), ids)
    BY DEF Surjection
  <2> QED
    BY <1>2, <2>1, FS_Surjection
<1>4. IsFiniteSet(ids \cup {db.ctx} \cup {s.ctx})
  BY <1>3, FS_AddElement
<1>5. used = ids \cup {db.ctx} \cup {s.ctx}
  BY <1>1
<1>6. IsFiniteSet(used) /\ Cardinality(used) \in Nat
  BY <1>4, <1>5, FS_CardinalityType
<1>7. \E id \in 0 .. Cardinality(used) + 0 : id \notin used
  BY <1>6, Unused
<1>8. Claude!NewId = CHOOSE id \in 0 .. Claude!Cardinality(used) : id \notin used
  BY Zenon DEF Claude!NewId
<1>9. Claude!Cardinality(used) = Cardinality(used)
  BY DEF Claude!Cardinality, Cardinality
<1> HIDE DEF used
<1>10. Claude!NewId \in 0 .. Cardinality(used) /\ Claude!NewId \notin used
  BY <1>6, <1>7, <1>8, <1>9
<1> QED
  BY <1>1, <1>6, <1>10 DEF used

\* Closing a process changes nothing else of it, and nothing of the others.
LEMMA ClosedFacts ==
  ASSUME ClaudeTypes, NEW q \in Nat
  PROVE  /\ Claude!Closed(q) \in Seq(Process) /\ Len(Claude!Closed(q)) = Len(procs)
         /\ \A p \in 1 .. Len(procs) :
               /\ Claude!Closed(q)[p].closing = (p = q \/ procs[p].closing)
               /\ Claude!Closed(q)[p].ctx = procs[p].ctx /\ Claude!Closed(q)[p].box = procs[p].box
               /\ Claude!Closed(q)[p].life = procs[p].life /\ Claude!Closed(q)[p].fed = procs[p].fed
               /\ Claude!Closed(q)[p].inbox = procs[p].inbox /\ Claude!Closed(q)[p].work = procs[p].work
<1>1. PICK P : P = Process
  OBVIOUS
<1>2. Len(procs) \in Nat /\ Claude!Queries = 1 .. Len(procs) /\ \A p \in 1 .. Len(procs) : procs[p] \in Process
  BY ClaudeFacts DEF Claude!Queries
<1>3. \A p \in 1 .. Len(procs) : [procs[p] EXCEPT !.closing = TRUE] \in Process
  BY <1>2 DEF Process
<1>4. Claude!Closed(q) = [p \in 1 .. Len(procs) |-> IF p = q THEN [procs[p] EXCEPT !.closing = TRUE] ELSE procs[p]]
  BY <1>2 DEF Claude!Closed
<1>5. Claude!Closed(q) \in [1 .. Len(procs) -> P]
  BY <1>1, <1>2, <1>3, <1>4
<1>6. Claude!Closed(q) \in Seq(P) /\ Len(Claude!Closed(q)) = Len(procs)
  BY <1>2, <1>5
<1>7. \A p \in 1 .. Len(procs) : procs[p].closing \in BOOLEAN
  BY <1>2 DEF Process
<1>8. ASSUME NEW p \in 1 .. Len(procs)
      PROVE  /\ Claude!Closed(q)[p].closing = (p = q \/ procs[p].closing)
             /\ Claude!Closed(q)[p].ctx = procs[p].ctx /\ Claude!Closed(q)[p].box = procs[p].box
             /\ Claude!Closed(q)[p].life = procs[p].life /\ Claude!Closed(q)[p].fed = procs[p].fed
             /\ Claude!Closed(q)[p].inbox = procs[p].inbox /\ Claude!Closed(q)[p].work = procs[p].work
  <2>1. CASE p = q
    <3>1. Claude!Closed(q)[p] = [procs[p] EXCEPT !.closing = TRUE]
      BY <1>4, <2>1
    <3> QED
      BY <1>2, <2>1, <3>1 DEF Process
  <2>2. CASE p # q
    <3>1. Claude!Closed(q)[p] = procs[p]
      BY <1>4, <2>2
    <3> QED
      BY <1>7, <2>2, <3>1
  <2> QED
    BY <2>1, <2>2
<1> QED
  BY <1>1, <1>6, <1>8

LEMMA IdleIsACall == Claude!Idle \in ClaudeCall /\ Claude!Idle.at = "idle" /\ Claude!Idle.on = 0 /\ Claude!Idle.turn = 0
BY DEF Claude!Idle, ClaudeCall, Points

\* Where an acknowledgement is rejected the call is over; no other call changes.
LEMMA RejectedFacts ==
  ASSUME ClaudeTypes
  PROVE  /\ Claude!Rejected \in [Claude!Callers -> ClaudeCall]
         /\ \A c \in Claude!Callers :
               /\ Claude!Rejected[c] \in {call[c], Claude!Idle}
               /\ Claude!Rejected[c] = call[c] \/ call[c].at \in {"push", "ack"}
<1>1. \A c \in Claude!Callers : Claude!Rejected[c] =
         IF call[c].at = "push" \/ (call[c].at = "ack" /\ call[c].turn \in s.pending) THEN Claude!Idle ELSE call[c]
  BY DEF Claude!Rejected
<1>2. call \in [Claude!Callers -> ClaudeCall]
  BY DEF ClaudeTypes
<1>3. \A c \in Claude!Callers : Claude!Rejected[c] \in {call[c], Claude!Idle}
  BY <1>1
<1>4. Claude!Rejected \in [Claude!Callers -> ClaudeCall]
  BY <1>2, <1>3, IdleIsACall DEF Claude!Rejected
<1> QED
  BY <1>1, <1>3, <1>4

\* What resetSession and quiesceContinuation do before they await the consumer.
LEMMA InterruptedFacts ==
  ASSUME ClaudeTypes
  PROVE  /\ Claude!Interrupted \in ClaudeS
         /\ Claude!Interrupted.query = s.query /\ Claude!Interrupted.bound = s.bound
         /\ Claude!Interrupted.ctx = s.ctx /\ Claude!Interrupted.sandbox = s.sandbox
         /\ Claude!Interrupted.pending = {} /\ Claude!Interrupted.turns = <<>>
         /\ Claude!Row(Claude!Interrupted) = Claude!Row(s)
<1>1. s \in ClaudeS
  BY DEF ClaudeTypes
<1>2. <<>> \in Seq(Positive)
  OBVIOUS
<1> QED
  BY <1>1, <1>2 DEF Claude!Interrupted, ClaudeS, Claude!Row

\* The process of the session is closed and its turns are forgotten: whoever does it, the turns
\* and conversations are as before.
Interrupts ==
    /\ s' = Claude!Interrupted /\ procs' = Claude!Closed(s.query)
    /\ UNCHANGED <<db, turns>>

LEMMA InterruptsAre ==
  ASSUME ClaudeTypes, Interrupts
  PROVE  /\ s' \in ClaudeS /\ s'.query = s.query /\ s'.bound = s.bound /\ s'.ctx = s.ctx /\ s'.sandbox = s.sandbox
         /\ s'.pending = {} /\ s'.turns = <<>> /\ db' = Claude!Row(s')
         /\ procs' \in Seq(Process) /\ Len(procs') = Len(procs) /\ DOMAIN procs' = 1 .. Len(procs)
         /\ \A p \in 1 .. Len(procs) :
               /\ procs'[p].closing = (p = s.query \/ procs[p].closing)
               /\ procs'[p].ctx = procs[p].ctx /\ procs'[p].box = procs[p].box
               /\ procs'[p].life = procs[p].life /\ procs'[p].fed = procs[p].fed
               /\ procs'[p].inbox = procs[p].inbox /\ procs'[p].work = procs[p].work
<1> USE ClaudeFacts
<1>1. /\ s' \in ClaudeS /\ s'.query = s.query /\ s'.bound = s.bound /\ s'.ctx = s.ctx /\ s'.sandbox = s.sandbox
      /\ s'.pending = {} /\ s'.turns = <<>> /\ db' = Claude!Row(s')
  BY InterruptedFacts DEF Interrupts, ClaudeTypes
<1>2. /\ procs' \in Seq(Process) /\ Len(procs') = Len(procs) /\ DOMAIN procs' = 1 .. Len(procs)
      /\ \A p \in 1 .. Len(procs) :
            /\ procs'[p].closing = (p = s.query \/ procs[p].closing)
            /\ procs'[p].ctx = procs[p].ctx /\ procs'[p].box = procs[p].box
            /\ procs'[p].life = procs[p].life /\ procs'[p].fed = procs[p].fed
            /\ procs'[p].inbox = procs[p].inbox /\ procs'[p].work = procs[p].work
  <2>1. procs' = Claude!Closed(s.query) /\ s.query \in Nat
    BY DEF Interrupts
  <2>2. PICK P : P = Process
    OBVIOUS
  <2>3. procs' \in Seq(P) /\ Len(procs') = Len(procs)
    BY <2>1, <2>2, ClosedFacts
  <2>4. DOMAIN procs' = 1 .. Len(procs)
    BY <2>3
  <2>5. procs' \in Seq(Process)
    BY <2>2, <2>3
  <2>6. ASSUME NEW p \in 1 .. Len(procs)
        PROVE  /\ procs'[p].closing = (p = s.query \/ procs[p].closing)
               /\ procs'[p].ctx = procs[p].ctx /\ procs'[p].box = procs[p].box
               /\ procs'[p].life = procs[p].life /\ procs'[p].fed = procs[p].fed
               /\ procs'[p].inbox = procs[p].inbox /\ procs'[p].work = procs[p].work
    BY ONLY ClaudeTypes, <2>1, p \in 1 .. Len(procs), ClosedFacts, Zenon
  <2> QED
    BY <2>3, <2>4, <2>5, <2>6
<1> QED
  BY <1>1, <1>2

LEMMA InterruptsKeep ==
  ASSUME ClaudeTypes, ClaudeInv, Interrupts
  PROVE  /\ TurnsAreOfTheGrant' /\ ConversationsAreSeparate' /\ OthersAreUnfed' /\ BoundaryIsKnown'
         /\ s' \in ClaudeS /\ db' = Claude!Row(s') /\ procs' \in Seq(Process) /\ turns' \in Seq(Grants)
         /\ Len(procs') = Len(procs) /\ s'.query <= Len(procs')
         /\ \A t \in s'.pending : t <= Len(turns')
         /\ \A n \in DOMAIN s'.turns : s'.turns[n] <= Len(turns')
         /\ \A q \in DOMAIN procs' : /\ \A n \in DOMAIN procs'[q].inbox : procs'[q].inbox[n] <= Len(turns')
                                     /\ \A n \in DOMAIN procs'[q].work : procs'[q].work[n] <= Len(turns')
<1> USE ClaudeFacts
<1>1. /\ s' \in ClaudeS /\ s'.query = s.query /\ s'.bound = s.bound /\ s'.ctx = s.ctx /\ s'.sandbox = s.sandbox
      /\ s'.pending = {} /\ s'.turns = <<>> /\ db' = Claude!Row(s')
  BY InterruptsAre
<1>2. /\ procs' \in Seq(Process) /\ Len(procs') = Len(procs) /\ DOMAIN procs' = 1 .. Len(procs)
      /\ \A p \in 1 .. Len(procs) :
            /\ procs'[p].closing = (p = s.query \/ procs[p].closing)
            /\ procs'[p].ctx = procs[p].ctx /\ procs'[p].box = procs[p].box
            /\ procs'[p].life = procs[p].life /\ procs'[p].fed = procs[p].fed
            /\ procs'[p].inbox = procs[p].inbox /\ procs'[p].work = procs[p].work
  BY InterruptsAre
<1>3. turns' = turns /\ turns \in Seq(Grants)
  BY DEF Interrupts, ClaudeTypes
<1>4. TurnsAreOfTheGrant'
  <2>1. \A q \in 1 .. Len(procs) :
           /\ \A n \in DOMAIN procs'[q].inbox : turns'[procs'[q].inbox[n]] \in procs'[q].fed
           /\ \A n \in DOMAIN procs'[q].work : turns'[procs'[q].work[n]] \in procs'[q].fed
    BY <1>2, <1>3 DEF ClaudeInv, TurnsAreOfTheGrant
  <2>2. DOMAIN s'.turns = {}
    BY <1>1
  <2> QED
    BY <1>1, <1>2, <2>1, <2>2 DEF TurnsAreOfTheGrant
<1>5. ConversationsAreSeparate'
  <2>1. \A p, q \in 1 .. Len(procs) : procs'[p].ctx = procs'[q].ctx => \A g \in procs'[p].fed, h \in procs'[q].fed : g = h
    <3>1. \A p, q \in 1 .. Len(procs) : procs[p].ctx = procs[q].ctx => \A g \in procs[p].fed, h \in procs[q].fed : g = h
      BY DEF ClaudeInv, ConversationsAreSeparate
    <3> QED
      BY <1>2, <3>1
  <2>2. \A q \in 1 .. Len(procs) : procs'[q].ctx = s'.ctx => procs'[q].fed \subseteq {s'.bound}
    BY <1>1, <1>2 DEF ClaudeInv, ConversationsAreSeparate
  <2>3. s'.query # 0 => procs'[s'.query].ctx = s'.ctx
    BY <1>1, <1>2 DEF ClaudeInv, ConversationsAreSeparate
  <2> QED
    BY <1>2, <2>1, <2>2, <2>3 DEF ConversationsAreSeparate
<1>6. OthersAreUnfed'
  <2>1. \A q \in 1 .. Len(procs) : procs[q].life # "ended" => q = s.query \/ procs[q].fed = {}
    BY DEF ClaudeInv, OthersAreUnfed
  <2>2. \A q \in 1 .. Len(procs) : procs'[q].life # "ended" => q = s'.query \/ procs'[q].fed = {}
    BY ONLY <2>1, <1>1, <1>2
  <2> QED
    BY ONLY <2>2, <1>2 DEF OthersAreUnfed
<1>7. BoundaryIsKnown'
  BY <1>1, <1>2 DEF BoundaryIsKnown
<1>8. \A q \in DOMAIN procs' : /\ \A n \in DOMAIN procs'[q].inbox : procs'[q].inbox[n] <= Len(turns')
                               /\ \A n \in DOMAIN procs'[q].work : procs'[q].work[n] <= Len(turns')
  <2>1. ASSUME NEW q \in DOMAIN procs
        PROVE  /\ \A n \in DOMAIN procs[q].inbox : procs[q].inbox[n] <= Len(turns)
               /\ \A n \in DOMAIN procs[q].work : procs[q].work[n] <= Len(turns)
    BY DEF ClaudeTypes
  <2>2. DOMAIN procs' = DOMAIN procs /\ DOMAIN procs = 1 .. Len(procs)
    BY <1>2
  <2>3. ASSUME NEW q \in DOMAIN procs
        PROVE  procs'[q].inbox = procs[q].inbox /\ procs'[q].work = procs[q].work
    BY ONLY <1>2, <2>2, <2>3
  <2> QED
    BY ONLY <2>1, <2>2, <2>3, <1>3, Zenon
<1> QED
  BY <1>1, <1>2, <1>3, <1>4, <1>5, <1>6, <1>7, <1>8

LEMMA BeginResetStep ==
  ASSUME ClaudeTypes, ClaudeInv, ~Claude!Continuing,
         NEW g \in Grants \cup {None}, Claude!BeginReset(g), policy' \in Boundaries
  PROVE  ClaudeTypes' /\ ClaudeInv'
<1> USE ClaudeFacts
<1>1. Interrupts /\ call' = Claude!Rejected /\ loop' = [at |-> "drain", grant |-> g, on |-> s.query] /\ turns' = turns
  BY DEF Claude!BeginReset, Interrupts
<1>2. /\ s'.pending = {} /\ s'.turns = <<>> /\ s'.query = s.query /\ s'.bound = s.bound
      /\ Len(procs') = Len(procs)
      /\ \A p \in 1 .. Len(procs) : procs'[p].fed = procs[p].fed /\ procs'[p].closing = (p = s.query \/ procs[p].closing)
  BY <1>1, InterruptsAre
<1>3. call' \in [Claude!Callers -> ClaudeCall]
  BY <1>1, RejectedFacts
<1>4. \A c \in Claude!Callers : /\ call'[c] \in {call[c], Claude!Idle}
                                /\ call'[c] = call[c] \/ call[c].at \in {"push", "ack"}
  BY <1>1, RejectedFacts
<1>5. ASSUME NEW c \in Claude!Callers  PROVE CallShape(call'[c], Len(procs'), Len(turns'))
  <2>1. CASE call'[c] = call[c]
    BY <1>1, <1>2, <2>1 DEF ClaudeTypes
  <2>2. CASE call'[c] = Claude!Idle
    BY <1>1, <1>2, <2>2, IdleIsACall DEF CallShape
  <2> QED
    BY <1>4, <2>1, <2>2
<1>6. loop' \in [at : {"idle", "drain"}, grant : Grants \cup {None}, on : Nat] /\ loop'.on <= Len(procs')
  BY <1>1, <1>2
<1>7. ClaudeTypes'
  BY <1>1, <1>3, <1>5, <1>6, InterruptsKeep DEF ClaudeTypes
<1>8. ASSUME NEW c \in Claude!Callers  PROVE CallerRules(c)'
  <2>1. CASE call'[c] = call[c]
    <3>1. call[c].at # "resume"
      BY DEF Claude!Continuing, Claude!Continues
    <3> QED
      BY <1>2, <2>1, <3>1 DEF ClaudeInv, CallerRules, ClaudeTypes, CallShape, Launching
  <2>2. CASE call'[c] = Claude!Idle
    BY <2>2, IdleIsACall DEF CallerRules, Launching
  <2> QED
    BY <1>4, <2>1, <2>2
<1>9. OneCaller'
  <2>1. \A c, d \in Claude!Callers : call[c].at # "idle" /\ call[d].at # "idle" => c = d
    BY DEF ClaudeInv, OneCaller
  <2>2. \A c \in Claude!Callers : call'[c].at # "idle" => call[c].at # "idle"
    BY ONLY <1>4, IdleIsACall
  <2> QED
    BY ONLY <2>1, <2>2 DEF OneCaller
<1>10. LoopRules'
  BY <1>1, <1>2 DEF LoopRules
<1> QED
  BY <1>1, <1>7, <1>8, <1>9, <1>10, InterruptsKeep DEF ClaudeInv

\* One call changes.
LEMMA OneCallTypes ==
  ASSUME ClaudeTypes, NEW c \in Claude!Callers, NEW k \in ClaudeCall, call' = [call EXCEPT ![c] = k],
         Len(procs') \in Nat, Len(procs') >= Len(procs), Len(turns') \in Nat, Len(turns') >= Len(turns),
         CallShape(k, Len(procs'), Len(turns'))
  PROVE  /\ call' \in [Claude!Callers -> ClaudeCall]
         /\ \A d \in Claude!Callers : CallShape(call'[d], Len(procs'), Len(turns'))
         /\ call'[c] = k /\ \A d \in Claude!Callers : d # c => call'[d] = call[d]
<1>1. call \in [Claude!Callers -> ClaudeCall]
  BY DEF ClaudeTypes
<1>2. ASSUME NEW d \in Claude!Callers, d # c  PROVE CallShape(call'[d], Len(procs'), Len(turns'))
  <2>1. call'[d] = call[d] /\ CallShape(call[d], Len(procs), Len(turns)) /\ call[d].on \in Nat /\ call[d].turn \in Nat
    BY <1>1, <1>2, ClaudeFacts DEF ClaudeTypes
  <2>2. Len(procs) \in Nat /\ Len(turns) \in Nat
    BY ClaudeFacts
  <2> QED
    BY <2>1, <2>2 DEF CallShape
<1> QED
  BY <1>1, <1>2

\* Whoever delivers is alone in the session.
LEMMA DeliversAlone ==
  ASSUME ~Overlap, ClaudeTypes, OneCaller, NEW c \in Claude!Callers, NEW g, Claude!Delivers(c, g)
  PROVE  /\ call[c].at \in {"idle", "resume"}
         /\ \A d \in Claude!Callers : d # c => call[d].at = "idle"
<1>1. call[c].at \in {"idle", "resume"} /\ (call[c].at = "idle" => Claude!Alone(c))
  BY DEF Claude!Delivers
<1>2. CASE call[c].at = "idle"
  BY <1>1, <1>2 DEF Claude!Alone
<1>3. CASE call[c].at = "resume"
  BY <1>3 DEF OneCaller
<1> QED
  BY <1>1, <1>2, <1>3

\* One caller moves to k, the others are idle: rules for k are rules for all.
LEMMA OneCallerMoves ==
  ASSUME ClaudeTypes, NEW c \in Claude!Callers, NEW k \in ClaudeCall, call' = [call EXCEPT ![c] = k],
         \A d \in Claude!Callers : d # c => call[d].at = "idle",
         k = call'[c] => CallerRules(c)'
  PROVE  OneCaller' /\ \A d \in Claude!Callers : CallerRules(d)'
<1>1. call'[c] = k /\ \A d \in Claude!Callers : d # c => call'[d] = call[d]
  BY DEF ClaudeTypes
<1>2. \A d \in Claude!Callers : d # c => CallerRules(d)'
  BY <1>1 DEF CallerRules, Launching
<1>3. OneCaller'
  BY <1>1 DEF OneCaller
<1> QED
  BY <1>1, <1>2, <1>3

LEMMA DeliverElsewhereStep ==
  ASSUME ~Overlap, ClaudeTypes, ClaudeInv, NEW c \in Claude!Callers, NEW g \in Grants, Claude!DeliverElsewhere(c, g)
  PROVE  ClaudeTypes' /\ ClaudeInv'
<1> USE ClaudeFacts
<1> DEFINE k == [at |-> "drain", grant |-> g, on |-> s.query, turn |-> 0]
<1>1. /\ s' = [s EXCEPT !.resetting = TRUE] /\ procs' = Claude!Closed(s.query) /\ db' = db /\ turns' = turns
      /\ call' = [call EXCEPT ![c] = k] /\ loop' = loop /\ policy' = policy
      /\ s.bound \in {None, g}
  BY DEF Claude!DeliverElsewhere, Claude!Wait, Claude!world, Claude!Admits
<1>2. Interrupts
  <2>1. s.accepting = FALSE /\ s.pending = {} /\ s.turns = <<>> /\ s \in ClaudeS
    BY DEF Claude!DeliverElsewhere, Claude!Admits, ClaudeS
  <2>2. s' = Claude!Interrupted
    BY <1>1, <2>1 DEF Claude!Interrupted, ClaudeS
  <2> QED
    BY <1>1, <2>2 DEF Interrupts
<1>3. /\ s'.pending = {} /\ s'.turns = <<>> /\ s'.query = s.query /\ s'.bound = s.bound
      /\ Len(procs') = Len(procs)
      /\ \A p \in 1 .. Len(procs) : /\ procs'[p].fed = procs[p].fed /\ procs'[p].life = procs[p].life
                                    /\ procs'[p].closing = (p = s.query \/ procs[p].closing)
  BY <1>2, InterruptsAre
<1>4. k \in ClaudeCall /\ CallShape(k, Len(procs'), Len(turns'))
  BY <1>1, <1>3 DEF ClaudeCall, CallShape, Points
<1>5. ClaudeTypes'
  <2>1. Len(procs') \in Nat /\ Len(procs') >= Len(procs) /\ Len(turns') \in Nat /\ Len(turns') >= Len(turns)
    BY <1>1, <1>3
  <2> QED
    BY <1>1, <1>3, <1>4, <2>1, OneCallTypes, InterruptsKeep, <1>2 DEF ClaudeTypes
<1>6. OneCaller' /\ \A d \in Claude!Callers : CallerRules(d)'
  <2>1. \A d \in Claude!Callers : d # c => call[d].at = "idle"
    BY DeliversAlone DEF ClaudeInv, Claude!DeliverElsewhere
  <2>2. k = call'[c] => CallerRules(c)'
    BY <1>1, <1>3 DEF CallerRules, Launching
  <2> QED
    BY <1>1, <1>4, <2>1, <2>2, OneCallerMoves
<1>7. LoopRules'
  BY <1>1, <1>3 DEF ClaudeInv, LoopRules, Claude!Ended
<1> QED
  BY <1>2, <1>5, <1>6, <1>7, InterruptsKeep DEF ClaudeInv

LEMMA QuiesceStep ==
  ASSUME ~Overlap, ClaudeTypes, ClaudeInv, NEW g \in Grants, Claude!Quiesce(g)
  PROVE  ClaudeTypes' /\ ClaudeInv'
<1> USE ClaudeFacts
<1> DEFINE k == [Claude!Idle EXCEPT !.at = "quiesce", !.grant = g, !.on = s.query]
<1>1. /\ Interrupts /\ loop' = loop /\ policy' = policy /\ turns' = turns
      /\ call' = [Claude!Rejected EXCEPT !["recovery"] = k]
  BY DEF Claude!Quiesce, Claude!world, Interrupts
<1>2. \A d \in Claude!Callers : d # "recovery" => call[d].at = "idle"
  BY DEF Claude!Quiesce, Claude!Alone
<1>3. call["recovery"].at = "idle" /\ "recovery" \in Claude!Callers
  BY DEF Claude!Quiesce, Claude!Callers
<1>4. Claude!Rejected = call
  <2>1. \A d \in Claude!Callers : Claude!Rejected[d] = call[d]
    BY <1>2, <1>3, RejectedFacts
  <2>2. Claude!Rejected \in [Claude!Callers -> ClaudeCall] /\ call \in [Claude!Callers -> ClaudeCall]
    BY RejectedFacts DEF ClaudeTypes
  <2> QED
    BY <2>1, <2>2
<1>5. k \in ClaudeCall /\ k.at = "quiesce" /\ k.grant = g /\ k.on = s.query /\ k.turn = 0
  BY IdleIsACall DEF ClaudeCall, Points
<1>6. /\ s'.pending = {} /\ s'.turns = <<>> /\ s'.query = s.query /\ s'.bound = s.bound
      /\ Len(procs') = Len(procs)
      /\ \A p \in 1 .. Len(procs) : /\ procs'[p].fed = procs[p].fed /\ procs'[p].life = procs[p].life
                                    /\ procs'[p].closing = (p = s.query \/ procs[p].closing)
  BY <1>1, ClosedFacts, InterruptedFacts DEF Interrupts
<1>7. k \in ClaudeCall /\ CallShape(k, Len(procs'), Len(turns')) /\ call' = [call EXCEPT !["recovery"] = k]
  <2>1. call' = [call EXCEPT !["recovery"] = k]
    BY <1>1, <1>4
  <2> HIDE DEF k
  <2>2. CallShape(k, Len(procs'), Len(turns'))
    BY <1>1, <1>5, <1>6 DEF CallShape
  <2> QED
    BY <1>5, <2>1, <2>2
<1> HIDE DEF k
<1>8. ClaudeTypes'
  <2>1. Len(procs') \in Nat /\ Len(procs') >= Len(procs) /\ Len(turns') \in Nat /\ Len(turns') >= Len(turns)
    BY <1>1, <1>6
  <2> QED
    BY <1>1, <1>3, <1>6, <1>7, <2>1, OneCallTypes, InterruptsKeep DEF ClaudeTypes
<1>9. OneCaller' /\ \A d \in Claude!Callers : CallerRules(d)'
  <2>1. k = call'["recovery"] => CallerRules("recovery")'
    BY <1>1, <1>5, <1>6 DEF CallerRules, Launching
  <2> QED
    BY <1>2, <1>3, <1>7, <2>1, OneCallerMoves
<1>10. LoopRules'
  BY <1>1, <1>6 DEF ClaudeInv, LoopRules, Claude!Ended
<1> QED
  BY <1>1, <1>8, <1>9, <1>10, InterruptsKeep DEF ClaudeInv

\* Nothing of the session changes.
LEMMA UntouchedKeeps ==
  ASSUME ClaudeTypes, ClaudeInv, UNCHANGED <<s, db, call, loop, procs, turns>>, policy' \in Boundaries
  PROVE  ClaudeTypes' /\ ClaudeInv'
<1>1. s' = s /\ db' = db /\ call' = call /\ loop' = loop /\ procs' = procs /\ turns' = turns
  OBVIOUS
<1>2. ClaudeTypes'
  BY <1>1 DEF ClaudeTypes, CallShape
<1>3. \A c \in Claude!Callers : CallerRules(c)'
  BY <1>1 DEF ClaudeInv, CallerRules
<1>4. OneCaller' /\ LoopRules' /\ BoundaryIsKnown'
  BY <1>1 DEF ClaudeInv, OneCaller, LoopRules, BoundaryIsKnown, Claude!Ended
<1>5. TurnsAreOfTheGrant' /\ ConversationsAreSeparate' /\ OthersAreUnfed'
  BY <1>1 DEF ClaudeInv, TurnsAreOfTheGrant, ConversationsAreSeparate, OthersAreUnfed
<1> QED
  BY <1>2, <1>3, <1>4, <1>5 DEF ClaudeInv

LEMMA ResetsStep ==
  ASSUME ClaudeTypes, ClaudeInv, ~Claude!Continuing, NEW g \in Grants, NEW key \in Boundaries, NEW invalidates \in BOOLEAN,
         Claude!Release(g) \/ Claude!Prepare(g) \/ Claude!PolicyUpdate(key, invalidates)
  PROVE  ClaudeTypes' /\ ClaudeInv'
<1>1. policy \in Boundaries /\ g \in Grants \cup {None} /\ None \in Grants \cup {None}
  BY DEF ClaudeTypes
<1>2. policy' \in Boundaries
  BY <1>1 DEF Claude!Release, Claude!Prepare, Claude!PolicyUpdate, Claude!world
<1>3. \/ Claude!BeginReset(g) \/ Claude!BeginReset(None)
      \/ UNCHANGED <<s, db, call, loop, procs, turns>>
  BY DEF Claude!Release, Claude!Prepare, Claude!PolicyUpdate, Claude!NoReset
<1>4. CASE Claude!BeginReset(g)
  BY <1>1, <1>2, <1>4, BeginResetStep
<1>5. CASE Claude!BeginReset(None)
  <2>1. PICK h \in Grants \cup {None} : h = None
    BY <1>1
  <2> QED
    BY <1>2, <1>5, <2>1, BeginResetStep
<1>6. CASE UNCHANGED <<s, db, call, loop, procs, turns>>
  BY <1>2, <1>6, UntouchedKeeps
<1> QED
  BY <1>3, <1>4, <1>5, <1>6

NewProcess(id, resume) ==
    [ctx |-> id, box |-> policy, resume |-> resume, life |-> "starting",
     closing |-> FALSE, inbox |-> <<>>, work |-> <<>>, fed |-> {}]

LEMMA LaunchedFacts ==
  ASSUME ClaudeTypes, NEW id \in Nat, NEW resume \in BOOLEAN, procs' = Append(procs, NewProcess(id, resume))
  PROVE  /\ procs' \in Seq(Process) /\ Len(procs') = Len(procs) + 1 /\ DOMAIN procs' = 1 .. Len(procs) + 1
         /\ \A p \in 1 .. Len(procs) : procs'[p] = procs[p]
         /\ procs'[Len(procs) + 1] = NewProcess(id, resume)
<1>1. PICK P : P = Process
  OBVIOUS
<1>2. <<>> \in Seq(Positive)
  OBVIOUS
<1>3. NewProcess(id, resume) \in P
  BY <1>1, <1>2 DEF NewProcess, Process, ClaudeTypes
<1>4. procs \in Seq(P)
  BY <1>1 DEF ClaudeTypes
<1>5. PICK new : new = NewProcess(id, resume)
  OBVIOUS
<1>6. procs' = Append(procs, new) /\ new \in P
  BY <1>3, <1>5
<1>7. /\ procs' \in Seq(P) /\ Len(procs') = Len(procs) + 1 /\ DOMAIN procs' = 1 .. Len(procs) + 1
      /\ \A p \in 1 .. Len(procs) : procs'[p] = procs[p]
      /\ procs'[Len(procs) + 1] = new
  BY <1>4, <1>6
<1> QED
  BY <1>1, <1>5, <1>7

\* A process is launched for the session, whose own one, if any, has ended.
Launches(id, resume) ==
    /\ procs' = Append(procs, NewProcess(id, resume))
    /\ s'.query = Len(procs) + 1 /\ s'.bound = s.bound /\ s'.ctx = id /\ s'.pending = {} /\ s'.turns = <<>>
    /\ id = s.ctx \/ \A q \in 1 .. Len(procs) : procs[q].ctx # id
    /\ Claude!Ended(s.query)
    /\ turns' = turns /\ loop' = loop

LEMMA LaunchesKeep ==
  ASSUME ClaudeTypes, ClaudeInv, NEW id \in Nat, NEW resume \in BOOLEAN, Launches(id, resume)
  PROVE  /\ TurnsAreOfTheGrant' /\ ConversationsAreSeparate' /\ OthersAreUnfed' /\ LoopRules'
         /\ procs' \in Seq(Process) /\ turns' \in Seq(Grants)
         /\ \A t \in s'.pending : t <= Len(turns')
         /\ \A n \in DOMAIN s'.turns : s'.turns[n] <= Len(turns')
         /\ \A q \in DOMAIN procs' : /\ \A n \in DOMAIN procs'[q].inbox : procs'[q].inbox[n] <= Len(turns')
                                     /\ \A n \in DOMAIN procs'[q].work : procs'[q].work[n] <= Len(turns')
<1> USE ClaudeFacts
<1>1. /\ procs' \in Seq(Process) /\ Len(procs') = Len(procs) + 1 /\ DOMAIN procs' = 1 .. Len(procs) + 1
      /\ \A p \in 1 .. Len(procs) : procs'[p] = procs[p]
      /\ procs'[Len(procs) + 1] = NewProcess(id, resume)
  BY LaunchedFacts DEF Launches
<1>2. /\ s'.query = Len(procs) + 1 /\ s'.bound = s.bound /\ s'.ctx = id /\ s'.pending = {} /\ s'.turns = <<>>
      /\ DOMAIN s'.turns = {}
      /\ turns' = turns /\ loop' = loop
  BY DEF Launches
<1>3. \A q \in DOMAIN procs' : q \in 1 .. Len(procs) \/ q = Len(procs) + 1
  BY <1>1
<1>4. /\ procs'[Len(procs) + 1].fed = {} /\ procs'[Len(procs) + 1].ctx = id
      /\ DOMAIN procs'[Len(procs) + 1].inbox = {} /\ DOMAIN procs'[Len(procs) + 1].work = {}
  BY <1>1 DEF NewProcess
<1>5. \A q \in DOMAIN procs' :
          /\ \A n \in DOMAIN procs'[q].inbox : turns'[procs'[q].inbox[n]] \in procs'[q].fed
          /\ \A n \in DOMAIN procs'[q].work : turns'[procs'[q].work[n]] \in procs'[q].fed
          /\ \A n \in DOMAIN procs'[q].inbox : procs'[q].inbox[n] <= Len(turns')
          /\ \A n \in DOMAIN procs'[q].work : procs'[q].work[n] <= Len(turns')
  BY <1>1, <1>2, <1>3, <1>4 DEF ClaudeInv, TurnsAreOfTheGrant, ClaudeTypes
<1>6. TurnsAreOfTheGrant'
  BY <1>2, <1>5 DEF TurnsAreOfTheGrant
<1>7. ConversationsAreSeparate'
  <2>1. ASSUME NEW p \in DOMAIN procs', NEW q \in DOMAIN procs', procs'[p].ctx = procs'[q].ctx,
               NEW g \in procs'[p].fed, NEW h \in procs'[q].fed
        PROVE  g = h
    <3>1. p \in 1 .. Len(procs) /\ q \in 1 .. Len(procs)
      BY <1>3, <1>4, <2>1
    <3> QED
      BY <1>1, <2>1, <3>1 DEF ClaudeInv, ConversationsAreSeparate
  <2>2. ASSUME NEW q \in DOMAIN procs', procs'[q].ctx = s'.ctx  PROVE procs'[q].fed \subseteq {s'.bound}
    <3>1. CASE q = Len(procs) + 1
      BY <1>4, <3>1
    <3>2. CASE q \in 1 .. Len(procs)
      <4>1. procs[q].ctx = s.ctx
        BY <1>1, <1>2, <2>2, <3>2 DEF Launches
      <4> QED
        BY <1>1, <1>2, <3>2, <4>1 DEF ClaudeInv, ConversationsAreSeparate
    <3> QED
      BY <1>3, <3>1, <3>2
  <2>3. procs'[s'.query].ctx = s'.ctx
    BY <1>2, <1>4
  <2> QED
    BY <2>1, <2>2, <2>3 DEF ConversationsAreSeparate
<1>8. OthersAreUnfed'
  <2>1. ASSUME NEW q \in 1 .. Len(procs), procs[q].life # "ended"  PROVE procs[q].fed = {}
    BY <2>1 DEF ClaudeInv, OthersAreUnfed, Launches, Claude!Ended
  <2> QED
    BY <1>1, <1>2, <1>3, <2>1 DEF OthersAreUnfed
<1>9. LoopRules'
  <2>1. loop.at = "drain" => Claude!Ended(loop.on)
    BY DEF ClaudeInv, LoopRules, Launches
  <2>2. Claude!Ended(loop.on) => Claude!Ended(loop.on)'
    BY <1>1, <1>2 DEF Claude!Ended
  <2> QED
    BY <1>2, <1>4, <2>1, <2>2 DEF LoopRules
<1> QED
  BY <1>1, <1>2, <1>5, <1>6, <1>7, <1>8, <1>9 DEF ClaudeTypes

\* The session's process is not in its row.
LEMMA WithQuery ==
  ASSUME NEW sess \in ClaudeS, NEW n \in Nat
  PROVE  LET new == [sess EXCEPT !.query = n]
         IN /\ new \in ClaudeS /\ Claude!Row(new) = Claude!Row(sess)
            /\ new.query = n /\ new.bound = sess.bound /\ new.ctx = sess.ctx
            /\ new.pending = sess.pending /\ new.turns = sess.turns /\ new.sandbox = sess.sandbox
<1> DEFINE new == [sess EXCEPT !.query = n]
<1>1. new \in ClaudeS
  BY DEF ClaudeS
<1>2. /\ new.query = n /\ new.bound = sess.bound /\ new.ctx = sess.ctx /\ new.state = sess.state /\ new.init = sess.init
      /\ new.pending = sess.pending /\ new.turns = sess.turns /\ new.sandbox = sess.sandbox
  BY DEF ClaudeS
<1>3. Claude!Row(new) = Claude!Row(sess)
  BY <1>2 DEF Claude!Row
<1> QED
  BY <1>1, <1>2, <1>3

LEMMA QueryIsSet ==
  ASSUME NEW n \in Nat, s \in ClaudeS, s' = [s EXCEPT !.query = n]
  PROVE  /\ s' \in ClaudeS /\ Claude!Row(s') = Claude!Row(s) /\ s'.query = n /\ s'.bound = s.bound
         /\ s'.ctx = s.ctx /\ s'.pending = s.pending /\ s'.turns = s.turns /\ s'.sandbox = s.sandbox
BY WithQuery

LEMMA DeliverColdStep ==
  ASSUME ~Overlap, ClaudeTypes, ClaudeInv, NEW c \in Claude!Callers, NEW g \in Grants, Claude!DeliverCold(c, g)
  PROVE  ClaudeTypes' /\ ClaudeInv'
<1> USE ClaudeFacts
<1> DEFINE k == [at |-> "launch", grant |-> g, on |-> Len(procs'), turn |-> 0]
<1>1. /\ s' = [s EXCEPT !.query = Len(procs')] /\ procs' = Append(procs, NewProcess(s.ctx, s.init))
      /\ db' = db /\ turns' = turns /\ loop' = loop /\ policy' = policy /\ call' = [call EXCEPT ![c] = k]
      /\ s.query = 0 /\ s.bound = g /\ s.pending = {} /\ s.turns = <<>>
  BY DEF Claude!DeliverCold, Claude!Wait, Claude!world, Claude!Admits, Claude!Launched, NewProcess
<1>2. s.init \in BOOLEAN /\ s \in ClaudeS
  BY DEF ClaudeS
<1>3. Len(procs') = Len(procs) + 1 /\ procs'[Len(procs')] = NewProcess(s.ctx, s.init)
  BY <1>1, <1>2, LaunchedFacts
<1>4. /\ s' \in ClaudeS /\ Claude!Row(s') = Claude!Row(s) /\ s'.query = Len(procs) + 1 /\ s'.bound = g
      /\ s'.ctx = s.ctx /\ s'.pending = {} /\ s'.turns = <<>>
  <2>1. PICK n \in Nat : n = Len(procs')
    BY <1>3
  <2>2. s' = [s EXCEPT !.query = n] /\ n = Len(procs) + 1
    BY <1>1, <1>3, <2>1
  <2>3. /\ s' \in ClaudeS /\ Claude!Row(s') = Claude!Row(s) /\ s'.query = n /\ s'.bound = s.bound
        /\ s'.ctx = s.ctx /\ s'.pending = s.pending /\ s'.turns = s.turns
    BY ONLY <1>2, <2>1, <2>2, QueryIsSet
  <2> QED
    BY <1>1, <2>2, <2>3
<1>5. Launches(s.ctx, s.init)
  BY <1>1, <1>4 DEF Launches, Claude!Ended
<1>6. k \in ClaudeCall /\ CallShape(k, Len(procs'), Len(turns'))
  BY <1>1, <1>3 DEF ClaudeCall, CallShape, Points
<1>7. ClaudeTypes'
  <2>1. Len(procs') \in Nat /\ Len(procs') >= Len(procs) /\ Len(turns') \in Nat /\ Len(turns') >= Len(turns)
    BY <1>1, <1>3
  <2>2. loop'.on <= Len(procs')
    BY <1>1, <1>3
  <2>3. db' = Claude!Row(s')
    BY <1>1, <1>4 DEF ClaudeTypes
  <2>4. call' \in [Claude!Callers -> ClaudeCall] /\ \A d \in Claude!Callers : CallShape(call'[d], Len(procs'), Len(turns'))
    BY <1>1, <1>6, <2>1, OneCallTypes
  <2>5. s'.query <= Len(procs') /\ loop' = loop /\ policy' = policy
    BY <1>1, <1>3, <1>4
  <2> QED
    BY <1>2, <1>4, <1>5, <2>2, <2>3, <2>4, <2>5, LaunchesKeep DEF ClaudeTypes
<1>8. OneCaller' /\ \A d \in Claude!Callers : CallerRules(d)'
  <2>1. \A d \in Claude!Callers : d # c => call[d].at = "idle"
    BY DeliversAlone DEF ClaudeInv, Claude!DeliverCold
  <2>2. k = call'[c] => CallerRules(c)'
    BY <1>1, <1>3, <1>4 DEF CallerRules, Launching, NewProcess
  <2> QED
    BY <1>1, <1>6, <2>1, <2>2, OneCallerMoves
<1>9. BoundaryIsKnown'
  <2>1. call'[c] = k
    BY <1>1 DEF ClaudeTypes
  <2> QED
    BY <2>1 DEF BoundaryIsKnown, Launching
<1> QED
  BY <1>2, <1>5, <1>7, <1>8, <1>9, LaunchesKeep DEF ClaudeInv

LEMMA RelaunchStep ==
  ASSUME ClaudeTypes, ClaudeInv, NEW c \in Claude!Callers, Claude!Relaunch(c)
  PROVE  ClaudeTypes' /\ ClaudeInv'
<1> USE ClaudeFacts
<1> DEFINE g == call[c].grant
           k == [at |-> "relaunch", grant |-> g, on |-> Len(procs'), turn |-> 0]
           cold == [s EXCEPT !.ctx = Claude!NewId, !.init = FALSE, !.state = "idle"]
<1>1. /\ s' = [cold EXCEPT !.query = Len(procs')] /\ procs' = Append(procs, NewProcess(Claude!NewId, FALSE))
      /\ db' = [db EXCEPT !.ctx = Claude!NewId, !.init = FALSE, !.state = "idle"]
      /\ turns' = turns /\ loop' = loop /\ policy' = policy /\ call' = [call EXCEPT ![c] = k]
  <2>1. cold.ctx = Claude!NewId /\ cold.init = FALSE
    BY DEF ClaudeS
  <2> QED
    BY <2>1 DEF Claude!Relaunch, Claude!Wait, Claude!world, Claude!Launched, NewProcess
<1>2. /\ call[c].at = "drain" /\ Claude!Ended(call[c].on) /\ g \in Grants
      /\ s.pending = {} /\ s.turns = <<>> /\ s.query \in {call[c].on, 0} /\ s.bound \in {None, g}
  <2>1. call[c].at = "drain" /\ Claude!MayGoOn(c)
    BY DEF Claude!Relaunch
  <2>2. Claude!Ended(call[c].on)
    <3>1. Claude!Ended(Claude!Awaited(c))
      BY <2>1 DEF Claude!MayGoOn
    <3> QED
      BY <3>1 DEF Claude!Awaited, Claude!Callers
  <2> QED
    BY <2>1, <2>2 DEF ClaudeInv, CallerRules, ClaudeTypes, CallShape
<1>3. Len(procs') = Len(procs) + 1 /\ procs'[Len(procs')] = NewProcess(Claude!NewId, FALSE)
  BY <1>1, NewIdIsNew, LaunchedFacts
<1>4. /\ s' \in ClaudeS /\ db' = Claude!Row(s') /\ s'.query = Len(procs) + 1 /\ s'.bound = s.bound
      /\ s'.ctx = Claude!NewId /\ s'.pending = {} /\ s'.turns = <<>>
  <2>1. cold \in ClaudeS /\ cold.bound = s.bound /\ cold.ctx = Claude!NewId /\ cold.pending = {} /\ cold.turns = <<>>
        /\ cold.init = FALSE /\ cold.state = "idle"
    BY <1>2, NewIdIsNew DEF ClaudeS, Claude!States
  <2>2. db' = Claude!Row(cold)
    BY <1>1, <2>1 DEF Claude!Row, ClaudeTypes
  <2>3. Len(procs') \in Nat
    BY <1>3
  <2>4. PICK cold0 \in ClaudeS : cold0 = cold
    BY <2>1
  <2>5. PICK n \in Nat : n = Len(procs')
    BY <2>3
  <2> HIDE DEF cold
  <2>6. s' = [cold0 EXCEPT !.query = n]
    BY ONLY <1>1, <2>4, <2>5
  <2>7. /\ [cold0 EXCEPT !.query = n] \in ClaudeS /\ Claude!Row([cold0 EXCEPT !.query = n]) = Claude!Row(cold0)
        /\ [cold0 EXCEPT !.query = n].query = n /\ [cold0 EXCEPT !.query = n].bound = cold0.bound
        /\ [cold0 EXCEPT !.query = n].ctx = cold0.ctx /\ [cold0 EXCEPT !.query = n].pending = cold0.pending
        /\ [cold0 EXCEPT !.query = n].turns = cold0.turns
    BY ONLY WithQuery, n \in Nat, cold0 \in ClaudeS
  <2> QED
    BY ONLY <2>1, <2>2, <2>4, <2>5, <2>6, <2>7, <1>3
<1>5. Launches(Claude!NewId, FALSE)
  <2>1. Claude!Ended(s.query)
    BY <1>2 DEF Claude!Ended
  <2> QED
    BY <1>1, <1>4, <2>1, NewIdIsNew DEF Launches
<1>6. k \in ClaudeCall /\ CallShape(k, Len(procs'), Len(turns'))
  BY <1>1, <1>2, <1>3 DEF ClaudeCall, CallShape, Points
<1>7. ClaudeTypes'
  <2>1. Len(procs') \in Nat /\ Len(procs') >= Len(procs) /\ Len(turns') \in Nat /\ Len(turns') >= Len(turns)
    BY <1>1, <1>3
  <2>2. loop'.on <= Len(procs')
    BY <1>1, <1>3
  <2>4. call' \in [Claude!Callers -> ClaudeCall] /\ \A d \in Claude!Callers : CallShape(call'[d], Len(procs'), Len(turns'))
    BY <1>1, <1>6, <2>1, OneCallTypes
  <2>5. s'.query <= Len(procs') /\ loop' = loop /\ policy' = policy
    BY <1>1, <1>3, <1>4
  <2>6. Claude!NewId \in Nat /\ FALSE \in BOOLEAN
    BY NewIdIsNew
  <2> QED
    BY <1>4, <1>5, <2>2, <2>4, <2>5, <2>6, LaunchesKeep DEF ClaudeTypes
<1>8. OneCaller' /\ \A d \in Claude!Callers : CallerRules(d)'
  <2>1. \A d \in Claude!Callers : d # c => call[d].at = "idle"
    BY <1>2 DEF ClaudeInv, OneCaller
  <2>2. k = call'[c] => CallerRules(c)'
    BY <1>1, <1>2, <1>3, <1>4 DEF CallerRules, Launching, NewProcess
  <2> QED
    BY <1>1, <1>6, <2>1, <2>2, OneCallerMoves
<1>9. BoundaryIsKnown'
  <2>1. call'[c] = k
    BY <1>1 DEF ClaudeTypes
  <2> QED
    BY <2>1 DEF BoundaryIsKnown, Launching
<1> QED
  BY <1>5, <1>7, <1>8, <1>9, LaunchesKeep, NewIdIsNew DEF ClaudeInv

\* Only a call changes, to k.
LEMMA OnlyTheCall ==
  ASSUME ClaudeTypes, ClaudeInv, UNCHANGED <<s, db, procs, turns, loop, policy>>,
         NEW c \in Claude!Callers, NEW k \in ClaudeCall, call' = [call EXCEPT ![c] = k],
         CallShape(k, Len(procs), Len(turns)), k = call'[c] => CallerRules(c)', call[c].at # "idle",
         BoundaryIsKnown'
  PROVE  ClaudeTypes' /\ ClaudeInv'
<1>1. s' = s /\ db' = db /\ loop' = loop /\ procs' = procs /\ turns' = turns /\ policy' = policy
  OBVIOUS
<1>2. Len(procs') \in Nat /\ Len(procs') >= Len(procs) /\ Len(turns') \in Nat /\ Len(turns') >= Len(turns)
  BY <1>1, ClaudeFacts
<1>3. call' \in [Claude!Callers -> ClaudeCall] /\ \A d \in Claude!Callers : CallShape(call'[d], Len(procs), Len(turns))
  BY <1>1, <1>2, OneCallTypes
<1>4. ClaudeTypes'
  BY <1>1, <1>3 DEF ClaudeTypes, CallShape
<1>5. OneCaller' /\ \A d \in Claude!Callers : CallerRules(d)'
  <2>1. \A d \in Claude!Callers : d # c => call[d].at = "idle"
    BY DEF ClaudeInv, OneCaller
  <2> QED
    BY <2>1, OneCallerMoves
<1>6. LoopRules' /\ OthersAreUnfed'
  BY <1>1 DEF ClaudeInv, LoopRules, OthersAreUnfed, Claude!Ended
<1>7. TurnsAreOfTheGrant' /\ ConversationsAreSeparate'
  BY <1>1 DEF ClaudeInv, TurnsAreOfTheGrant, ConversationsAreSeparate
<1> QED
  BY <1>4, <1>5, <1>6, <1>7 DEF ClaudeInv

LEMMA RebuildStep ==
  ASSUME ClaudeTypes, ClaudeInv, Claude!Rebuild
  PROVE  ClaudeTypes' /\ ClaudeInv'
<1> USE ClaudeFacts
<1>1. call["recovery"].at = "rebuild" /\ "recovery" \in Claude!Callers /\ s.pending = {} /\ s.turns = <<>>
      /\ db' = db /\ turns' = turns /\ loop' = loop /\ policy' = policy
  BY DEF Claude!Rebuild, Claude!Callers, ClaudeInv, CallerRules, Claude!world
<1>2. CASE UNCHANGED <<s, procs>> /\ Claude!Return("recovery")
  <2>1. s' = s /\ procs' = procs /\ call' = [call EXCEPT !["recovery"] = Claude!Idle]
    BY <1>2 DEF Claude!Return
  <2>2. call'["recovery"] = Claude!Idle /\ \A d \in Claude!Callers : d # "recovery" => call'[d] = call[d]
    BY <1>1, <2>1 DEF ClaudeTypes
  <2>3. CallShape(Claude!Idle, Len(procs), Len(turns)) /\ CallerRules("recovery")'
    BY <2>2, IdleIsACall DEF CallShape, CallerRules, Launching
  <2>4. BoundaryIsKnown'
    BY <1>1, <2>1, <2>2, IdleIsACall DEF ClaudeInv, BoundaryIsKnown, Launching
  <2> QED
    BY <1>1, <2>1, <2>3, <2>4, IdleIsACall, OnlyTheCall
<1>3. CASE /\ s.query = 0 /\ s.bound = call["recovery"].grant
           /\ procs' = Claude!Launched(s) /\ s' = [s EXCEPT !.query = Len(procs')]
           /\ Claude!Wait("recovery", "rebuild_launch", s.bound, Len(procs'))
  <2> DEFINE k == [at |-> "rebuild_launch", grant |-> s.bound, on |-> Len(procs'), turn |-> 0]
  <2>1. /\ procs' = Append(procs, NewProcess(s.ctx, s.init)) /\ call' = [call EXCEPT !["recovery"] = k]
    BY <1>3 DEF Claude!Launched, NewProcess, Claude!Wait
  <2>2. s.init \in BOOLEAN /\ s \in ClaudeS /\ s.bound \in Grants
    BY <1>1, <1>3 DEF ClaudeS, ClaudeTypes, CallShape
  <2>3. Len(procs') = Len(procs) + 1 /\ procs'[Len(procs')] = NewProcess(s.ctx, s.init)
    BY <2>1, <2>2, LaunchedFacts
  <2>4. /\ s' \in ClaudeS /\ Claude!Row(s') = Claude!Row(s) /\ s'.query = Len(procs) + 1 /\ s'.bound = s.bound
        /\ s'.ctx = s.ctx /\ s'.pending = {} /\ s'.turns = <<>>
    <3>1. PICK n \in Nat : n = Len(procs')
      BY <2>3
    <3>2. s' = [s EXCEPT !.query = n] /\ n = Len(procs) + 1
      BY <1>3, <2>3, <3>1
    <3>3. /\ s' \in ClaudeS /\ Claude!Row(s') = Claude!Row(s) /\ s'.query = n /\ s'.bound = s.bound
          /\ s'.ctx = s.ctx /\ s'.pending = s.pending /\ s'.turns = s.turns
      BY ONLY <2>2, <3>1, <3>2, QueryIsSet
    <3> QED
      BY <1>1, <3>2, <3>3
  <2>5. Launches(s.ctx, s.init)
    BY <1>1, <1>3, <2>1, <2>4 DEF Launches, Claude!Ended
  <2>6. k \in ClaudeCall /\ CallShape(k, Len(procs'), Len(turns'))
    BY <1>1, <2>2, <2>3 DEF ClaudeCall, CallShape, Points
  <2>7. ClaudeTypes'
    <3>1. Len(procs') \in Nat /\ Len(procs') >= Len(procs) /\ Len(turns') \in Nat /\ Len(turns') >= Len(turns)
      BY <1>1, <2>3
    <3>2. loop'.on <= Len(procs')
      BY <1>1, <2>3
    <3>3. db' = Claude!Row(s')
      BY <1>1, <2>4 DEF ClaudeTypes
    <3>4. call' \in [Claude!Callers -> ClaudeCall] /\ \A d \in Claude!Callers : CallShape(call'[d], Len(procs'), Len(turns'))
      BY <1>1, <2>1, <2>6, <3>1, OneCallTypes
    <3>5. s'.query <= Len(procs') /\ loop' = loop /\ policy' = policy
      BY <1>1, <2>3, <2>4
    <3> QED
      BY <2>2, <2>4, <2>5, <3>2, <3>3, <3>4, <3>5, LaunchesKeep DEF ClaudeTypes
  <2>8. OneCaller' /\ \A d \in Claude!Callers : CallerRules(d)'
    <3>1. \A d \in Claude!Callers : d # "recovery" => call[d].at = "idle"
      BY <1>1 DEF ClaudeInv, OneCaller
    <3>2. k = call'["recovery"] => CallerRules("recovery")'
      BY <2>3, <2>4 DEF CallerRules, Launching, NewProcess
    <3> QED
      BY <1>1, <2>1, <2>6, <3>1, <3>2, OneCallerMoves
  <2>9. BoundaryIsKnown'
    <3>1. call'["recovery"] = k
      BY <1>1, <2>1 DEF ClaudeTypes
    <3> QED
      BY <1>1, <3>1 DEF BoundaryIsKnown, Launching
  <2> QED
    BY <2>2, <2>5, <2>7, <2>8, <2>9, LaunchesKeep DEF ClaudeInv
<1> QED
  BY <1>2, <1>3 DEF Claude!Rebuild

LEMMA ColdFacts ==
  ASSUME NEW id \in Nat, NEW b \in Grants \cup {None}
  PROVE  /\ Claude!Cold(id, b) \in ClaudeS
         /\ Claude!Cold(id, b).query = 0 /\ Claude!Cold(id, b).bound = b /\ Claude!Cold(id, b).ctx = id
         /\ Claude!Cold(id, b).pending = {} /\ Claude!Cold(id, b).turns = <<>>
         /\ Claude!Cold(id, b).init = FALSE /\ Claude!Cold(id, b).state = "idle"
<1>1. <<>> \in Seq(Positive)
  OBVIOUS
<1> QED
  BY <1>1 DEF Claude!Cold, ClaudeS, Claude!States

\* The session gets a new conversation; a process of it that still runs has nothing.
LEMMA ColdKeeps ==
  ASSUME ClaudeTypes, ClaudeInv, NEW b \in Grants \cup {None}, s' = Claude!Cold(Claude!NewId, b),
         Claude!Ended(s.query) \/ procs[s.query].fed = {}, UNCHANGED <<procs, turns>>
  PROVE  /\ TurnsAreOfTheGrant' /\ ConversationsAreSeparate' /\ OthersAreUnfed' /\ BoundaryIsKnown'
         /\ s' \in ClaudeS /\ s'.query = 0 /\ s'.bound = b /\ s'.pending = {} /\ s'.turns = <<>>
         /\ s'.ctx = Claude!NewId /\ s'.init = FALSE /\ s'.state = "idle"
         /\ \A n \in DOMAIN s'.turns : s'.turns[n] <= Len(turns')
<1> USE ClaudeFacts
<1>1. /\ s' \in ClaudeS /\ s'.query = 0 /\ s'.bound = b /\ s'.pending = {} /\ s'.turns = <<>>
      /\ s'.ctx = Claude!NewId /\ s'.init = FALSE /\ s'.state = "idle"
  <2>1. PICK id \in Nat : id = Claude!NewId
    BY NewIdIsNew
  <2>2. s' = Claude!Cold(id, b)
    BY <2>1
  <2>3. PICK w : w = Claude!Cold(id, b)
    OBVIOUS
  <2>4. /\ w \in ClaudeS
        /\ w.query = 0 /\ w.bound = b /\ w.ctx = id
        /\ w.pending = {} /\ w.turns = <<>>
        /\ w.init = FALSE /\ w.state = "idle"
    <3>1. /\ Claude!Cold(id, b) \in ClaudeS
          /\ Claude!Cold(id, b).query = 0 /\ Claude!Cold(id, b).bound = b /\ Claude!Cold(id, b).ctx = id
          /\ Claude!Cold(id, b).pending = {} /\ Claude!Cold(id, b).turns = <<>>
          /\ Claude!Cold(id, b).init = FALSE /\ Claude!Cold(id, b).state = "idle"
      BY <2>1, ColdFacts, Zenon
    <3> QED
      BY ONLY <2>3, <3>1
  <2>5. s' = w
    BY <2>2, <2>3
  <2> QED
    BY <2>1, <2>4, <2>5, Zenon
<1>2. procs' = procs /\ turns' = turns /\ DOMAIN s'.turns = {}
  BY <1>1
<1>3. TurnsAreOfTheGrant'
  BY <1>1, <1>2 DEF ClaudeInv, TurnsAreOfTheGrant
<1>4. ConversationsAreSeparate'
  BY <1>1, <1>2, NewIdIsNew DEF ClaudeInv, ConversationsAreSeparate
<1>5. OthersAreUnfed'
  BY <1>1, <1>2 DEF ClaudeInv, OthersAreUnfed, Claude!Ended
<1>6. BoundaryIsKnown'
  BY <1>1 DEF BoundaryIsKnown
<1> QED
  BY <1>1, <1>2, <1>3, <1>4, <1>5, <1>6

LEMMA FinishResetStep ==
  ASSUME ClaudeTypes, ClaudeInv, Claude!FinishReset
  PROVE  ClaudeTypes' /\ ClaudeInv'
<1> USE ClaudeFacts
<1>1. /\ s' = Claude!Cold(Claude!NewId, None) /\ db' = Claude!Row(s') /\ loop' = Claude!NoLoop
      /\ call' = call /\ procs' = procs /\ turns' = turns /\ policy' = policy
  BY DEF Claude!FinishReset, Claude!AfterReset
<1>2. Claude!Ended(loop.on) /\ loop.at = "drain"
  BY DEF Claude!FinishReset, Claude!MayGoOn, Claude!Awaited
<1>3. Claude!Ended(s.query) \/ procs[s.query].fed = {}
  BY <1>2 DEF ClaudeInv, LoopRules, Claude!Ended
<1>4. PICK b \in Grants \cup {None} : b = None
  OBVIOUS
<1>5. s' = Claude!Cold(Claude!NewId, b)
  BY <1>1, <1>4
<1>6. /\ s' \in ClaudeS /\ s'.query = 0 /\ s'.bound = None /\ s'.pending = {} /\ s'.turns = <<>>
      /\ TurnsAreOfTheGrant' /\ ConversationsAreSeparate' /\ OthersAreUnfed' /\ BoundaryIsKnown'
      /\ \A n \in DOMAIN s'.turns : s'.turns[n] <= Len(turns')
  BY <1>1, <1>3, <1>4, <1>5, ColdKeeps
<1>7. loop' \in [at : {"idle", "drain"}, grant : Grants \cup {None}, on : Nat] /\ loop'.on = 0 /\ loop'.at = "idle"
  BY <1>1 DEF Claude!NoLoop
<1>8. ClaudeTypes'
  BY <1>1, <1>6, <1>7 DEF ClaudeTypes
<1>9. \A c \in Claude!Callers : CallerRules(c)'
  BY <1>1, <1>6, <1>7 DEF ClaudeInv, CallerRules
<1>10. OneCaller' /\ LoopRules'
  BY <1>1, <1>7 DEF ClaudeInv, OneCaller, LoopRules
<1> QED
  BY <1>6, <1>8, <1>9, <1>10 DEF ClaudeInv

LEMMA FinishQuiesceStep ==
  ASSUME ClaudeTypes, ClaudeInv, Claude!FinishQuiesce
  PROVE  ClaudeTypes' /\ ClaudeInv'
<1> USE ClaudeFacts
<1> DEFINE g == call["recovery"].grant
           k == [at |-> "rebuild", grant |-> g, on |-> 0, turn |-> 0]
<1>1. /\ s' = Claude!Cold(Claude!NewId, s.bound) /\ call' = [call EXCEPT !["recovery"] = k]
      /\ db' = [db EXCEPT !.ctx = Claude!NewId, !.init = FALSE, !.state = "idle"]
      /\ loop' = loop /\ procs' = procs /\ turns' = turns /\ policy' = policy
  BY DEF Claude!FinishQuiesce, Claude!Wait, Claude!world
<1>2. call["recovery"].at = "quiesce" /\ "recovery" \in Claude!Callers /\ g \in Grants
  BY DEF Claude!FinishQuiesce, Claude!Callers, ClaudeTypes, CallShape
<1>3. Claude!Ended(call["recovery"].on)
  <2>1. Claude!Ended(Claude!Awaited("recovery"))
    BY DEF Claude!FinishQuiesce, Claude!MayGoOn
  <2> QED
    BY <2>1 DEF Claude!Awaited
<1>4. Claude!Ended(s.query)
  BY <1>2, <1>3 DEF ClaudeInv, CallerRules, Claude!Ended
<1>5. PICK b \in Grants \cup {None} : b = s.bound
  OBVIOUS
<1>6. s' = Claude!Cold(Claude!NewId, b)
  BY <1>1, <1>5
<1>7. /\ s' \in ClaudeS /\ s'.query = 0 /\ s'.bound = s.bound /\ s'.pending = {} /\ s'.turns = <<>>
      /\ s'.ctx = Claude!NewId /\ s'.init = FALSE /\ s'.state = "idle"
      /\ TurnsAreOfTheGrant' /\ ConversationsAreSeparate' /\ OthersAreUnfed' /\ BoundaryIsKnown'
      /\ \A n \in DOMAIN s'.turns : s'.turns[n] <= Len(turns')
  BY <1>1, <1>4, <1>5, <1>6, ColdKeeps
<1>8. k \in ClaudeCall /\ CallShape(k, Len(procs'), Len(turns'))
  BY <1>1, <1>2 DEF ClaudeCall, CallShape, Points
<1>9. ClaudeTypes'
  <2>1. Len(procs') \in Nat /\ Len(procs') >= Len(procs) /\ Len(turns') \in Nat /\ Len(turns') >= Len(turns)
    BY <1>1
  <2>2. call' \in [Claude!Callers -> ClaudeCall] /\ \A d \in Claude!Callers : CallShape(call'[d], Len(procs'), Len(turns'))
    BY <1>1, <1>2, <1>8, <2>1, OneCallTypes
  <2>3. db' = Claude!Row(s')
    BY <1>1, <1>7 DEF ClaudeTypes, Claude!Row
  <2> QED
    BY <1>1, <1>7, <2>2, <2>3 DEF ClaudeTypes
<1>10. OneCaller' /\ \A d \in Claude!Callers : CallerRules(d)'
  <2>1. \A d \in Claude!Callers : d # "recovery" => call[d].at = "idle"
    BY <1>2 DEF ClaudeInv, OneCaller
  <2>2. k = call'["recovery"] => CallerRules("recovery")'
    BY <1>7 DEF CallerRules, Launching
  <2> QED
    BY <1>1, <1>2, <1>8, <2>1, <2>2, OneCallerMoves
<1>11. LoopRules'
  BY <1>1, <1>4, <1>7 DEF ClaudeInv, LoopRules, Claude!Ended
<1> QED
  BY <1>7, <1>9, <1>10, <1>11 DEF ClaudeInv

\* A caller returns, and leaves the turns it pushed to whatever becomes of them.
LEMMA LaunchFailsStep ==
  ASSUME ClaudeTypes, ClaudeInv, NEW c \in Claude!Callers, Claude!LaunchFails(c)
  PROVE  ClaudeTypes' /\ ClaudeInv'
<1> USE ClaudeFacts
<1>1. /\ call' = [call EXCEPT ![c] = Claude!Idle] /\ call[c].at \in Launching
      /\ procs[call[c].on].life = "ended" \/ procs[call[c].on].closing
      /\ db' = db /\ loop' = loop /\ procs' = procs /\ turns' = turns /\ policy' = policy
      /\ s' = s \/ s' = [s EXCEPT !.resetting = FALSE]
  BY DEF Claude!LaunchFails, Claude!Return, Claude!world, Launching
<1>2. /\ s' \in ClaudeS /\ s'.query = s.query /\ s'.bound = s.bound /\ s'.ctx = s.ctx /\ s'.sandbox = s.sandbox
      /\ s'.pending = s.pending /\ s'.turns = s.turns /\ Claude!Row(s') = Claude!Row(s)
  BY <1>1 DEF ClaudeS, Claude!Row
<1>3. CallShape(Claude!Idle, Len(procs'), Len(turns')) /\ Claude!Idle \in ClaudeCall
  BY <1>1, IdleIsACall DEF CallShape
<1>4. call' \in [Claude!Callers -> ClaudeCall] /\ \A d \in Claude!Callers : CallShape(call'[d], Len(procs'), Len(turns'))
  <2>1. Len(procs') \in Nat /\ Len(procs') >= Len(procs) /\ Len(turns') \in Nat /\ Len(turns') >= Len(turns)
    BY <1>1
  <2> QED
    BY <1>1, <1>3, <2>1, OneCallTypes
<1>5. ClaudeTypes'
  BY <1>1, <1>2, <1>4 DEF ClaudeTypes
<1>6. OneCaller' /\ \A d \in Claude!Callers : CallerRules(d)'
  <2>1. \A d \in Claude!Callers : d # c => call[d].at = "idle"
    BY <1>1 DEF ClaudeInv, OneCaller, Launching
  <2>2. Claude!Idle = call'[c] => CallerRules(c)'
    BY IdleIsACall DEF CallerRules, Launching
  <2> QED
    BY <1>1, <1>3, <2>1, <2>2, OneCallerMoves
<1>7. BoundaryIsKnown'
  BY <1>1, <1>2 DEF ClaudeInv, CallerRules, BoundaryIsKnown
<1>8. TurnsAreOfTheGrant' /\ ConversationsAreSeparate'
  BY <1>1, <1>2 DEF ClaudeInv, TurnsAreOfTheGrant, ConversationsAreSeparate
<1>9. OthersAreUnfed' /\ LoopRules'
  BY <1>1, <1>2 DEF ClaudeInv, OthersAreUnfed, LoopRules, Claude!Ended
<1> QED
  BY <1>5, <1>6, <1>7, <1>8, <1>9 DEF ClaudeInv

LEMMA AckTimeoutStep ==
  ASSUME ClaudeTypes, ClaudeInv, NEW c \in Claude!Callers, Claude!AckTimeout(c)
  PROVE  ClaudeTypes' /\ ClaudeInv'
<1> USE ClaudeFacts
<1>1. /\ call' = [call EXCEPT ![c] = Claude!Idle] /\ call[c].at = "ack"
      /\ db' = db /\ loop' = loop /\ procs' = procs /\ turns' = turns /\ policy' = policy
      /\ s' = [s EXCEPT !.pending = s.pending \ {call[c].turn}, !.accepting = FALSE]
  BY DEF Claude!AckTimeout, Claude!Return, Claude!world
<1>2. /\ s' \in ClaudeS /\ s'.query = s.query /\ s'.bound = s.bound /\ s'.ctx = s.ctx /\ s'.sandbox = s.sandbox
      /\ s'.pending \subseteq s.pending /\ s'.turns = s.turns /\ Claude!Row(s') = Claude!Row(s)
  BY <1>1 DEF ClaudeS, Claude!Row
<1>3. CallShape(Claude!Idle, Len(procs'), Len(turns')) /\ Claude!Idle \in ClaudeCall
  BY <1>1, IdleIsACall DEF CallShape
<1>4. /\ call' \in [Claude!Callers -> ClaudeCall] /\ call'[c] = Claude!Idle
      /\ \A d \in Claude!Callers : CallShape(call'[d], Len(procs'), Len(turns'))
      /\ \A d \in Claude!Callers : d # c => call'[d] = call[d]
  <2>1. Len(procs') \in Nat /\ Len(procs') >= Len(procs) /\ Len(turns') \in Nat /\ Len(turns') >= Len(turns)
    BY <1>1
  <2> QED
    BY <1>1, <1>3, <2>1, OneCallTypes
<1>5. ClaudeTypes'
  BY <1>1, <1>2, <1>4 DEF ClaudeTypes
<1>6. OneCaller' /\ \A d \in Claude!Callers : CallerRules(d)'
  <2>1. \A d \in Claude!Callers : d # c => call[d].at = "idle"
    BY <1>1 DEF ClaudeInv, OneCaller, Launching
  <2>2. Claude!Idle = call'[c] => CallerRules(c)'
    BY IdleIsACall DEF CallerRules, Launching
  <2> QED
    BY <1>1, <1>3, <2>1, <2>2, OneCallerMoves
<1>7. BoundaryIsKnown'
  BY <1>1, <1>2, <1>4, IdleIsACall DEF ClaudeInv, BoundaryIsKnown, Launching
<1>8. TurnsAreOfTheGrant' /\ ConversationsAreSeparate'
  BY <1>1, <1>2 DEF ClaudeInv, TurnsAreOfTheGrant, ConversationsAreSeparate
<1>9. OthersAreUnfed' /\ LoopRules'
  BY <1>1, <1>2 DEF ClaudeInv, OthersAreUnfed, LoopRules, Claude!Ended
<1> QED
  BY <1>5, <1>6, <1>7, <1>8, <1>9 DEF ClaudeInv

\* A turn of grant g is pushed: the session is bound to g, and its process, if it has one, is given g.
Feeds(g) ==
    /\ s.pending = {} /\ s.turns = <<>> /\ s.bound \in {None, g}
    /\ s'.bound = g /\ s'.ctx = s.ctx /\ s'.query = s.query /\ s'.turns = <<>> /\ s'.pending = {Len(turns) + 1}
    /\ turns' = Append(turns, g)
    /\ DOMAIN procs' = 1 .. Len(procs)
    /\ \A p \in 1 .. Len(procs) :
          /\ procs'[p].ctx = procs[p].ctx /\ procs'[p].work = procs[p].work
          /\ p # s.query => /\ procs'[p].fed = procs[p].fed /\ procs'[p].inbox = procs[p].inbox
                            /\ procs'[p].life = procs[p].life
          /\ p = s.query => /\ procs'[p].fed = procs[p].fed \cup {g}
                            /\ procs'[p].inbox = Append(procs[p].inbox, Len(turns) + 1)

LEMMA AppendedTurn ==
  ASSUME NEW q \in Seq(Positive), NEW t
  PROVE  /\ DOMAIN Append(q, t) = 1 .. Len(q) + 1 /\ DOMAIN q = 1 .. Len(q) /\ Len(q) \in Nat
         /\ \A n \in 1 .. Len(q) : Append(q, t)[n] = q[n]
         /\ Append(q, t)[Len(q) + 1] = t
OBVIOUS

LEMMA FeedsKeep ==
  ASSUME ClaudeTypes, ClaudeInv, NEW g \in Grants, Feeds(g)
  PROVE  /\ TurnsAreOfTheGrant' /\ ConversationsAreSeparate' /\ OthersAreUnfed'
         /\ turns' \in Seq(Grants) /\ Len(turns') = Len(turns) + 1
         /\ \A t \in s'.pending : t <= Len(turns')
         /\ \A n \in DOMAIN s'.turns : s'.turns[n] <= Len(turns')
         /\ \A q \in DOMAIN procs' : /\ \A n \in DOMAIN procs'[q].inbox : procs'[q].inbox[n] <= Len(turns')
                                     /\ \A n \in DOMAIN procs'[q].work : procs'[q].work[n] <= Len(turns')
<1> USE ClaudeFacts
<1>1. /\ turns' \in Seq(Grants) /\ Len(turns') = Len(turns) + 1
      /\ \A t \in 1 .. Len(turns) : turns'[t] = turns[t]
      /\ turns'[Len(turns) + 1] = g
  <2>1. turns \in Seq(Grants)
    BY DEF ClaudeTypes
  <2> QED
    BY <2>1 DEF Feeds
<1>2. /\ s.pending = {} /\ s.turns = <<>> /\ s.bound \in {None, g} /\ s'.bound = g /\ s'.ctx = s.ctx
      /\ s'.query = s.query /\ s'.turns = <<>> /\ s'.pending = {Len(turns) + 1} /\ DOMAIN s'.turns = {}
      /\ DOMAIN procs' = 1 .. Len(procs)
  BY DEF Feeds
<1>3. \A p \in 1 .. Len(procs) :
          /\ procs'[p].ctx = procs[p].ctx /\ procs'[p].work = procs[p].work
          /\ p # s.query => /\ procs'[p].fed = procs[p].fed /\ procs'[p].inbox = procs[p].inbox
                            /\ procs'[p].life = procs[p].life
          /\ p = s.query => /\ procs'[p].fed = procs[p].fed \cup {g}
                            /\ procs'[p].inbox = Append(procs[p].inbox, Len(turns) + 1)
  BY DEF Feeds
<1>4. ASSUME NEW q \in 1 .. Len(procs)
      PROVE  /\ \A n \in DOMAIN procs'[q].inbox : /\ procs'[q].inbox[n] <= Len(turns')
                                                  /\ turns'[procs'[q].inbox[n]] \in procs'[q].fed
             /\ \A n \in DOMAIN procs'[q].work : /\ procs'[q].work[n] <= Len(turns')
                                                 /\ turns'[procs'[q].work[n]] \in procs'[q].fed
  <2>1. /\ procs[q].inbox \in Seq(Positive) /\ procs[q].work \in Seq(Positive)
        /\ \A n \in DOMAIN procs[q].inbox : procs[q].inbox[n] \in 1 .. Len(turns)
        /\ \A n \in DOMAIN procs[q].work : procs[q].work[n] \in 1 .. Len(turns)
    <3>1. /\ \A n \in DOMAIN procs[q].inbox : procs[q].inbox[n] \in Positive
          /\ \A n \in DOMAIN procs[q].work : procs[q].work[n] \in Positive
      OBVIOUS
    <3>2. /\ \A n \in DOMAIN procs[q].inbox : procs[q].inbox[n] <= Len(turns)
          /\ \A n \in DOMAIN procs[q].work : procs[q].work[n] <= Len(turns)
      BY DEF ClaudeTypes
    <3> QED
      BY <3>1, <3>2 DEF Positive
  <2>2. /\ \A n \in DOMAIN procs[q].inbox : turns'[procs[q].inbox[n]] \in procs[q].fed
        /\ \A n \in DOMAIN procs[q].work : turns'[procs[q].work[n]] \in procs[q].fed
    BY <1>1, <2>1 DEF ClaudeInv, TurnsAreOfTheGrant
  <2>3. CASE q # s.query
    <3>1. procs'[q].inbox = procs[q].inbox /\ procs'[q].fed = procs[q].fed /\ procs'[q].work = procs[q].work
      BY <1>3, <2>3
    <3> QED
      BY <1>1, <2>1, <2>2, <3>1
  <2>4. CASE q = s.query
    <3>1. procs'[q].inbox = Append(procs[q].inbox, Len(turns) + 1) /\ procs'[q].fed = procs[q].fed \cup {g}
          /\ procs'[q].work = procs[q].work
      BY <1>3, <2>4
    <3>2. PICK inbox \in Seq(Positive) : inbox = procs[q].inbox
      BY <2>1
    <3>3. ASSUME NEW n \in DOMAIN procs'[q].inbox
          PROVE  /\ procs'[q].inbox[n] <= Len(turns')
                 /\ turns'[procs'[q].inbox[n]] \in procs'[q].fed
      <4>1. DOMAIN procs'[q].inbox = 1 .. Len(inbox) + 1 /\ DOMAIN inbox = 1 .. Len(inbox) /\ Len(inbox) \in Nat
        BY <3>1, <3>2, AppendedTurn
      <4>2. CASE n = Len(inbox) + 1
        <5>1. procs'[q].inbox[n] = Len(turns) + 1
          BY <3>1, <3>2, <4>2, AppendedTurn
        <5> QED
          BY <1>1, <3>1, <5>1
      <4>3. CASE n \in 1 .. Len(inbox)
        <5>1. procs'[q].inbox[n] = procs[q].inbox[n] /\ n \in DOMAIN procs[q].inbox
          BY <3>1, <3>2, <4>1, <4>3, AppendedTurn
        <5>2. turns'[procs[q].inbox[n]] \in procs[q].fed /\ procs[q].inbox[n] \in 1 .. Len(turns)
          BY <2>1, <2>2, <5>1
        <5>3. procs[q].inbox[n] <= Len(turns')
          BY <1>1, <5>2
        <5> QED
          BY <3>1, <5>1, <5>2, <5>3
      <4> QED
        BY <3>3, <4>1, <4>2, <4>3
    <3>4. \A n \in DOMAIN procs'[q].work : /\ procs'[q].work[n] <= Len(turns')
                                           /\ turns'[procs'[q].work[n]] \in procs'[q].fed
      BY <1>1, <2>1, <2>2, <3>1
    <3> QED
      BY <3>3, <3>4
  <2> QED
    BY <2>3, <2>4
<1>5. TurnsAreOfTheGrant'
  <2>1. \A t \in s'.pending : turns'[t] = s'.bound
    BY <1>1, <1>2
  <2> QED
    BY <1>2, <1>4, <2>1 DEF TurnsAreOfTheGrant
<1>6. ASSUME NEW q \in 1 .. Len(procs), procs[q].ctx = s.ctx  PROVE procs[q].fed \subseteq {g}
  <2>1. procs[q].fed \subseteq {s.bound} /\ procs[q].fed \subseteq Grants
    BY <1>6 DEF ClaudeInv, ConversationsAreSeparate
  <2> QED
    BY <1>2, <2>1, AdaptersAssumption DEF AdaptersAssumption
<1>7. ASSUME NEW q \in 1 .. Len(procs), procs'[q].ctx = s.ctx  PROVE procs'[q].fed \subseteq {g}
  BY <1>3, <1>6, <1>7
<1>8. s.query # 0 => s.query \in 1 .. Len(procs) /\ procs[s.query].ctx = s.ctx
  BY DEF ClaudeInv, ConversationsAreSeparate
<1>9. ConversationsAreSeparate'
  <2>1. ASSUME NEW p \in DOMAIN procs', NEW q \in DOMAIN procs', procs'[p].ctx = procs'[q].ctx,
               NEW h \in procs'[p].fed, NEW i \in procs'[q].fed
        PROVE  h = i
    <3>1. CASE procs'[p].ctx = s.ctx
      <4>1. p \in 1 .. Len(procs) /\ q \in 1 .. Len(procs)
        BY ONLY <1>2, <2>1
      <4>2. procs'[p].fed \subseteq {g} /\ procs'[q].fed \subseteq {g}
        BY ONLY <1>7, <2>1, <3>1, <4>1
      <4> QED
        BY ONLY <2>1, <4>2
    <3>2. CASE procs'[p].ctx # s.ctx
      <4>1. p # s.query /\ q # s.query
        BY <1>2, <1>3, <1>8, <2>1, <3>2
      <4>2. procs'[p].fed = procs[p].fed /\ procs'[q].fed = procs[q].fed /\ procs[p].ctx = procs[q].ctx
        BY <1>2, <1>3, <2>1, <4>1
      <4> QED
        BY <1>2, <2>1, <4>2 DEF ClaudeInv, ConversationsAreSeparate
    <3> QED
      BY <3>1, <3>2
  <2> QED
    BY <1>2, <1>3, <1>7, <1>8, <2>1 DEF ConversationsAreSeparate
<1>10. OthersAreUnfed'
  BY <1>2, <1>3 DEF ClaudeInv, OthersAreUnfed
<1> QED
  BY <1>1, <1>2, <1>4, <1>5, <1>9, <1>10

\* The queue was closed: the session is bound all the same, and the call is over.
PushRejected(c, g) ==
    /\ s' = [s EXCEPT !.bound = g, !.accepting = FALSE] /\ call' = [call EXCEPT ![c] = Claude!Idle]
    /\ procs' = procs /\ turns' = turns

PushAccepted(c, g) ==
    /\ s.query # 0 => ~procs[s.query].closing
    /\ s' = [s EXCEPT !.bound = g, !.accepting = TRUE, !.pending = s.pending \cup {Len(turns) + 1}]
    /\ turns' = Append(turns, g)
    /\ call' = [call EXCEPT ![c] = [at |-> IF s.query = 0 THEN "push" ELSE "ack", grant |-> g,
                                    on |-> s.query, turn |-> Len(turns) + 1]]
    /\ procs' = [p \in 1 .. Len(procs) |->
                    IF p = s.query
                    THEN [procs[p] EXCEPT !.inbox = Append(procs[p].inbox, Len(turns) + 1), !.fed = procs[p].fed \cup {g}]
                    ELSE procs[p]]

LEMMA DeliverWarmFacts ==
  ASSUME ClaudeTypes, NEW c \in Claude!Callers, NEW g \in Grants, Claude!DeliverWarm(c, g)
  PROVE  /\ PushRejected(c, g) \/ PushAccepted(c, g)
         /\ s.bound \in {None, g} /\ s.pending = {} /\ s.turns = <<>>
         /\ s.sandbox = policy
         /\ db' = [db EXCEPT !.bound = g] /\ loop' = loop /\ policy' = policy
<1> USE ClaudeFacts
<1>1. /\ s.bound \in {None, g} /\ s.pending = {} /\ s.turns = <<>> /\ s.sandbox = policy
      /\ Claude!Push(c, s, g) /\ loop' = loop /\ policy' = policy
  BY DEF Claude!DeliverWarm, Claude!Admits, Claude!NeedsRelaunch, Claude!world
<1>2. (IF s.bound = None THEN g ELSE s.bound) = g /\ Claude!Queries = 1 .. Len(procs)
  BY <1>1 DEF Claude!Queries
<1>3. db' = [db EXCEPT !.bound = g]
  <2>1. db' = [db EXCEPT !.bound = IF s.bound = None THEN g ELSE @]
    BY <1>1 DEF Claude!Push
  <2> QED
    BY <1>1, <2>1
<1>4. CASE s.query # 0 /\ procs[s.query].closing
  <2>1. PushRejected(c, g)
    BY <1>1, <1>2, <1>4 DEF Claude!Push, Claude!Return, PushRejected
  <2> QED
    BY <1>1, <1>3, <2>1
<1>5. CASE ~(s.query # 0 /\ procs[s.query].closing)
  <2>1. PushAccepted(c, g)
    BY <1>1, <1>2, <1>5 DEF Claude!Push, PushAccepted
  <2> QED
    BY <1>1, <1>3, <2>1
<1> QED
  BY <1>4, <1>5

LEMMA PushRejectedStep ==
  ASSUME ClaudeTypes, ClaudeInv, NEW c \in Claude!Callers, NEW g \in Grants, PushRejected(c, g),
         s.bound \in {None, g}, s.pending = {}, s.turns = <<>>, call[c].at \in {"idle", "resume"},
         \A d \in Claude!Callers : d # c => call[d].at = "idle",
         db' = [db EXCEPT !.bound = g], loop' = loop, policy' = policy
  PROVE  ClaudeTypes' /\ ClaudeInv'
<1> USE ClaudeFacts
<1>1. call' = [call EXCEPT ![c] = Claude!Idle] /\ procs' = procs /\ turns' = turns
  BY DEF PushRejected
<1>2. /\ s' \in ClaudeS /\ s'.bound = g /\ s'.ctx = s.ctx /\ s'.query = s.query /\ s'.sandbox = s.sandbox
      /\ s'.pending = {} /\ s'.turns = <<>> /\ s'.state = s.state /\ s'.init = s.init
  BY DEF PushRejected, ClaudeS
<1>3. db' = Claude!Row(s')
  BY <1>2 DEF ClaudeTypes, Claude!Row
<1>4. CallShape(Claude!Idle, Len(procs'), Len(turns')) /\ Claude!Idle \in ClaudeCall
  BY <1>1, IdleIsACall DEF CallShape
<1>5. /\ call' \in [Claude!Callers -> ClaudeCall] /\ call'[c] = Claude!Idle
      /\ \A d \in Claude!Callers : CallShape(call'[d], Len(procs'), Len(turns'))
      /\ \A d \in Claude!Callers : d # c => call'[d] = call[d]
  <2>1. Len(procs') \in Nat /\ Len(procs') >= Len(procs) /\ Len(turns') \in Nat /\ Len(turns') >= Len(turns)
    BY <1>1
  <2> QED
    BY <1>1, <1>4, <2>1, OneCallTypes
<1>6. ClaudeTypes'
  BY <1>1, <1>2, <1>3, <1>5 DEF ClaudeTypes
<1>7. OneCaller' /\ \A d \in Claude!Callers : CallerRules(d)'
  <2>1. Claude!Idle = call'[c] => CallerRules(c)'
    BY IdleIsACall DEF CallerRules, Launching
  <2> QED
    BY <1>1, <1>4, <2>1, OneCallerMoves
<1>8. BoundaryIsKnown'
  BY <1>1, <1>2, <1>5 DEF ClaudeInv, BoundaryIsKnown, Launching
<1>9. TurnsAreOfTheGrant'
  BY <1>1, <1>2 DEF ClaudeInv, TurnsAreOfTheGrant
<1>10. ConversationsAreSeparate'
  <2>1. ASSUME NEW q \in 1 .. Len(procs), procs[q].ctx = s.ctx  PROVE procs[q].fed \subseteq {g}
    <3>1. procs[q].fed \subseteq {s.bound} /\ procs[q].fed \subseteq Grants
      BY <2>1 DEF ClaudeInv, ConversationsAreSeparate
    <3> QED
      BY <3>1, AdaptersAssumption DEF AdaptersAssumption
  <2>2. /\ \A p, q \in DOMAIN procs : procs[p].ctx = procs[q].ctx => \A i \in procs[p].fed, h \in procs[q].fed : i = h
        /\ s.query # 0 => procs[s.query].ctx = s.ctx
    BY DEF ClaudeInv, ConversationsAreSeparate
  <2>3. \A q \in DOMAIN procs : procs[q].ctx = s.ctx => procs[q].fed \subseteq {g}
    BY <2>1
  <2> QED
    BY ONLY <1>1, <1>2, <2>2, <2>3 DEF ConversationsAreSeparate
<1>11. OthersAreUnfed' /\ LoopRules'
  BY <1>1, <1>2 DEF ClaudeInv, OthersAreUnfed, LoopRules, Claude!Ended
<1> QED
  BY <1>6, <1>7, <1>8, <1>9, <1>10, <1>11 DEF ClaudeInv

LEMMA PushAcceptedStep ==
  ASSUME ClaudeTypes, ClaudeInv, NEW c \in Claude!Callers, NEW g \in Grants, PushAccepted(c, g),
         s.bound \in {None, g}, s.pending = {}, s.turns = <<>>, call[c].at \in {"idle", "resume"},
         \A d \in Claude!Callers : d # c => call[d].at = "idle",
         db' = [db EXCEPT !.bound = g], loop' = loop, policy' = policy,
         loop.at = "drain" => ~Claude!Ended(loop.on)
  PROVE  ClaudeTypes' /\ ClaudeInv' /\ Feeds(g)
<1> USE ClaudeFacts
<1> DEFINE k == [at |-> IF s.query = 0 THEN "push" ELSE "ack", grant |-> g, on |-> s.query, turn |-> Len(turns) + 1]
<1>1. call' = [call EXCEPT ![c] = k] /\ turns' = Append(turns, g)
  BY DEF PushAccepted
<1>2. /\ s' \in ClaudeS /\ s'.bound = g /\ s'.ctx = s.ctx /\ s'.query = s.query /\ s'.sandbox = s.sandbox
      /\ s'.pending = {Len(turns) + 1} /\ s'.turns = <<>> /\ s'.state = s.state /\ s'.init = s.init
  <2>1. Len(turns) + 1 \in Positive
    BY DEF Positive
  <2>2. s.pending \cup {Len(turns) + 1} = {Len(turns) + 1}
    OBVIOUS
  <2>3. s' = [s EXCEPT !.bound = g, !.accepting = TRUE, !.pending = {Len(turns) + 1}]
    BY <2>2 DEF PushAccepted
  <2> QED
    BY <2>1, <2>3 DEF ClaudeS
<1>3. db' = Claude!Row(s')
  BY <1>2 DEF ClaudeTypes, Claude!Row
<1>4. ASSUME NEW p \in 1 .. Len(procs)
      PROVE  /\ procs'[p] \in Process
             /\ procs'[p].ctx = procs[p].ctx /\ procs'[p].work = procs[p].work
             /\ procs'[p].life = procs[p].life /\ procs'[p].closing = procs[p].closing /\ procs'[p].box = procs[p].box
             /\ p # s.query => procs'[p].fed = procs[p].fed /\ procs'[p].inbox = procs[p].inbox
             /\ p = s.query => /\ procs'[p].fed = procs[p].fed \cup {g}
                               /\ procs'[p].inbox = Append(procs[p].inbox, Len(turns) + 1)
  <2>1. procs'[p] = IF p = s.query
                    THEN [procs[p] EXCEPT !.inbox = Append(procs[p].inbox, Len(turns) + 1), !.fed = procs[p].fed \cup {g}]
                    ELSE procs[p]
    BY DEF PushAccepted
  <2>2. CASE p # s.query
    BY <2>1, <2>2
  <2>3. CASE p = s.query
    <3>1. Len(turns) + 1 \in Positive
      BY DEF Positive
    <3>2. Append(procs[p].inbox, Len(turns) + 1) \in Seq(Positive) /\ procs[p].fed \cup {g} \in SUBSET Grants
      BY <3>1
    <3>3. PICK x \in Seq(Positive), y \in SUBSET Grants, r \in Process :
             /\ x = Append(procs[p].inbox, Len(turns) + 1) /\ y = procs[p].fed \cup {g} /\ r = procs[p]
      BY <3>2
    <3>4. procs'[p] = [r EXCEPT !.inbox = x, !.fed = y]
      BY <2>1, <2>3, <3>3
    <3>5. /\ procs'[p] \in Process /\ procs'[p].inbox = x /\ procs'[p].fed = y
          /\ procs'[p].ctx = r.ctx /\ procs'[p].work = r.work
          /\ procs'[p].life = r.life /\ procs'[p].closing = r.closing /\ procs'[p].box = r.box
      BY <3>4 DEF Process
    <3> QED
      BY <2>3, <3>3, <3>5
  <2> QED
    BY <2>2, <2>3
<1>5. procs' \in Seq(Process) /\ Len(procs') = Len(procs) /\ DOMAIN procs' = 1 .. Len(procs)
  <2>1. PICK P : P = Process
    OBVIOUS
  <2>2. procs' \in [1 .. Len(procs) -> P]
    BY <1>4, <2>1 DEF PushAccepted
  <2>3. procs' \in Seq(P) /\ Len(procs') = Len(procs) /\ DOMAIN procs' = 1 .. Len(procs)
    BY <2>2
  <2> QED
    BY <2>1, <2>3
<1>6. Feeds(g)
  BY <1>1, <1>2, <1>4, <1>5 DEF Feeds
<1>7. Len(turns') = Len(turns) + 1
  BY <1>6, FeedsKeep
<1>8. k \in ClaudeCall /\ CallShape(k, Len(procs'), Len(turns'))
  BY <1>5, <1>7 DEF ClaudeCall, CallShape, Points
<1>9. k.at \in {"push", "ack"}
  OBVIOUS
<1> HIDE DEF k
<1>10. /\ call' \in [Claude!Callers -> ClaudeCall] /\ call'[c] = k
       /\ \A d \in Claude!Callers : CallShape(call'[d], Len(procs'), Len(turns'))
       /\ \A d \in Claude!Callers : d # c => call'[d] = call[d]
  <2>1. Len(procs') \in Nat /\ Len(procs') >= Len(procs) /\ Len(turns') \in Nat /\ Len(turns') >= Len(turns)
    BY <1>5, <1>7
  <2> QED
    BY <1>1, <1>8, <2>1, OneCallTypes
<1>11. ClaudeTypes'
  <2>1. s'.query <= Len(procs') /\ loop'.on <= Len(procs')
    BY <1>2, <1>5 DEF ClaudeTypes
  <2> QED
    BY <1>2, <1>3, <1>5, <1>6, <1>10, <2>1, FeedsKeep DEF ClaudeTypes
<1>12. OneCaller' /\ \A d \in Claude!Callers : CallerRules(d)'
  <2>1. k = call'[c] => CallerRules(c)'
    BY <1>9 DEF CallerRules, Launching
  <2> QED
    BY <1>1, <1>8, <2>1, OneCallerMoves
<1>13. BoundaryIsKnown'
  <2>1. \A d \in Claude!Callers : call[d].at \notin Launching
    BY DEF Launching
  <2> QED
    BY <1>2, <1>4, <2>1 DEF ClaudeInv, BoundaryIsKnown
<1>14. LoopRules'
  BY <1>2, <1>4 DEF ClaudeInv, LoopRules
<1> QED
  BY <1>6, <1>11, <1>12, <1>13, <1>14, FeedsKeep DEF ClaudeInv

LEMMA DeliverWarmStep ==
  ASSUME ~Overlap, ClaudeTypes, ClaudeInv, NEW c \in Claude!Callers, NEW g \in Grants, Claude!DeliverWarm(c, g),
         ~Claude!Continuing \/ call[c].at = "resume"
  PROVE  ClaudeTypes' /\ ClaudeInv'
<1>1. call[c].at \in {"idle", "resume"} /\ \A d \in Claude!Callers : d # c => call[d].at = "idle"
  BY DeliversAlone DEF ClaudeInv, Claude!DeliverWarm
<1>2. loop.at = "drain" => ~Claude!Ended(loop.on)
  BY DEF Claude!Continuing, ClaudeInv, CallerRules
<1>3. /\ s.bound \in {None, g} /\ s.pending = {} /\ s.turns = <<>>
      /\ db' = [db EXCEPT !.bound = g] /\ loop' = loop /\ policy' = policy
  BY DeliverWarmFacts
<1>4. CASE PushRejected(c, g)
  BY <1>1, <1>3, <1>4, PushRejectedStep
<1>5. CASE PushAccepted(c, g)
  BY <1>1, <1>2, <1>3, <1>5, PushAcceptedStep
<1> QED
  BY <1>4, <1>5, DeliverWarmFacts

\* The process is up; nothing else of it changes.
LEMMA UpFacts ==
  ASSUME ClaudeTypes, NEW q \in 1 .. Len(procs)
  PROVE  /\ Claude!Up(q, procs) \in Seq(Process) /\ Len(Claude!Up(q, procs)) = Len(procs)
         /\ DOMAIN Claude!Up(q, procs) = 1 .. Len(procs)
         /\ Claude!Up(q, procs)[q].life = "up"
         /\ \A p \in 1 .. Len(procs) :
               /\ p # q => Claude!Up(q, procs)[p].life = procs[p].life
               /\ Claude!Up(q, procs)[p].ctx = procs[p].ctx /\ Claude!Up(q, procs)[p].box = procs[p].box
               /\ Claude!Up(q, procs)[p].closing = procs[p].closing /\ Claude!Up(q, procs)[p].fed = procs[p].fed
               /\ Claude!Up(q, procs)[p].inbox = procs[p].inbox /\ Claude!Up(q, procs)[p].work = procs[p].work
<1> USE ClaudeFacts
<1>1. PICK P : P = Process
  OBVIOUS
<1>2. PICK r \in Process : r = procs[q]
  OBVIOUS
<1>3. PICK up : up = [r EXCEPT !.life = "up"]
  OBVIOUS
<1>4. /\ up \in Process /\ up.life = "up" /\ up.ctx = r.ctx /\ up.box = r.box
      /\ up.closing = r.closing /\ up.fed = r.fed /\ up.inbox = r.inbox /\ up.work = r.work
  BY <1>3 DEF Process
<1>5. Claude!Up(q, procs) = [procs EXCEPT ![q] = up]
  BY <1>2, <1>3 DEF Claude!Up
<1>6. procs \in Seq(P) /\ up \in P
  BY <1>1, <1>4 DEF ClaudeTypes
<1>7. /\ [procs EXCEPT ![q] = up] \in Seq(P) /\ Len([procs EXCEPT ![q] = up]) = Len(procs)
      /\ DOMAIN [procs EXCEPT ![q] = up] = 1 .. Len(procs)
      /\ [procs EXCEPT ![q] = up][q] = up
      /\ \A p \in 1 .. Len(procs) : p # q => [procs EXCEPT ![q] = up][p] = procs[p]
  BY <1>6
<1>8. \A p \in 1 .. Len(procs) : p # q => Claude!Up(q, procs)[p] = procs[p]
  BY <1>5, <1>7
<1>9. Claude!Up(q, procs)[q] = up
  BY <1>5, <1>7
<1>10. ASSUME NEW p \in 1 .. Len(procs)
       PROVE  /\ p # q => Claude!Up(q, procs)[p].life = procs[p].life
              /\ Claude!Up(q, procs)[p].ctx = procs[p].ctx /\ Claude!Up(q, procs)[p].box = procs[p].box
              /\ Claude!Up(q, procs)[p].closing = procs[p].closing /\ Claude!Up(q, procs)[p].fed = procs[p].fed
              /\ Claude!Up(q, procs)[p].inbox = procs[p].inbox /\ Claude!Up(q, procs)[p].work = procs[p].work
  <2>1. CASE p = q
    BY <1>2, <1>4, <1>9, <2>1
  <2>2. CASE p # q
    BY <1>8, <2>2
  <2> QED
    BY <2>1, <2>2
<1> QED
  BY <1>1, <1>4, <1>5, <1>7, <1>9, <1>10

StoredRow == [state : Claude!States, bound : Grants \cup {None}, init : BOOLEAN, ctx : Nat]

LEMMA RowOfTheProcess ==
  ASSUME NEW d \in StoredRow, NEW e \in StoredRow,
         e.state = "idle", e.init = TRUE, e.bound = d.bound, e.ctx = d.ctx
  PROVE  [d EXCEPT !.init = TRUE, !.state = "idle"] = e
BY DEF StoredRow, Claude!States

LEMMA WithProcessFacts ==
  ASSUME ClaudeTypes, NEW c \in Claude!Callers, call[c].on # 0
  PROVE  /\ Claude!WithProcess(c) \in ClaudeS
         /\ Claude!WithProcess(c).query = s.query /\ Claude!WithProcess(c).bound = s.bound
         /\ Claude!WithProcess(c).ctx = s.ctx /\ Claude!WithProcess(c).sandbox = procs[call[c].on].box
         /\ Claude!WithProcess(c).pending = s.pending /\ Claude!WithProcess(c).turns = s.turns
         /\ Claude!WithProcess(c).state = "idle" /\ Claude!WithProcess(c).init = TRUE
         /\ [db EXCEPT !.init = TRUE, !.state = "idle"] = Claude!Row(Claude!WithProcess(c))
<1>1. procs[call[c].on].box \in Boundaries \cup {None} /\ s \in ClaudeS /\ db = Claude!Row(s)
  BY ClaudeFacts DEF Process, ClaudeTypes
<1>2. PICK resetting \in BOOLEAN : resetting = IF call[c].at = "relaunch" THEN FALSE ELSE s.resetting
  BY <1>1 DEF ClaudeS
<1>3. Claude!WithProcess(c) = [s EXCEPT !.init = TRUE, !.state = "idle", !.sandbox = procs[call[c].on].box,
                                        !.resetting = resetting]
  BY <1>2 DEF Claude!WithProcess
<1>4. /\ Claude!WithProcess(c) \in ClaudeS
      /\ Claude!WithProcess(c).query = s.query /\ Claude!WithProcess(c).bound = s.bound
      /\ Claude!WithProcess(c).ctx = s.ctx /\ Claude!WithProcess(c).sandbox = procs[call[c].on].box
      /\ Claude!WithProcess(c).pending = s.pending /\ Claude!WithProcess(c).turns = s.turns
      /\ Claude!WithProcess(c).state = "idle" /\ Claude!WithProcess(c).init = TRUE
  BY <1>1, <1>3 DEF ClaudeS, Claude!States
<1>5. PICK w \in ClaudeS : w = Claude!WithProcess(c)
  BY <1>4
<1>6. [db EXCEPT !.init = TRUE, !.state = "idle"] = Claude!Row(w)
  <2>1. /\ db \in StoredRow /\ Claude!Row(w) \in StoredRow
        /\ db.bound = s.bound /\ db.ctx = s.ctx
        /\ Claude!Row(w).state = "idle" /\ Claude!Row(w).init = TRUE
        /\ Claude!Row(w).bound = s.bound /\ Claude!Row(w).ctx = s.ctx
    BY <1>1, <1>4, <1>5 DEF Claude!Row, ClaudeS, StoredRow
  <2> QED
    BY <2>1, RowOfTheProcess
<1> QED
  BY <1>4, <1>5, <1>6

\* What a launch that succeeded does with no process left: the session was reset meanwhile.
ReadyTooLate(c) ==
    /\ s' = Claude!WithProcess(c) /\ procs' = Claude!Up(call[c].on, procs) /\ turns' = turns
    /\ db' = [db EXCEPT !.init = TRUE, !.state = "idle"]

LEMMA ReadyTooLateKeeps ==
  ASSUME ClaudeTypes, ClaudeInv, NEW c \in Claude!Callers, call[c].at \in Launching, ReadyTooLate(c)
  PROVE  /\ s' \in ClaudeS /\ db' = Claude!Row(s') /\ s'.bound = s.bound /\ s'.query = s.query
         /\ s'.ctx = s.ctx /\ s'.pending = {} /\ s'.turns = <<>> /\ s'.sandbox = procs[call[c].on].box
         /\ procs' \in Seq(Process) /\ Len(procs') = Len(procs)
         /\ \A p \in 1 .. Len(procs) : /\ procs'[p].fed = procs[p].fed /\ procs'[p].closing = procs[p].closing
                                       /\ procs'[p].box = procs[p].box /\ procs'[p].ctx = procs[p].ctx
                                       /\ p # call[c].on => procs'[p].life = procs[p].life
         /\ \A q \in DOMAIN procs' : /\ \A n \in DOMAIN procs'[q].inbox : procs'[q].inbox[n] <= Len(turns')
                                     /\ \A n \in DOMAIN procs'[q].work : procs'[q].work[n] <= Len(turns')
         /\ TurnsAreOfTheGrant' /\ ConversationsAreSeparate' /\ OthersAreUnfed'
<1> USE ClaudeFacts
<1>1. PICK on \in 1 .. Len(procs) : on = call[c].on /\ call[c].on # 0
  BY DEF ClaudeTypes, CallShape, Launching
<1>2. s.pending = {} /\ s.turns = <<>> /\ procs[on].fed = {}
  BY <1>1 DEF ClaudeInv, CallerRules, Launching
<1>3. /\ s' \in ClaudeS /\ db' = Claude!Row(s') /\ s'.bound = s.bound /\ s'.query = s.query
      /\ s'.ctx = s.ctx /\ s'.pending = {} /\ s'.turns = <<>> /\ s'.sandbox = procs[call[c].on].box
  BY <1>1, <1>2, WithProcessFacts DEF ReadyTooLate
<1>4. /\ procs' \in Seq(Process) /\ Len(procs') = Len(procs) /\ DOMAIN procs' = 1 .. Len(procs)
      /\ \A p \in 1 .. Len(procs) :
               /\ p # on => procs'[p].life = procs[p].life
               /\ procs'[p].ctx = procs[p].ctx /\ procs'[p].box = procs[p].box
               /\ procs'[p].closing = procs[p].closing /\ procs'[p].fed = procs[p].fed
               /\ procs'[p].inbox = procs[p].inbox /\ procs'[p].work = procs[p].work
  <2>1. procs' = Claude!Up(on, procs)
    BY <1>1 DEF ReadyTooLate
  <2> QED
    BY <2>1, UpFacts
<1>5. turns' = turns
  BY DEF ReadyTooLate
<1>6. \A q \in 1 .. Len(procs) : /\ \A n \in DOMAIN procs'[q].inbox : procs'[q].inbox[n] <= Len(turns')
                                 /\ \A n \in DOMAIN procs'[q].work : procs'[q].work[n] <= Len(turns')
  BY <1>4, <1>5 DEF ClaudeTypes
<1>7. TurnsAreOfTheGrant'
  <2>1. \A q \in 1 .. Len(procs) :
           /\ \A n \in DOMAIN procs'[q].inbox : turns'[procs'[q].inbox[n]] \in procs'[q].fed
           /\ \A n \in DOMAIN procs'[q].work : turns'[procs'[q].work[n]] \in procs'[q].fed
    BY <1>4, <1>5 DEF ClaudeInv, TurnsAreOfTheGrant
  <2>2. DOMAIN s'.turns = {}
    BY <1>3
  <2> QED
    BY <1>3, <1>4, <2>1, <2>2 DEF TurnsAreOfTheGrant
<1>8. ConversationsAreSeparate'
  <2>1. \A p, q \in 1 .. Len(procs) : procs'[p].ctx = procs'[q].ctx => \A g \in procs'[p].fed, h \in procs'[q].fed : g = h
    <3>1. \A p, q \in 1 .. Len(procs) : procs[p].ctx = procs[q].ctx => \A g \in procs[p].fed, h \in procs[q].fed : g = h
      BY DEF ClaudeInv, ConversationsAreSeparate
    <3>2. \A p \in 1 .. Len(procs) : procs'[p].fed = procs[p].fed /\ procs'[p].ctx = procs[p].ctx
      BY <1>4
    <3> QED
      BY ONLY <3>1, <3>2
  <2>2. \A q \in 1 .. Len(procs) : procs'[q].ctx = s'.ctx => procs'[q].fed \subseteq {s'.bound}
    BY <1>3, <1>4 DEF ClaudeInv, ConversationsAreSeparate
  <2>3. s'.query # 0 => procs'[s'.query].ctx = s'.ctx
    BY <1>3, <1>4 DEF ClaudeInv, ConversationsAreSeparate
  <2> QED
    BY <1>4, <2>1, <2>2, <2>3 DEF ConversationsAreSeparate
<1>9. OthersAreUnfed'
  BY <1>2, <1>3, <1>4 DEF ClaudeInv, OthersAreUnfed
<1> QED
  BY <1>1, <1>3, <1>4, <1>6, <1>7, <1>8, <1>9

\* The launch is ready only while no reset awaits it.
LEMMA ReadyIsUndisturbed ==
  ASSUME ClaudeTypes, ClaudeInv, ~Claude!Continuing, NEW c \in Claude!Callers,
         call[c].at \in Launching, Claude!Ready(c)
  PROVE  loop.at = "idle"
<1>1. loop.at = "drain" => ~Claude!Ended(loop.on)
  BY DEF Claude!Continuing
<1>2. loop.at = "drain" => s.query = loop.on /\ loop.on # 0 /\ procs[loop.on].closing
  BY <1>1 DEF ClaudeInv, LoopRules, Claude!Ended
<1>3. s.query \in {call[c].on, 0}
  BY DEF ClaudeInv, CallerRules, Launching
<1> QED
  BY <1>2, <1>3, ClaudeFacts DEF Claude!Ready

LEMMA ReadyTooLateStep ==
  ASSUME ClaudeTypes, ClaudeInv, NEW c \in Claude!Callers, call[c].at \in Launching, ReadyTooLate(c),
         s.query = 0, loop.at = "idle", loop' = loop, policy' = policy, call' = [call EXCEPT ![c] = Claude!Idle]
  PROVE  ClaudeTypes' /\ ClaudeInv'
<1> USE ClaudeFacts
<1>1. /\ s' \in ClaudeS /\ db' = Claude!Row(s') /\ s'.query = 0
      /\ s'.pending = {} /\ s'.turns = <<>> /\ DOMAIN s'.turns = {}
      /\ procs' \in Seq(Process) /\ Len(procs') = Len(procs) /\ turns' = turns
  BY ReadyTooLateKeeps DEF ReadyTooLate
<1>2. CallShape(Claude!Idle, Len(procs'), Len(turns')) /\ Claude!Idle \in ClaudeCall
  BY <1>1, IdleIsACall DEF CallShape
<1>3. /\ call' \in [Claude!Callers -> ClaudeCall] /\ call'[c] = Claude!Idle
      /\ \A d \in Claude!Callers : CallShape(call'[d], Len(procs'), Len(turns'))
  <2>1. Len(procs') \in Nat /\ Len(procs') >= Len(procs) /\ Len(turns') \in Nat /\ Len(turns') >= Len(turns)
    BY <1>1
  <2> QED
    BY <1>2, <2>1, OneCallTypes
<1>4. ClaudeTypes'
  <2>1. s'.query <= Len(procs') /\ loop'.on <= Len(procs') /\ turns' \in Seq(Grants) /\ policy' \in Boundaries
        /\ loop' \in [at : {"idle", "drain"}, grant : Grants \cup {None}, on : Nat]
    BY <1>1 DEF ClaudeTypes
  <2> QED
    BY <1>1, <1>3, <2>1, ReadyTooLateKeeps DEF ClaudeTypes
<1>5. OneCaller' /\ \A d \in Claude!Callers : CallerRules(d)'
  <2>1. \A d \in Claude!Callers : d # c => call[d].at = "idle"
    BY DEF ClaudeInv, OneCaller, Launching
  <2>2. Claude!Idle = call'[c] => CallerRules(c)'
    BY IdleIsACall DEF CallerRules, Launching
  <2> QED
    BY <1>2, <2>1, <2>2, OneCallerMoves
<1>6. LoopRules' /\ BoundaryIsKnown'
  BY <1>1 DEF LoopRules, BoundaryIsKnown
<1> QED
  BY <1>4, <1>5, <1>6, ReadyTooLateKeeps DEF ClaudeInv

\* What a launch that succeeded does with the process still there: the turn is pushed to it.
ReadyInTime(c, g) ==
    /\ s' = [Claude!WithProcess(c) EXCEPT !.bound = g, !.accepting = TRUE, !.pending = s.pending \cup {Len(turns) + 1}]
    /\ turns' = Append(turns, g)
    /\ procs' = Claude!Up(s.query, [procs EXCEPT ![s.query].inbox = Append(@, Len(turns) + 1),
                                                 ![s.query].fed = @ \cup {g}])
    /\ call' = [call EXCEPT ![c].at = "ack", ![c].on = s.query, ![c].turn = Len(turns) + 1]
    /\ db' = Claude!Row(s')

\* The process is up and has the turn.
LEMMA UpWithTurn ==
  ASSUME ClaudeTypes, NEW q \in 1 .. Len(procs), NEW t \in Positive, NEW g \in Grants,
         procs' = Claude!Up(q, [procs EXCEPT ![q].inbox = Append(@, t), ![q].fed = @ \cup {g}])
  PROVE  /\ procs' \in Seq(Process) /\ Len(procs') = Len(procs) /\ DOMAIN procs' = 1 .. Len(procs)
         /\ \A p \in 1 .. Len(procs) : p # q => procs'[p] = procs[p]
         /\ procs'[q].ctx = procs[q].ctx /\ procs'[q].box = procs[q].box /\ procs'[q].work = procs[q].work
         /\ procs'[q].closing = procs[q].closing /\ procs'[q].life = "up"
         /\ procs'[q].inbox = Append(procs[q].inbox, t) /\ procs'[q].fed = procs[q].fed \cup {g}
<1> USE ClaudeFacts
<1>1. PICK P : P = Process
  OBVIOUS
<1>2. Append(procs[q].inbox, t) \in Seq(Positive) /\ procs[q].fed \cup {g} \in SUBSET Grants
  OBVIOUS
<1>3. PICK x \in Seq(Positive), y \in SUBSET Grants, r \in Process :
         x = Append(procs[q].inbox, t) /\ y = procs[q].fed \cup {g} /\ r = procs[q]
  BY <1>2
<1>4. PICK up : up = [[r EXCEPT !.inbox = x, !.fed = y] EXCEPT !.life = "up"]
  OBVIOUS
<1>5. /\ up \in Process /\ up.ctx = r.ctx /\ up.box = r.box /\ up.work = r.work
      /\ up.closing = r.closing /\ up.life = "up" /\ up.inbox = x /\ up.fed = y
  BY <1>4 DEF Process
<1>6. PICK fed : fed = [procs EXCEPT ![q] = [r EXCEPT !.inbox = x, !.fed = y]]
  OBVIOUS
<1>7. procs \in Seq(P) /\ up \in P
  BY <1>1, <1>5 DEF ClaudeTypes
<1>8. fed = [procs EXCEPT ![q].inbox = Append(@, t), ![q].fed = @ \cup {g}]
  <2>1. [procs EXCEPT ![q].inbox = Append(@, t), ![q].fed = @ \cup {g}]
          = [procs EXCEPT ![q] = [procs[q] EXCEPT !.inbox = Append(procs[q].inbox, t), !.fed = procs[q].fed \cup {g}]]
    BY <1>7
  <2> QED
    BY <1>3, <1>6, <2>1
<1>9. procs' = [procs EXCEPT ![q] = up]
  <2>1. procs' = [fed EXCEPT ![q].life = "up"]
    BY <1>8 DEF Claude!Up
  <2>2. fed[q] = [r EXCEPT !.inbox = x, !.fed = y] /\ DOMAIN fed = DOMAIN procs
        /\ \A p \in DOMAIN procs : p # q => fed[p] = procs[p]
    BY <1>6
  <2>3. procs' = [fed EXCEPT ![q] = up]
    BY <1>4, <2>1, <2>2
  <2> QED
    BY <1>6, <2>3
<1>10. /\ procs' \in Seq(P) /\ Len(procs') = Len(procs) /\ DOMAIN procs' = 1 .. Len(procs)
       /\ procs'[q] = up /\ \A p \in 1 .. Len(procs) : p # q => procs'[p] = procs[p]
  <2>1. /\ [procs EXCEPT ![q] = up] \in Seq(P) /\ Len([procs EXCEPT ![q] = up]) = Len(procs)
        /\ DOMAIN [procs EXCEPT ![q] = up] = 1 .. Len(procs)
        /\ [procs EXCEPT ![q] = up][q] = up
        /\ \A p \in 1 .. Len(procs) : p # q => [procs EXCEPT ![q] = up][p] = procs[p]
    BY ONLY <1>7, ClaudeFacts, ClaudeTypes
  <2> QED
    BY ONLY <1>9, <2>1, Zenon
<1> QED
  BY <1>1, <1>3, <1>5, <1>10

LEMMA BoundRowOfTheProcess ==
  ASSUME NEW d \in StoredRow, NEW b \in Grants, NEW sess, sess.state = "idle", sess.init = TRUE, sess.bound = b, sess.ctx = d.ctx
  PROVE  [d EXCEPT !.init = TRUE, !.state = "idle", !.bound = b] = Claude!Row(sess)
<1>1. Claude!Row(sess) \in StoredRow /\ Claude!Row(sess).state = "idle" /\ Claude!Row(sess).init = TRUE
      /\ Claude!Row(sess).bound = b /\ Claude!Row(sess).ctx = d.ctx
  BY DEF Claude!Row, StoredRow, Claude!States
<1>2. PICK e \in StoredRow : e = Claude!Row(sess)
  BY <1>1
<1>3. [d EXCEPT !.init = TRUE, !.state = "idle", !.bound = b] = e
  BY <1>1, <1>2 DEF StoredRow, Claude!States
<1> QED
  BY <1>2, <1>3

LEMMA ReadyInTimeStep ==
  ASSUME ClaudeTypes, ClaudeInv, NEW c \in Claude!Callers, call[c].at \in {"launch", "relaunch"}, NEW g \in Grants,
         g = call[c].grant, ReadyInTime(c, g), s.query = call[c].on, s.query # 0, loop.at = "idle", loop' = loop,
         policy' = policy
  PROVE  ClaudeTypes' /\ ClaudeInv' /\ Feeds(g)
<1> USE ClaudeFacts
<1>1. PICK on \in 1 .. Len(procs) : on = s.query
  OBVIOUS
<1>2. s.pending = {} /\ s.turns = <<>> /\ procs[on].fed = {} /\ s.bound \in {None, g} /\ Len(turns) + 1 \in Positive
  <2>1. CallerRules(c) /\ call[c].at \in Launching /\ call[c].at \notin {"idle", "push", "ack"}
    BY DEF ClaudeInv, Launching
  <2>2. s.pending = {} /\ s.turns = <<>> /\ procs[on].fed = {} /\ s.bound \in {None, g}
    BY <1>1, <2>1 DEF CallerRules
  <2>3. Len(turns) + 1 \in Positive
    BY DEF Positive
  <2> QED
    BY <2>2, <2>3
<1>3. /\ s' \in ClaudeS /\ s'.bound = g /\ s'.ctx = s.ctx /\ s'.query = s.query /\ s'.sandbox = procs[on].box
      /\ s'.pending = {Len(turns) + 1} /\ s'.turns = <<>> /\ DOMAIN s'.turns = {} /\ db' = Claude!Row(s')
  <2>1. PICK w \in ClaudeS : /\ w = Claude!WithProcess(c) /\ w.query = s.query /\ w.ctx = s.ctx
                             /\ w.sandbox = procs[on].box /\ w.turns = s.turns
    <3>1. /\ Claude!WithProcess(c) \in ClaudeS /\ Claude!WithProcess(c).query = s.query
          /\ Claude!WithProcess(c).ctx = s.ctx /\ Claude!WithProcess(c).sandbox = procs[call[c].on].box
          /\ Claude!WithProcess(c).turns = s.turns
      BY WithProcessFacts
    <3> QED
      BY <1>1, <3>1
  <2>2. s.pending \cup {Len(turns) + 1} = {Len(turns) + 1}
    BY <1>2
  <2>3. PICK x : x = Len(turns) + 1
    OBVIOUS
  <2>4. s' = [w EXCEPT !.bound = g, !.accepting = TRUE, !.pending = {x}] /\ {x} \in SUBSET Positive
    BY <1>2, <2>1, <2>2, <2>3 DEF ReadyInTime
  <2>5. s' \in ClaudeS /\ s'.bound = g /\ s'.ctx = w.ctx /\ s'.query = w.query /\ s'.sandbox = w.sandbox
        /\ s'.pending = {x} /\ s'.turns = w.turns
    BY <2>4 DEF ClaudeS
  <2>6. db' = Claude!Row(s')
    BY DEF ReadyInTime
  <2> QED
    BY <1>2, <2>1, <2>3, <2>5, <2>6
<1>4. /\ procs' \in Seq(Process) /\ Len(procs') = Len(procs) /\ DOMAIN procs' = 1 .. Len(procs)
      /\ \A p \in 1 .. Len(procs) : p # on => procs'[p] = procs[p]
      /\ procs'[on].ctx = procs[on].ctx /\ procs'[on].box = procs[on].box /\ procs'[on].work = procs[on].work
      /\ procs'[on].inbox = Append(procs[on].inbox, Len(turns) + 1) /\ procs'[on].fed = procs[on].fed \cup {g}
  <2>1. procs' = Claude!Up(on, [procs EXCEPT ![on].inbox = Append(@, Len(turns) + 1), ![on].fed = @ \cup {g}])
    BY <1>1 DEF ReadyInTime
  <2>2. PICK t \in Positive : t = Len(turns) + 1
    BY <1>2
  <2>3. procs' = Claude!Up(on, [procs EXCEPT ![on].inbox = Append(@, t), ![on].fed = @ \cup {g}])
    BY <2>1, <2>2
  <2>4. /\ procs' \in Seq(Process) /\ Len(procs') = Len(procs) /\ DOMAIN procs' = 1 .. Len(procs)
        /\ \A p \in 1 .. Len(procs) : p # on => procs'[p] = procs[p]
        /\ procs'[on].ctx = procs[on].ctx /\ procs'[on].box = procs[on].box /\ procs'[on].work = procs[on].work
        /\ procs'[on].inbox = Append(procs[on].inbox, t) /\ procs'[on].fed = procs[on].fed \cup {g}
    BY ONLY <2>3, UpWithTurn, ClaudeTypes, on \in 1 .. Len(procs), t \in Positive, g \in Grants
  <2> QED
    BY <2>2, <2>4
<1>5. Feeds(g)
  BY <1>1, <1>2, <1>3, <1>4 DEF Feeds, ReadyInTime
<1>6. Len(turns') = Len(turns) + 1
  BY <1>5, FeedsKeep
<1>7. PICK k \in ClaudeCall : /\ k = [at |-> "ack", grant |-> g, on |-> on, turn |-> Len(turns) + 1]
                              /\ CallShape(k, Len(procs'), Len(turns')) /\ k.at = "ack"
  <2>1. Len(turns) + 1 \in Nat /\ on \in Nat /\ on <= Len(procs')
    BY <1>4
  <2>2. [at |-> "ack", grant |-> g, on |-> on, turn |-> Len(turns) + 1] \in ClaudeCall
    BY <2>1 DEF ClaudeCall, Points
  <2>3. PICK k : k = [at |-> "ack", grant |-> g, on |-> on, turn |-> Len(turns) + 1]
    OBVIOUS
  <2>4. k.at = "ack" /\ k.grant = g /\ k.on = on /\ k.turn = Len(turns) + 1
    BY <2>3
  <2>5. CallShape(k, Len(procs'), Len(turns'))
    BY <1>6, <2>1, <2>4 DEF CallShape
  <2> QED
    BY <2>2, <2>3, <2>4, <2>5
<1>8. call' = [call EXCEPT ![c] = k]
  <2>1. call' = [call EXCEPT ![c].at = "ack", ![c].on = s.query, ![c].turn = Len(turns) + 1]
    BY DEF ReadyInTime
  <2>2. call \in [Claude!Callers -> ClaudeCall] /\ call[c] \in ClaudeCall
    BY DEF ClaudeTypes
  <2>3. call' = [call EXCEPT ![c] = [call[c] EXCEPT !.at = "ack", !.on = s.query, !.turn = Len(turns) + 1]]
    BY <2>1, <2>2
  <2>4. [call[c] EXCEPT !.at = "ack", !.on = s.query, !.turn = Len(turns) + 1] = k
    <3>1. PICK r \in ClaudeCall, n \in Nat : r = call[c] /\ n = Len(turns) + 1
      BY <2>2
    <3>2. k.grant = r.grant /\ k.at = "ack" /\ k.on = on /\ k.turn = n
      BY <1>7, <3>1
    <3>3. [r EXCEPT !.at = "ack", !.on = on, !.turn = n] = k
      BY <3>2 DEF ClaudeCall
    <3> QED
      BY <1>1, <3>1, <3>3
  <2> QED
    BY <2>3, <2>4
<1>9. /\ call' \in [Claude!Callers -> ClaudeCall] /\ call'[c] = k
      /\ \A d \in Claude!Callers : CallShape(call'[d], Len(procs'), Len(turns'))
      /\ \A d \in Claude!Callers : d # c => call'[d] = call[d]
  <2>1. Len(procs') \in Nat /\ Len(procs') >= Len(procs) /\ Len(turns') \in Nat /\ Len(turns') >= Len(turns)
    BY <1>4, <1>6
  <2> QED
    BY <1>7, <1>8, <2>1, OneCallTypes
<1>10. ClaudeTypes'
  <2>1. s'.query <= Len(procs') /\ loop'.on <= Len(procs') /\ policy' \in Boundaries
        /\ loop' \in [at : {"idle", "drain"}, grant : Grants \cup {None}, on : Nat]
    BY <1>3, <1>4 DEF ClaudeTypes
  <2> QED
    BY <1>3, <1>4, <1>5, <1>9, <2>1, FeedsKeep DEF ClaudeTypes
<1>11. \A d \in Claude!Callers : d # c => call[d].at = "idle"
  BY DEF ClaudeInv, OneCaller
<1>12. OneCaller' /\ \A d \in Claude!Callers : CallerRules(d)'
  <2>1. k = call'[c] => CallerRules(c)'
    BY <1>7 DEF CallerRules, Launching
  <2> QED
    BY <1>8, <1>11, <2>1, OneCallerMoves
<1>13. BoundaryIsKnown' /\ LoopRules'
  BY <1>1, <1>3, <1>4 DEF BoundaryIsKnown, LoopRules
<1> QED
  BY <1>5, <1>10, <1>12, <1>13, FeedsKeep DEF ClaudeInv

LEMMA DeliverReadyStep ==
  ASSUME ClaudeTypes, ClaudeInv, ~Claude!Continuing, NEW c \in Claude!Callers, Claude!DeliverReady(c)
  PROVE  /\ ClaudeTypes' /\ ClaudeInv'
         /\ (ReadyTooLate(c) /\ call' = [call EXCEPT ![c] = Claude!Idle])
            \/ \E g \in Grants : Feeds(g) /\ \E k : call' = [call EXCEPT ![c] = k]
<1> USE ClaudeFacts
<1>1. /\ call[c].at \in {"launch", "relaunch"} /\ call[c].at \in Launching /\ Claude!Ready(c)
      /\ loop' = loop /\ policy' = policy /\ call[c].on # 0
  BY DEF Claude!DeliverReady, Claude!world, Launching, Claude!Ready
<1>2. loop.at = "idle"
  BY <1>1, ReadyIsUndisturbed
<1>3. PICK g \in Grants : g = call[c].grant
  BY <1>1 DEF ClaudeTypes, CallShape
<1>4. PICK w \in ClaudeS : /\ w = Claude!WithProcess(c) /\ w.query = s.query /\ w.bound = s.bound /\ w.pending = s.pending
                           /\ w.state = "idle" /\ w.init = TRUE /\ w.ctx = s.ctx
                           /\ [db EXCEPT !.init = TRUE, !.state = "idle"] = Claude!Row(w)
  BY <1>1, WithProcessFacts
<1>5. s.query \in {call[c].on, 0} /\ s.bound \in {None, g}
  BY <1>1, <1>3 DEF ClaudeInv, CallerRules
<1>6. CASE s.query = 0
  <2>1. ReadyTooLate(c) /\ call' = [call EXCEPT ![c] = Claude!Idle]
    BY <1>4, <1>6 DEF Claude!DeliverReady, ReadyTooLate, Claude!Return
  <2> QED
    BY <1>1, <1>2, <1>6, <2>1, ReadyTooLateStep
<1>7. CASE s.query # 0
  <2>1. (IF w.bound = None THEN g ELSE w.bound) = g
    BY <1>4, <1>5
  <2>2. /\ s' = [w EXCEPT !.bound = g, !.accepting = TRUE, !.pending = w.pending \cup {Len(turns) + 1}]
        /\ turns' = Append(turns, g)
        /\ procs' = Claude!Up(call[c].on, [procs EXCEPT ![w.query].inbox = Append(@, Len(turns) + 1),
                                                        ![w.query].fed = @ \cup {g}])
        /\ call' = [call EXCEPT ![c].at = "ack", ![c].on = w.query, ![c].turn = Len(turns) + 1]
        /\ db' = [db EXCEPT !.init = TRUE, !.state = "idle", !.bound = IF w.bound = None THEN g ELSE @]
    BY <1>3, <1>4, <1>7, <2>1 DEF Claude!DeliverReady
  <2>3. db' = Claude!Row(s')
    <3>1. db \in StoredRow /\ db.bound = w.bound /\ db.ctx = w.ctx
      BY <1>4 DEF ClaudeTypes, Claude!Row, StoredRow, ClaudeS
    <3>2. PICK b \in Grants : b = (IF w.bound = None THEN g ELSE db.bound) /\ b = g
      BY <1>4, <1>5, <3>1
    <3>3. db' = [db EXCEPT !.init = TRUE, !.state = "idle", !.bound = b]
      BY <2>2, <3>2
    <3>4. s'.state = "idle" /\ s'.init = TRUE /\ s'.bound = b /\ s'.ctx = w.ctx
      BY <1>4, <2>2, <3>2 DEF ClaudeS
    <3> QED
      BY <3>1, <3>3, <3>4, BoundRowOfTheProcess
  <2>4. ReadyInTime(c, g)
    BY <1>4, <1>5, <1>7, <2>2, <2>3 DEF ReadyInTime
  <2>5. ClaudeTypes' /\ ClaudeInv' /\ Feeds(g)
    BY <1>1, <1>2, <1>3, <1>5, <1>7, <2>4, ReadyInTimeStep
  <2>6. call \in [Claude!Callers -> ClaudeCall] /\ call[c] \in ClaudeCall
    BY DEF ClaudeTypes
  <2>7. call' = [call EXCEPT ![c] = [call[c] EXCEPT !.at = "ack", !.on = w.query, !.turn = Len(turns) + 1]]
    BY <2>2, <2>6
  <2> QED
    BY <2>5, <2>7
<1> QED
  BY <1>6, <1>7

LEMMA RebuildReadyStep ==
  ASSUME ClaudeTypes, ClaudeInv, ~Claude!Continuing, Claude!RebuildReady
  PROVE  ClaudeTypes' /\ ClaudeInv'
<1> USE ClaudeFacts
<1>1. PICK c \in Claude!Callers : c = "recovery"
  BY DEF Claude!Callers
<1>2. /\ call[c].at \in Launching /\ Claude!Ready(c) /\ ReadyTooLate(c) /\ loop' = loop /\ policy' = policy
      /\ call' = [call EXCEPT ![c] = [at |-> "resume", grant |-> call[c].grant, on |-> 0, turn |-> 0]]
  BY <1>1 DEF Claude!RebuildReady, Claude!Wait, Claude!world, Launching, ReadyTooLate
<1>3. loop.at = "idle"
  BY <1>2, ReadyIsUndisturbed
<1>4. PICK k \in ClaudeCall : /\ k = [at |-> "resume", grant |-> call[c].grant, on |-> 0, turn |-> 0]
                              /\ k.at = "resume" /\ k.grant \in Grants /\ k.on = 0 /\ k.turn = 0
  <2>1. call[c].grant \in Grants
    BY <1>2 DEF ClaudeTypes, CallShape, Launching
  <2>2. PICK k : k = [at |-> "resume", grant |-> call[c].grant, on |-> 0, turn |-> 0]
    OBVIOUS
  <2>3. k \in ClaudeCall
    BY <2>1, <2>2 DEF ClaudeCall, Points
  <2> QED
    BY <2>1, <2>2, <2>3
<1>5. /\ s' \in ClaudeS /\ db' = Claude!Row(s') /\ s'.query = s.query
      /\ s'.pending = {} /\ s'.turns = <<>> /\ DOMAIN s'.turns = {} /\ s'.sandbox = procs[call[c].on].box
      /\ procs' \in Seq(Process) /\ Len(procs') = Len(procs) /\ turns' = turns
      /\ \A p \in 1 .. Len(procs) : procs'[p].box = procs[p].box
  BY <1>2, ReadyTooLateKeeps DEF ReadyTooLate
<1>6. CallShape(k, Len(procs'), Len(turns'))
  BY <1>4, <1>5 DEF CallShape
<1>7. /\ call' \in [Claude!Callers -> ClaudeCall] /\ call'[c] = k
      /\ \A d \in Claude!Callers : CallShape(call'[d], Len(procs'), Len(turns'))
  <2>1. Len(procs') \in Nat /\ Len(procs') >= Len(procs) /\ Len(turns') \in Nat /\ Len(turns') >= Len(turns)
    BY <1>5
  <2> QED
    BY <1>2, <1>4, <1>6, <2>1, OneCallTypes
<1>8. ClaudeTypes'
  <2>1. s'.query <= Len(procs') /\ loop'.on <= Len(procs') /\ turns' \in Seq(Grants) /\ policy' \in Boundaries
        /\ loop' \in [at : {"idle", "drain"}, grant : Grants \cup {None}, on : Nat]
    BY <1>2, <1>5 DEF ClaudeTypes
  <2> QED
    BY <1>2, <1>5, <1>7, <2>1, ReadyTooLateKeeps DEF ClaudeTypes
<1>9. OneCaller' /\ \A d \in Claude!Callers : CallerRules(d)'
  <2>1. \A d \in Claude!Callers : d # c => call[d].at = "idle"
    BY <1>2 DEF ClaudeInv, OneCaller, Launching
  <2>2. k = call'[c] => CallerRules(c)'
    BY <1>2, <1>3, <1>4, <1>5 DEF CallerRules, Launching
  <2> QED
    BY <1>2, <1>4, <2>1, <2>2, OneCallerMoves
<1>10. LoopRules'
  BY <1>2, <1>3 DEF LoopRules
<1>11. BoundaryIsKnown'
  <2>1. s.query \in {call[c].on, 0}
    BY <1>2 DEF ClaudeInv, CallerRules
  <2> QED
    BY <1>5, <2>1 DEF BoundaryIsKnown
<1> QED
  BY <1>2, <1>8, <1>9, <1>10, <1>11, ReadyTooLateKeeps DEF ClaudeInv

\* One process changes, in its inbox and its work.
LEMMA OneProcess ==
  ASSUME ClaudeTypes, NEW q \in 1 .. Len(procs), NEW r \in Process, procs' = [procs EXCEPT ![q] = r]
  PROVE  /\ procs' \in Seq(Process) /\ Len(procs') = Len(procs) /\ DOMAIN procs' = 1 .. Len(procs)
         /\ procs'[q] = r /\ \A p \in 1 .. Len(procs) : p # q => procs'[p] = procs[p]
<1>1. PICK P : P = Process
  OBVIOUS
<1>2. procs \in Seq(P) /\ r \in P
  BY <1>1 DEF ClaudeTypes
<1>3. /\ procs' \in Seq(P) /\ Len(procs') = Len(procs) /\ DOMAIN procs' = 1 .. Len(procs)
      /\ procs'[q] = r /\ \A p \in 1 .. Len(procs) : p # q => procs'[p] = procs[p]
  BY ONLY <1>2, procs' = [procs EXCEPT ![q] = r], q \in 1 .. Len(procs)
<1> QED
  BY <1>1, <1>3

\* No turn is pushed: no conversation is given anything, and no call begins to await a turn.
NoTurn ==
    /\ turns' = turns
    /\ Len(procs) <= Len(procs') /\ Len(procs') \in Nat /\ DOMAIN procs' = 1 .. Len(procs')
    /\ \A p \in 1 .. Len(procs) : procs'[p].ctx = procs[p].ctx /\ procs'[p].fed = procs[p].fed
    /\ \A p \in 1 .. Len(procs') : p \in 1 .. Len(procs) \/ procs'[p].fed = {}
    /\ \A c \in Claude!Callers : call'[c].at = "ack" => call[c].at \notin {"idle", "resume"}

\* The turn n is one of the grants that a process was given.
IsFor(n, grants) == n \in 1 .. Len(turns) /\ turns[n] \in grants

\* The SDK moves on: process q has become r, which waits for and works on turns of the grants that
\* it was given; the session has fewer pending turns, and the calls that awaited them may be over.
SdkMoves(q, r) ==
    /\ procs' = [procs EXCEPT ![q] = r]
    /\ r.ctx = procs[q].ctx /\ r.box = procs[q].box /\ r.closing = procs[q].closing /\ r.fed = procs[q].fed
    /\ r.life \in {procs[q].life, "ended"}
    /\ \A n \in DOMAIN r.inbox : IsFor(r.inbox[n], procs[q].fed)
    /\ \A n \in DOMAIN r.work : IsFor(r.work[n], procs[q].fed)
    /\ s'.query = s.query /\ s'.bound = s.bound /\ s'.ctx = s.ctx /\ s'.sandbox = s.sandbox
    /\ \A t \in s'.pending : IsFor(t, {s.bound})
    /\ \A n \in DOMAIN s'.turns : IsFor(s'.turns[n], {s.bound})
    /\ s.pending = {} /\ s.turns = <<>> => s'.pending = {} /\ s'.turns = <<>>
    /\ \A c \in Claude!Callers : call'[c] = call[c] \/ (call[c].at \in {"push", "ack"} /\ call'[c] = Claude!Idle)
    /\ loop' = loop /\ turns' = turns /\ policy' = policy

LEMMA SdkMovesKeep ==
  ASSUME ClaudeTypes, ClaudeInv, NEW q \in 1 .. Len(procs), NEW r \in Process, SdkMoves(q, r),
         s' \in ClaudeS, db' = Claude!Row(s'), call' \in [Claude!Callers -> ClaudeCall]
  PROVE  ClaudeTypes' /\ ClaudeInv' /\ NoTurn
<1> USE ClaudeFacts
<1>1. /\ procs' \in Seq(Process) /\ Len(procs') = Len(procs) /\ DOMAIN procs' = 1 .. Len(procs)
      /\ procs'[q] = r /\ \A p \in 1 .. Len(procs) : p # q => procs'[p] = procs[p]
  BY OneProcess DEF SdkMoves
<1>2. \A p \in 1 .. Len(procs) : /\ procs'[p].ctx = procs[p].ctx /\ procs'[p].box = procs[p].box
                                 /\ procs'[p].closing = procs[p].closing /\ procs'[p].fed = procs[p].fed
                                 /\ procs'[p].life \in {procs[p].life, "ended"}
  BY <1>1 DEF SdkMoves
<1>3. /\ s'.query = s.query /\ s'.bound = s.bound /\ s'.ctx = s.ctx /\ s'.sandbox = s.sandbox
      /\ loop' = loop /\ turns' = turns /\ policy' = policy
  BY DEF SdkMoves
<1>4. \A c \in Claude!Callers : call'[c] = call[c] \/ (call[c].at \in {"push", "ack"} /\ call'[c] = Claude!Idle)
  BY DEF SdkMoves
<1>5. \A c \in Claude!Callers : CallShape(call'[c], Len(procs'), Len(turns'))
  <2>1. CallShape(Claude!Idle, Len(procs'), Len(turns'))
    BY <1>1, <1>3, IdleIsACall DEF CallShape
  <2>2. \A c \in Claude!Callers : CallShape(call[c], Len(procs'), Len(turns'))
    BY <1>1, <1>3 DEF ClaudeTypes
  <2> QED
    BY <1>4, <2>1, <2>2
<1>6. ASSUME NEW p \in 1 .. Len(procs)
      PROVE  /\ \A n \in DOMAIN procs'[p].inbox : IsFor(procs'[p].inbox[n], procs[p].fed)
             /\ \A n \in DOMAIN procs'[p].work : IsFor(procs'[p].work[n], procs[p].fed)
  <2>1. CASE p = q
    BY <1>1, <2>1 DEF SdkMoves
  <2>2. CASE p # q
    <3>1. /\ \A n \in DOMAIN procs[p].inbox : procs[p].inbox[n] \in Positive
          /\ \A n \in DOMAIN procs[p].work : procs[p].work[n] \in Positive
      OBVIOUS
    <3>2. /\ \A n \in DOMAIN procs[p].inbox : procs[p].inbox[n] <= Len(turns)
          /\ \A n \in DOMAIN procs[p].work : procs[p].work[n] <= Len(turns)
      BY DEF ClaudeTypes
    <3>3. /\ \A n \in DOMAIN procs[p].inbox : procs[p].inbox[n] \in 1 .. Len(turns)
          /\ \A n \in DOMAIN procs[p].work : procs[p].work[n] \in 1 .. Len(turns)
      BY <3>1, <3>2 DEF Positive
    <3>4. /\ \A n \in DOMAIN procs[p].inbox : turns[procs[p].inbox[n]] \in procs[p].fed
          /\ \A n \in DOMAIN procs[p].work : turns[procs[p].work[n]] \in procs[p].fed
      BY DEF ClaudeInv, TurnsAreOfTheGrant
    <3> QED
      BY <1>1, <2>2, <3>3, <3>4 DEF IsFor
  <2> QED
    BY <2>1, <2>2
<1>7. /\ \A p \in 1 .. Len(procs) :
            /\ \A n \in DOMAIN procs'[p].inbox : procs'[p].inbox[n] <= Len(turns')
            /\ \A n \in DOMAIN procs'[p].work : procs'[p].work[n] <= Len(turns')
      /\ \A t \in s'.pending : t <= Len(turns') /\ turns'[t] = s'.bound
      /\ \A n \in DOMAIN s'.turns : s'.turns[n] <= Len(turns') /\ turns'[s'.turns[n]] = s'.bound
  BY <1>3, <1>6 DEF IsFor, SdkMoves
<1>8. \A p \in 1 .. Len(procs) :
            /\ \A n \in DOMAIN procs'[p].inbox : turns'[procs'[p].inbox[n]] \in procs'[p].fed
            /\ \A n \in DOMAIN procs'[p].work : turns'[procs'[p].work[n]] \in procs'[p].fed
  BY <1>2, <1>3, <1>6 DEF IsFor
<1>9. ClaudeTypes'
  <2>1. /\ s'.query <= Len(procs') /\ loop'.on <= Len(procs') /\ policy' \in Boundaries /\ turns' \in Seq(Grants)
        /\ loop' \in [at : {"idle", "drain"}, grant : Grants \cup {None}, on : Nat]
    BY <1>1, <1>3 DEF ClaudeTypes
  <2> QED
    BY <1>1, <1>5, <1>7, <2>1 DEF ClaudeTypes
<1>10. TurnsAreOfTheGrant'
  BY <1>1, <1>7, <1>8 DEF TurnsAreOfTheGrant
<1>11. ConversationsAreSeparate'
  <2>1. \A p, o \in 1 .. Len(procs) : procs[p].ctx = procs[o].ctx => \A g \in procs[p].fed, h \in procs[o].fed : g = h
    BY DEF ClaudeInv, ConversationsAreSeparate
  <2>2. \A p \in 1 .. Len(procs) : procs'[p].fed = procs[p].fed /\ procs'[p].ctx = procs[p].ctx
    BY <1>2
  <2>3. \A p, o \in 1 .. Len(procs) : procs'[p].ctx = procs'[o].ctx => \A g \in procs'[p].fed, h \in procs'[o].fed : g = h
    BY ONLY <2>1, <2>2
  <2>4. \A p \in 1 .. Len(procs) : procs'[p].ctx = s'.ctx => procs'[p].fed \subseteq {s'.bound}
    BY <1>3, <2>2 DEF ClaudeInv, ConversationsAreSeparate
  <2>5. s'.query # 0 => procs'[s'.query].ctx = s'.ctx
    BY <1>3, <2>2 DEF ClaudeInv, ConversationsAreSeparate
  <2> QED
    BY <1>1, <2>3, <2>4, <2>5 DEF ConversationsAreSeparate
<1>12. OthersAreUnfed'
  BY <1>1, <1>2, <1>3 DEF ClaudeInv, OthersAreUnfed
<1>13. OneCaller'
  BY <1>4, IdleIsACall DEF ClaudeInv, OneCaller
<1>14. ASSUME NEW c \in Claude!Callers  PROVE CallerRules(c)'
  <2>1. CASE call'[c] = Claude!Idle
    BY <2>1, IdleIsACall DEF CallerRules, Launching
  <2>2. CASE call'[c] = call[c]
    <3>1. CallerRules(c) /\ call[c].on \in Nat
      BY DEF ClaudeInv
    <3>2. s.pending = {} /\ s.turns = <<>> => s'.pending = {} /\ s'.turns = <<>>
      BY DEF SdkMoves
    <3>3. call[c].at \in Launching => call[c].on \in 1 .. Len(procs)
      BY DEF ClaudeTypes, CallShape, Launching
    <3> QED
      BY <1>2, <1>3, <2>2, <3>1, <3>2, <3>3 DEF CallerRules
  <2> QED
    BY <1>4, <2>1, <2>2
<1>15. LoopRules'
  <2>1. \A p \in 1 .. Len(procs) : procs[p].life = "ended" => procs'[p].life = "ended"
    BY <1>2
  <2> QED
    BY <1>2, <1>3, <2>1 DEF ClaudeInv, LoopRules, Claude!Ended
<1>16. BoundaryIsKnown'
  <2>1. \A c \in Claude!Callers : call'[c].at \notin Launching => call[c].at \notin Launching
    BY <1>4 DEF Launching
  <2>2. s.query # 0 /\ procs'[s.query].life # "ended" => procs[s.query].life # "ended"
    BY <1>2
  <2> QED
    BY <1>2, <1>3, <2>1, <2>2 DEF ClaudeInv, BoundaryIsKnown
<1>17. NoTurn
  <2>1. \A p \in 1 .. Len(procs') : p \in 1 .. Len(procs)
    BY <1>1
  <2>2. Len(procs) <= Len(procs')
    BY <1>1
  <2> QED
    BY <1>1, <1>2, <1>3, <1>4, <2>1, <2>2, IdleIsACall DEF NoTurn
<1> QED
  BY <1>17, <1>9, <1>10, <1>11, <1>12, <1>13, <1>14, <1>15, <1>16 DEF ClaudeInv

LEMMA QueuesAreFor ==
  ASSUME ClaudeTypes, ClaudeInv
  PROVE  /\ \A p \in 1 .. Len(procs) :
               /\ \A n \in DOMAIN procs[p].inbox : IsFor(procs[p].inbox[n], procs[p].fed)
               /\ \A n \in DOMAIN procs[p].work : IsFor(procs[p].work[n], procs[p].fed)
         /\ \A t \in s.pending : IsFor(t, {s.bound})
         /\ \A n \in DOMAIN s.turns : IsFor(s.turns[n], {s.bound})
<1> USE ClaudeFacts
<1>1. /\ \A p \in 1 .. Len(procs) : /\ \A n \in DOMAIN procs[p].inbox : procs[p].inbox[n] \in Positive
                                    /\ \A n \in DOMAIN procs[p].work : procs[p].work[n] \in Positive
      /\ \A t \in s.pending : t \in Positive
      /\ \A n \in DOMAIN s.turns : s.turns[n] \in Positive
  OBVIOUS
<1>2. /\ \A p \in 1 .. Len(procs) : /\ \A n \in DOMAIN procs[p].inbox : procs[p].inbox[n] <= Len(turns)
                                    /\ \A n \in DOMAIN procs[p].work : procs[p].work[n] <= Len(turns)
      /\ \A t \in s.pending : t <= Len(turns)
      /\ \A n \in DOMAIN s.turns : s.turns[n] <= Len(turns)
  BY DEF ClaudeTypes
<1>3. \A t \in Positive : t <= Len(turns) => t \in 1 .. Len(turns)
  BY DEF Positive
<1>4. /\ \A p \in 1 .. Len(procs) : /\ \A n \in DOMAIN procs[p].inbox : turns[procs[p].inbox[n]] \in procs[p].fed
                                    /\ \A n \in DOMAIN procs[p].work : turns[procs[p].work[n]] \in procs[p].fed
      /\ \A t \in s.pending : turns[t] = s.bound
      /\ \A n \in DOMAIN s.turns : turns[s.turns[n]] = s.bound
  BY DEF ClaudeInv, TurnsAreOfTheGrant
<1> QED
  BY <1>1, <1>2, <1>3, <1>4 DEF IsFor

\* The queue without its head, and with one more.
LEMMA TailOfTurns ==
  ASSUME NEW q \in Seq(Positive), q # <<>>, NEW grants, \A n \in DOMAIN q : IsFor(q[n], grants)
  PROVE  /\ Head(q) \in Positive /\ IsFor(Head(q), grants)
         /\ Tail(q) \in Seq(Positive) /\ \A n \in DOMAIN Tail(q) : IsFor(Tail(q)[n], grants)
<1>1. Len(q) \in Nat /\ Len(q) >= 1 /\ Head(q) = q[1] /\ 1 \in DOMAIN q /\ DOMAIN q = 1 .. Len(q)
  OBVIOUS
<1>2. Tail(q) \in Seq(Positive) /\ \A n \in DOMAIN Tail(q) : n + 1 \in DOMAIN q /\ Tail(q)[n] = q[n + 1]
  BY <1>1
<1> QED
  BY <1>1, <1>2

LEMMA MoreTurns ==
  ASSUME NEW q \in Seq(Positive), NEW t \in Positive, NEW grants, \A n \in DOMAIN q : IsFor(q[n], grants), IsFor(t, grants)
  PROVE  Append(q, t) \in Seq(Positive) /\ \A n \in DOMAIN Append(q, t) : IsFor(Append(q, t)[n], grants)
<1>1. /\ DOMAIN Append(q, t) = 1 .. Len(q) + 1 /\ DOMAIN q = 1 .. Len(q) /\ Len(q) \in Nat
      /\ \A n \in 1 .. Len(q) : Append(q, t)[n] = q[n]
      /\ Append(q, t)[Len(q) + 1] = t
  BY AppendedTurn
<1>2. \A n \in 1 .. Len(q) + 1 : n \in 1 .. Len(q) \/ n = Len(q) + 1
  BY <1>1
<1> QED
  BY <1>1, <1>2

\* The input at the head of a process's queue is echoed, and worked on.
LEMMA EchoStep ==
  ASSUME ClaudeTypes, ClaudeInv, NEW q \in Claude!Queries, Claude!Echo(q)
  PROVE  ClaudeTypes' /\ ClaudeInv' /\ NoTurn
<1> USE ClaudeFacts, QueuesAreFor
<1>1. q \in 1 .. Len(procs) /\ procs[q].inbox # <<>> /\ loop' = loop /\ turns' = turns /\ policy' = policy
  BY DEF Claude!Echo, Claude!Queries, Claude!world
<1>2. PICK t : t = Head(procs[q].inbox)
  OBVIOUS
<1>3. PICK inbox, work : inbox = procs[q].inbox /\ work = procs[q].work
  OBVIOUS
<1>4. /\ inbox \in Seq(Positive) /\ inbox # <<>> /\ \A n \in DOMAIN inbox : IsFor(inbox[n], procs[q].fed)
      /\ work \in Seq(Positive) /\ \A n \in DOMAIN work : IsFor(work[n], procs[q].fed)
  BY <1>1, <1>3
<1>5. /\ t \in Positive /\ IsFor(t, procs[q].fed)
      /\ Tail(inbox) \in Seq(Positive) /\ \A n \in DOMAIN Tail(inbox) : IsFor(Tail(inbox)[n], procs[q].fed)
  BY <1>2, <1>3, <1>4, TailOfTurns
<1>6. Append(work, t) \in Seq(Positive) /\ \A n \in DOMAIN Append(work, t) : IsFor(Append(work, t)[n], procs[q].fed)
  BY <1>4, <1>5, MoreTurns
<1>7. PICK p \in Process, x \in Seq(Positive), y \in Seq(Positive) : p = procs[q] /\ x = Tail(inbox) /\ y = Append(work, t)
  BY <1>1, <1>5, <1>6
<1>8. PICK r : r = [p EXCEPT !.inbox = x, !.work = y]
  OBVIOUS
<1>9. /\ r \in Process /\ r.ctx = p.ctx /\ r.box = p.box /\ r.closing = p.closing /\ r.fed = p.fed /\ r.life = p.life
      /\ r.inbox = x /\ r.work = y
  BY <1>7, <1>8 DEF Process
<1>10. procs' = [procs EXCEPT ![q] = r]
  <2>1. procs' = [procs EXCEPT ![q].inbox = Tail(@), ![q].work = Append(@, t)]
    BY <1>2 DEF Claude!Echo
  <2>2. procs' = [procs EXCEPT ![q] = [procs[q] EXCEPT !.inbox = Tail(procs[q].inbox), !.work = Append(procs[q].work, t)]]
    BY <1>1, <2>1
  <2> QED
    BY <1>3, <1>7, <1>8, <2>2
<1>11. CASE t \in s.pending
  <2>1. /\ s' = [s EXCEPT !.pending = s.pending \ {t}, !.turns = Append(s.turns, t), !.state = "busy", !.accepting = FALSE]
        /\ db' = [db EXCEPT !.state = "busy"]
        /\ call' = [c \in Claude!Callers |-> IF call[c].turn = t THEN Claude!Idle ELSE call[c]]
    BY <1>2, <1>11 DEF Claude!Echo, Claude!Heeded
  <2>2. IsFor(t, {s.bound})
    BY <1>11
  <2>3. PICK given : given = s.turns
    OBVIOUS
  <2>4. given \in Seq(Positive) /\ \A n \in DOMAIN given : IsFor(given[n], {s.bound})
    BY <2>3
  <2>5. Append(given, t) \in Seq(Positive) /\ \A n \in DOMAIN Append(given, t) : IsFor(Append(given, t)[n], {s.bound})
    BY <1>5, <2>2, <2>4, MoreTurns
  <2>6. PICK more \in Seq(Positive), less \in SUBSET Positive : more = Append(given, t) /\ less = s.pending \ {t}
    BY <2>5
  <2>7. s' = [s EXCEPT !.pending = less, !.turns = more, !.state = "busy", !.accepting = FALSE]
    BY <2>1, <2>3, <2>6
  <2>8. /\ s' \in ClaudeS /\ s'.query = s.query /\ s'.bound = s.bound /\ s'.ctx = s.ctx /\ s'.sandbox = s.sandbox
        /\ s'.pending = less /\ s'.turns = more /\ s'.state = "busy" /\ s'.init = s.init
    BY <2>7 DEF ClaudeS, Claude!States
  <2>9. db' = Claude!Row(s')
    BY <2>1, <2>8 DEF ClaudeTypes, Claude!Row
  <2>10. /\ call' \in [Claude!Callers -> ClaudeCall]
         /\ \A c \in Claude!Callers : call'[c] = call[c] \/ (call[c].at \in {"push", "ack"} /\ call'[c] = Claude!Idle)
    <3>1. \A c \in Claude!Callers : call[c].turn = t => call[c].at \in {"push", "ack"}
      BY <1>5 DEF ClaudeTypes, CallShape, Positive
    <3> QED
      BY <2>1, <3>1, IdleIsACall
  <2>11. (\A u \in s'.pending : IsFor(u, {s.bound})) /\ (\A n \in DOMAIN s'.turns : IsFor(s'.turns[n], {s.bound}))
    BY <2>5, <2>6, <2>8
  <2>12. s.pending # {}
    BY <1>11
  <2>13. SdkMoves(q, r)
    BY <1>1, <1>5, <1>6, <1>7, <1>9, <1>10, <2>8, <2>10, <2>11, <2>12 DEF SdkMoves
  <2> QED
    BY <1>1, <1>9, <2>8, <2>9, <2>10, <2>13, SdkMovesKeep
<1>12. CASE t \notin s.pending
  <2>1. s' = s /\ db' = db /\ call' = call
    BY <1>2, <1>12 DEF Claude!Echo, Claude!Heeded
  <2>2. SdkMoves(q, r)
    BY <1>1, <1>5, <1>6, <1>7, <1>9, <1>10, <2>1 DEF SdkMoves
  <2>3. s' \in ClaudeS /\ db' = Claude!Row(s') /\ call' \in [Claude!Callers -> ClaudeCall]
    BY <2>1 DEF ClaudeTypes
  <2> QED
    BY <1>1, <1>9, <2>2, <2>3, SdkMovesKeep
<1> QED
  BY <1>11, <1>12

\* An answer is of the turn at the head of a process's work, and goes to the turn at the head of
\* the session's; both are turns of the session's grant.
LEMMA ResultStep ==
  ASSUME ClaudeTypes, ClaudeInv, NEW q \in Claude!Queries, Claude!Result(q)
  PROVE  /\ ClaudeTypes' /\ ClaudeInv' /\ NoTurn
         /\ s.turns # <<>> => /\ IsFor(Head(s.turns), {s.bound}) /\ IsFor(Head(procs[q].work), procs[q].fed)
                              /\ procs[q].fed \subseteq {s.bound}
<1> USE ClaudeFacts, QueuesAreFor
<1>1. /\ q \in 1 .. Len(procs) /\ procs[q].life = "up" /\ procs[q].work # <<>>
      /\ loop' = loop /\ turns' = turns /\ policy' = policy /\ call' = call
  BY DEF Claude!Result, Claude!Running, Claude!Queries, Claude!world
<1>2. PICK work \in Seq(Positive) : work = procs[q].work
  BY <1>1
<1>3. work # <<>> /\ \A n \in DOMAIN work : IsFor(work[n], procs[q].fed)
  BY <1>1, <1>2
<1>4. /\ IsFor(Head(work), procs[q].fed)
      /\ Tail(work) \in Seq(Positive) /\ \A n \in DOMAIN Tail(work) : IsFor(Tail(work)[n], procs[q].fed)
  BY <1>3, TailOfTurns
<1>5. PICK p \in Process, y \in Seq(Positive) : p = procs[q] /\ y = Tail(work)
  BY <1>1, <1>4
<1>6. PICK r : r = [p EXCEPT !.work = y]
  OBVIOUS
<1>7. /\ r \in Process /\ r.ctx = p.ctx /\ r.box = p.box /\ r.closing = p.closing /\ r.fed = p.fed /\ r.life = p.life
      /\ r.inbox = p.inbox /\ r.work = y
  BY <1>5, <1>6 DEF Process
<1>8. procs' = [procs EXCEPT ![q] = r]
  <2>1. procs' = [procs EXCEPT ![q] = [procs[q] EXCEPT !.work = Tail(procs[q].work)]]
    BY <1>1 DEF Claude!Result
  <2> QED
    BY <1>2, <1>5, <1>6, <2>1
<1>9. procs[q].fed \subseteq {s.bound}
  BY <1>1 DEF ClaudeInv, OthersAreUnfed, ConversationsAreSeparate
<1>10. PICK given \in Seq(Positive) : given = s.turns /\ \A n \in DOMAIN given : IsFor(given[n], {s.bound})
  OBVIOUS
<1>11. given # <<>> => /\ IsFor(Head(given), {s.bound})
                       /\ Tail(given) \in Seq(Positive) /\ \A n \in DOMAIN Tail(given) : IsFor(Tail(given)[n], {s.bound})
  BY <1>10, TailOfTurns
<1>12. PICK left \in Seq(Positive), state \in Claude!States :
          /\ s' = [s EXCEPT !.turns = left, !.state = state]
          /\ \A n \in DOMAIN left : IsFor(left[n], {s.bound})
          /\ given = <<>> => left = <<>>
  <2>1. CASE given = <<>>
    <3>1. s' = [s EXCEPT !.state = "idle"] /\ s \in ClaudeS
      BY <1>10, <2>1 DEF Claude!Result
    <3>2. s' = [s EXCEPT !.turns = given, !.state = "idle"]
      BY <1>10, <3>1 DEF ClaudeS
    <3> QED
      BY <1>10, <3>2 DEF Claude!States
  <2>2. CASE given # <<>>
    <3>1. PICK state \in Claude!States : state = IF Len(s.turns) > 1 THEN "busy" ELSE "idle"
      BY DEF Claude!States
    <3>2. s' = [s EXCEPT !.turns = Tail(given), !.state = state]
      BY <1>10, <2>2, <3>1 DEF Claude!Result
    <3> QED
      BY <1>11, <2>2, <3>2
  <2> QED
    BY <2>1, <2>2
<1>13. /\ s' \in ClaudeS /\ s'.query = s.query /\ s'.bound = s.bound /\ s'.ctx = s.ctx /\ s'.sandbox = s.sandbox
       /\ s'.pending = s.pending /\ s'.turns = left /\ s'.state = state /\ s'.init = s.init
  BY <1>12 DEF ClaudeS
<1>14. db' = Claude!Row(s')
  <2>1. db' = [db EXCEPT !.state = s'.state]
    BY DEF Claude!Result
  <2> QED
    BY <1>13, <2>1 DEF ClaudeTypes, Claude!Row
<1>15. SdkMoves(q, r)
  BY <1>1, <1>4, <1>5, <1>7, <1>8, <1>10, <1>12, <1>13 DEF SdkMoves
<1>16. call' \in [Claude!Callers -> ClaudeCall]
  BY <1>1 DEF ClaudeTypes
<1> QED
  BY <1>1, <1>2, <1>4, <1>7, <1>9, <1>10, <1>11, <1>13, <1>14, <1>15, <1>16, SdkMovesKeep

LEMMA StreamEndsStep ==
  ASSUME ClaudeTypes, ClaudeInv, NEW q \in Claude!Queries, NEW error \in BOOLEAN, Claude!StreamEnds(q, error)
  PROVE  ClaudeTypes' /\ ClaudeInv' /\ NoTurn
<1> USE ClaudeFacts, QueuesAreFor
<1>1. q \in 1 .. Len(procs) /\ loop' = loop /\ turns' = turns /\ policy' = policy
  BY DEF Claude!StreamEnds, Claude!Queries, Claude!world
<1>2. PICK p \in Process, x \in Seq(Positive) : p = procs[q] /\ x = <<>> /\ DOMAIN x = {}
  <2>0. <<>> \in Seq(Positive)
    OBVIOUS
  <2>1. PICK x \in Seq(Positive) : x = <<>>
    BY <2>0
  <2>2. DOMAIN x = {}
    BY <2>1
  <2> QED
    BY <1>1, <2>1, <2>2
<1>3. PICK r : r = [p EXCEPT !.life = "ended", !.inbox = x, !.work = x]
  OBVIOUS
<1>4. /\ r \in Process /\ r.ctx = p.ctx /\ r.box = p.box /\ r.closing = p.closing /\ r.fed = p.fed /\ r.life = "ended"
      /\ r.inbox = x /\ r.work = x
  BY <1>3 DEF Process
<1>5. procs' = [procs EXCEPT ![q] = r]
  <2>1. procs' = [procs EXCEPT ![q] = [procs[q] EXCEPT !.life = "ended", !.inbox = <<>>, !.work = <<>>]]
    BY <1>1 DEF Claude!StreamEnds
  <2> QED
    BY <1>2, <1>3, <2>1
<1>6. PICK accepting \in BOOLEAN, pending \in SUBSET Positive, state \in Claude!States :
         /\ s' = [s EXCEPT !.pending = pending, !.accepting = accepting, !.state = state]
         /\ pending \subseteq s.pending
         /\ db' = [db EXCEPT !.state = state]
  <2>1. s \in ClaudeS /\ db = Claude!Row(s)
    BY DEF ClaudeTypes
  <2>2. db = [db EXCEPT !.state = s.state]
    BY <2>1 DEF Claude!Row
  <2>3. s = [s EXCEPT !.pending = s.pending, !.accepting = s.accepting, !.state = s.state]
    BY <2>1 DEF ClaudeS
  <2>4. [s EXCEPT !.state = "closed"] = [s EXCEPT !.pending = s.pending, !.accepting = s.accepting, !.state = "closed"]
    BY <2>1 DEF ClaudeS
  <2>5. {} \in SUBSET Positive /\ FALSE \in BOOLEAN /\ s.pending \in SUBSET Positive /\ s.accepting \in BOOLEAN
        /\ s.state \in Claude!States /\ "closed" \in Claude!States
    BY <2>1 DEF ClaudeS, Claude!States
  <2>6. CASE error
    <3>1. s' = [[s EXCEPT !.pending = {}, !.accepting = FALSE] EXCEPT !.state = "closed"] /\ db' = [db EXCEPT !.state = "closed"]
      BY <2>6 DEF Claude!StreamEnds
    <3>2. [[s EXCEPT !.pending = {}, !.accepting = FALSE] EXCEPT !.state = "closed"]
             = [s EXCEPT !.pending = {}, !.accepting = FALSE, !.state = "closed"]
      OBVIOUS
    <3> QED
      BY <2>5, <3>1, <3>2
  <2>7. CASE ~error /\ ~s.resetting
    <3>1. s' = [s EXCEPT !.state = "closed"] /\ db' = [db EXCEPT !.state = "closed"]
      BY <2>7 DEF Claude!StreamEnds
    <3> QED
      BY <2>4, <2>5, <3>1
  <2>8. CASE ~error /\ s.resetting
    <3>1. s' = s /\ db' = db
      BY <2>8 DEF Claude!StreamEnds
    <3> QED
      BY <2>2, <2>3, <2>5, <3>1
  <2> QED
    BY <2>6, <2>7, <2>8
<1>7. /\ s' \in ClaudeS /\ s'.query = s.query /\ s'.bound = s.bound /\ s'.ctx = s.ctx /\ s'.sandbox = s.sandbox
      /\ s'.pending = pending /\ s'.turns = s.turns /\ s'.state = state /\ s'.init = s.init
  BY <1>6 DEF ClaudeS
<1>8. db' = Claude!Row(s')
  BY <1>6, <1>7 DEF ClaudeTypes, Claude!Row
<1>9. /\ call' \in [Claude!Callers -> ClaudeCall]
      /\ \A c \in Claude!Callers : call'[c] = call[c] \/ (call[c].at \in {"push", "ack"} /\ call'[c] = Claude!Idle)
  <2>1. CASE error
    <3>1. call' = [c \in Claude!Callers |-> IF call[c].at = "ack" /\ call[c].turn \in s.pending THEN Claude!Idle ELSE call[c]]
      BY <2>1 DEF Claude!StreamEnds
    <3> QED
      BY <3>1, IdleIsACall DEF ClaudeTypes
  <2>2. CASE ~error
    <3>1. call' = call
      BY <2>2 DEF Claude!StreamEnds
    <3> QED
      BY <3>1 DEF ClaudeTypes
  <2> QED
    BY <2>1, <2>2
<1>10. s.pending = {} => s'.pending = {}
  BY <1>6, <1>7
<1>11. SdkMoves(q, r)
  BY <1>1, <1>2, <1>4, <1>5, <1>6, <1>7, <1>9, <1>10 DEF SdkMoves
<1> QED
  BY <1>1, <1>4, <1>7, <1>8, <1>9, <1>11, SdkMovesKeep

\* A session as it is loaded: cold, and what was stored.
LoadedAs(sess, id, b) ==
    /\ sess \in ClaudeS /\ sess.query = 0 /\ sess.pending = {} /\ sess.turns = <<>> /\ DOMAIN sess.turns = {}
    /\ sess.ctx = id /\ sess.bound = b

LEMMA LoadedFacts ==
  ASSUME NEW d \in StoredRow, NEW id \in Nat, NEW sess, sess = Claude!Loaded(d, id)
  PROVE  /\ Claude!Discards(d) => LoadedAs(sess, id, None)
         /\ ~Claude!Discards(d) => LoadedAs(sess, d.ctx, d.bound) /\ Claude!Row(sess) = d
<1>1. CASE Claude!Discards(d)
  <2>1. PICK b \in Grants \cup {None}, ctx \in Nat : b = None /\ ctx = id
    OBVIOUS
  <2>2. PICK w : w = Claude!Cold(ctx, b)
    OBVIOUS
  <2>3. w \in ClaudeS /\ w.query = 0 /\ w.bound = b /\ w.pending = {} /\ w.turns = <<>> /\ w.ctx = ctx
    BY <2>1, <2>2, ColdFacts, Zenon
  <2>4. sess = w
    BY <1>1, <2>1, <2>2 DEF Claude!Loaded
  <2> QED
    BY <1>1, <2>1, <2>3, <2>4 DEF LoadedAs
<1>2. CASE ~Claude!Discards(d)
  <2>1. d.ctx \in Nat /\ d.bound \in Grants \cup {None} /\ d.state \in Claude!States /\ d.init \in BOOLEAN
    BY DEF StoredRow
  <2>2. PICK b \in Grants \cup {None}, ctx \in Nat : b = d.bound /\ ctx = d.ctx
    BY <2>1
  <2>3. PICK w : w = Claude!Cold(ctx, b)
    OBVIOUS
  <2>4. w \in ClaudeS /\ w.query = 0 /\ w.bound = b /\ w.pending = {} /\ w.turns = <<>> /\ w.ctx = ctx
    BY <2>2, <2>3, ColdFacts, Zenon
  <2>5. sess = [w EXCEPT !.state = d.state, !.init = d.init]
    BY <1>2, <2>2, <2>3 DEF Claude!Loaded
  <2>6. /\ sess \in ClaudeS /\ sess.query = 0 /\ sess.bound = b /\ sess.pending = {} /\ sess.turns = <<>> /\ sess.ctx = ctx
        /\ sess.state = d.state /\ sess.init = d.init
    BY <2>1, <2>4, <2>5 DEF ClaudeS
  <2>7. Claude!Row(sess) = d
    BY <2>2, <2>6 DEF Claude!Row, StoredRow
  <2> QED
    BY <1>2, <2>2, <2>6, <2>7 DEF LoadedAs
<1> QED
  BY <1>1, <1>2

LEMMA NoTurns == \E x \in Seq(Positive) : x = <<>> /\ DOMAIN x = {}
<1>1. <<>> \in Seq(Positive)
  OBVIOUS
<1>2. PICK x \in Seq(Positive) : x = <<>>
  BY <1>1
<1>3. DOMAIN x = {}
  BY <1>2
<1> QED
  BY <1>2, <1>3

\* Every process has ended.
LEMMA AllEnded ==
  ASSUME ClaudeTypes,
         procs' = [q \in Claude!Queries |-> [procs[q] EXCEPT !.life = "ended", !.closing = TRUE,
                                                              !.inbox = <<>>, !.work = <<>>]]
  PROVE  /\ procs' \in Seq(Process) /\ Len(procs') = Len(procs) /\ DOMAIN procs' = 1 .. Len(procs)
         /\ \A p \in 1 .. Len(procs) :
               /\ procs'[p].ctx = procs[p].ctx /\ procs'[p].fed = procs[p].fed /\ procs'[p].life = "ended"
               /\ DOMAIN procs'[p].inbox = {} /\ DOMAIN procs'[p].work = {}
<1> USE ClaudeFacts
<1>1. PICK P : P = Process
  OBVIOUS
<1>2. PICK x \in Seq(Positive) : x = <<>> /\ DOMAIN x = {}
  BY NoTurns
<1>3. DOMAIN x = {}
  BY <1>2
<1>4. procs' = [q \in 1 .. Len(procs) |-> [procs[q] EXCEPT !.life = "ended", !.closing = TRUE, !.inbox = x, !.work = x]]
  BY <1>2 DEF Claude!Queries
<1>5. ASSUME NEW q \in 1 .. Len(procs)
      PROVE  /\ procs'[q] \in Process /\ procs'[q].ctx = procs[q].ctx /\ procs'[q].fed = procs[q].fed
             /\ procs'[q].life = "ended" /\ procs'[q].inbox = x /\ procs'[q].work = x
  <2>1. PICK r \in Process : r = procs[q]
    OBVIOUS
  <2>2. procs'[q] = [r EXCEPT !.life = "ended", !.closing = TRUE, !.inbox = x, !.work = x]
    BY <1>4, <2>1
  <2>3. PICK e : e = [r EXCEPT !.life = "ended", !.closing = TRUE, !.inbox = x, !.work = x]
    OBVIOUS
  <2>4. e \in Process /\ e.ctx = r.ctx /\ e.fed = r.fed /\ e.life = "ended" /\ e.inbox = x /\ e.work = x
    BY <2>3 DEF Process
  <2> QED
    BY <2>1, <2>2, <2>3, <2>4
<1>6. procs' \in [1 .. Len(procs) -> P]
  BY <1>1, <1>4, <1>5
<1>7. procs' \in Seq(P) /\ Len(procs') = Len(procs) /\ DOMAIN procs' = 1 .. Len(procs)
  BY ONLY <1>6, Len(procs) \in Nat
<1> QED
  BY <1>1, <1>3, <1>5, <1>7

LEMMA RestartStep ==
  ASSUME ClaudeTypes, ClaudeInv, Claude!Restart
  PROVE  ClaudeTypes' /\ ClaudeInv'
<1> USE ClaudeFacts
<1>1. /\ s' = Claude!Loaded(db, Claude!NewId) /\ db' = Claude!Row(s') /\ loop' = Claude!NoLoop
      /\ call' = [c \in Claude!Callers |-> Claude!Idle] /\ turns' = turns /\ policy' = policy
  BY DEF Claude!Restart
<1>2. /\ procs' \in Seq(Process) /\ Len(procs') = Len(procs) /\ DOMAIN procs' = 1 .. Len(procs)
      /\ \A p \in 1 .. Len(procs) :
               /\ procs'[p].ctx = procs[p].ctx /\ procs'[p].fed = procs[p].fed /\ procs'[p].life = "ended"
               /\ DOMAIN procs'[p].inbox = {} /\ DOMAIN procs'[p].work = {}
  BY AllEnded DEF Claude!Restart
<1>3. LoadedAs(s', Claude!NewId, None) \/ LoadedAs(s', s.ctx, s.bound)
  <2>1. db \in StoredRow /\ db.ctx = s.ctx /\ db.bound = s.bound
    BY DEF ClaudeTypes, Claude!Row, ClaudeS, StoredRow
  <2>2. PICK id \in Nat : id = Claude!NewId
    BY NewIdIsNew
  <2>3. s' = Claude!Loaded(db, id)
    BY <1>1, <2>2
  <2>4. LoadedAs(s', id, None) \/ LoadedAs(s', db.ctx, db.bound)
    BY <2>1, <2>3, LoadedFacts
  <2> QED
    BY <2>1, <2>2, <2>4
<1>4. s' \in ClaudeS /\ s'.query = 0 /\ s'.pending = {} /\ s'.turns = <<>> /\ DOMAIN s'.turns = {}
  BY <1>3 DEF LoadedAs
<1>5. loop' \in [at : {"idle", "drain"}, grant : Grants \cup {None}, on : Nat] /\ loop'.on = 0 /\ loop'.at = "idle"
  BY <1>1 DEF Claude!NoLoop
<1>6. call' \in [Claude!Callers -> ClaudeCall] /\ \A c \in Claude!Callers : call'[c] = Claude!Idle
  BY <1>1, IdleIsACall
<1>7. \A c \in Claude!Callers : CallShape(call'[c], Len(procs'), Len(turns'))
  BY <1>1, <1>2, <1>6, IdleIsACall DEF CallShape
<1>8. ClaudeTypes'
  <2>1. turns' \in Seq(Grants) /\ policy' \in Boundaries
    BY <1>1 DEF ClaudeTypes
  <2> QED
    BY <1>1, <1>2, <1>4, <1>5, <1>6, <1>7, <2>1 DEF ClaudeTypes
<1>9. OneCaller' /\ \A c \in Claude!Callers : CallerRules(c)'
  BY <1>6, IdleIsACall DEF OneCaller, CallerRules, Launching
<1>10. LoopRules' /\ BoundaryIsKnown'
  BY <1>4, <1>5 DEF LoopRules, BoundaryIsKnown
<1>11. OthersAreUnfed' /\ TurnsAreOfTheGrant'
  BY <1>2, <1>4 DEF OthersAreUnfed, TurnsAreOfTheGrant
<1>12. ConversationsAreSeparate'
  <2>1. \A p, q \in 1 .. Len(procs) : procs[p].ctx = procs[q].ctx => \A g \in procs[p].fed, h \in procs[q].fed : g = h
    BY DEF ClaudeInv, ConversationsAreSeparate
  <2>2. \A p \in 1 .. Len(procs) : procs'[p].fed = procs[p].fed /\ procs'[p].ctx = procs[p].ctx
    BY <1>2
  <2>3. \A p, q \in 1 .. Len(procs) : procs'[p].ctx = procs'[q].ctx => \A g \in procs'[p].fed, h \in procs'[q].fed : g = h
    BY ONLY <2>1, <2>2
  <2>4. \A p \in 1 .. Len(procs) : procs'[p].ctx = s'.ctx => procs'[p].fed \subseteq {s'.bound}
    <3>1. CASE LoadedAs(s', Claude!NewId, None)
      BY <2>2, <3>1, NewIdIsNew DEF LoadedAs
    <3>2. CASE LoadedAs(s', s.ctx, s.bound)
      BY <2>2, <3>2 DEF LoadedAs, ClaudeInv, ConversationsAreSeparate
    <3> QED
      BY <1>3, <3>1, <3>2
  <2> QED
    BY <1>2, <1>4, <2>3, <2>4 DEF ConversationsAreSeparate
<1> QED
  BY <1>8, <1>9, <1>10, <1>11, <1>12 DEF ClaudeInv

LEMMA ClaudeInitHolds ==
  ASSUME Claude!Init
  PROVE  ClaudeTypes /\ ClaudeInv
<1>1. /\ db \in Claude!Rows /\ s = Claude!Loaded(db, 0) /\ call = [c \in Claude!Callers |-> Claude!Idle]
      /\ loop = Claude!NoLoop /\ procs = (IF db.init THEN <<Claude!Stored(db)>> ELSE <<>>)
      /\ policy \in Boundaries /\ turns = <<>>
  BY DEF Claude!Init
<1>2. db = Claude!Row(Claude!Cold(0, None)) \/ (db.init /\ db.bound \in Grants /\ db.ctx = 0 /\ db.state \in Claude!States)
  BY <1>1 DEF Claude!Rows, Claude!States
<1>3. /\ db \in StoredRow /\ db.ctx = 0 /\ (db.init => db.bound \in Grants) /\ ~Claude!Discards(db)
  <2>1. CASE db = Claude!Row(Claude!Cold(0, None))
    <3>1. db = [state |-> "idle", bound |-> None, init |-> FALSE, ctx |-> 0]
      BY <2>1 DEF Claude!Row, Claude!Cold
    <3> QED
      BY <3>1 DEF StoredRow, Claude!States, Claude!Discards
  <2>2. CASE db # Claude!Row(Claude!Cold(0, None))
    <3>1. PICK state \in Claude!States, g \in Grants : db = [state |-> state, bound |-> g, init |-> TRUE, ctx |-> 0]
      BY <1>1, <2>2 DEF Claude!Rows, Claude!States
    <3> QED
      BY <3>1, AdaptersAssumption DEF StoredRow, Claude!Discards, AdaptersAssumption
  <2> QED
    BY <2>1, <2>2
<1>4. LoadedAs(s, 0, db.bound) /\ Claude!Row(s) = db
  BY <1>1, <1>3, LoadedFacts
<1>5. /\ s \in ClaudeS /\ s.query = 0 /\ s.pending = {} /\ s.turns = <<>> /\ DOMAIN s.turns = {} /\ s.ctx = 0
      /\ s.bound = db.bound
  BY <1>4 DEF LoadedAs
<1>6. procs = <<>> \/ (/\ db.init /\ procs \in Seq(Process) /\ Len(procs) = 1 /\ DOMAIN procs = {1}
                       /\ procs[1].life = "ended" /\ procs[1].fed = {db.bound}
                       /\ DOMAIN procs[1].inbox = {} /\ DOMAIN procs[1].work = {})
  <2>1. CASE db.init
    <3>1. PICK x \in Seq(Positive) : x = <<>> /\ DOMAIN x = {}
      BY NoTurns
    <3>2. PICK r : r = Claude!Stored(db)
      OBVIOUS
    <3>3. r = [ctx |-> 0, box |-> None, resume |-> FALSE, life |-> "ended", closing |-> TRUE,
               inbox |-> x, work |-> x, fed |-> {db.bound}]
      BY <1>3, <3>1, <3>2 DEF Claude!Stored
    <3>4. {db.bound} \in SUBSET Grants
      BY <1>3, <2>1
    <3>5. r \in Process /\ r.life = "ended" /\ r.fed = {db.bound} /\ r.inbox = x /\ r.work = x
      BY <3>3, <3>4 DEF Process
    <3>6. procs = <<r>>
      BY <1>1, <2>1, <3>2
    <3>7. PICK P : P = Process
      OBVIOUS
    <3>8. procs \in Seq(P) /\ Len(procs) = 1 /\ DOMAIN procs = {1} /\ procs[1] = r
      BY <3>5, <3>6, <3>7
    <3> QED
      BY <2>1, <3>1, <3>5, <3>7, <3>8
  <2>2. CASE ~db.init
    BY <1>1, <2>2
  <2> QED
    BY <2>1, <2>2
<1>7. procs \in Seq(Process) /\ Len(procs) \in Nat
  <2>1. PICK P : P = Process
    OBVIOUS
  <2>2. <<>> \in Seq(P) /\ Len(<<>>) = 0
    OBVIOUS
  <2>3. CASE procs = <<>>
    <3>1. procs \in Seq(P) /\ Len(procs) = 0
      BY ONLY <2>2, <2>3
    <3> QED
      BY ONLY <2>1, <3>1
  <2>4. CASE procs # <<>>
    BY <1>6, <2>4
  <2> QED
    BY <2>3, <2>4
<1>8. \A q \in DOMAIN procs : /\ procs[q].life = "ended" /\ procs[q].fed = {s.bound}
                              /\ DOMAIN procs[q].inbox = {} /\ DOMAIN procs[q].work = {}
  <2>1. CASE procs = <<>>
    <3>1. DOMAIN procs = {}
      BY <2>1
    <3> QED
      BY <3>1
  <2>2. CASE procs # <<>>
    BY <1>5, <1>6, <2>2
  <2> QED
    BY <2>1, <2>2
<1>9. call \in [Claude!Callers -> ClaudeCall] /\ \A c \in Claude!Callers : call[c] = Claude!Idle
  BY <1>1, IdleIsACall
<1>10. loop \in [at : {"idle", "drain"}, grant : Grants \cup {None}, on : Nat] /\ loop.on = 0 /\ loop.at = "idle"
  BY <1>1 DEF Claude!NoLoop
<1>11. turns \in Seq(Grants) /\ Len(turns) = 0
  BY <1>1
<1>12. \A c \in Claude!Callers : CallShape(call[c], Len(procs), Len(turns))
  BY <1>7, <1>9, <1>11, IdleIsACall DEF CallShape
<1>13. ClaudeTypes
  BY <1>1, <1>4, <1>5, <1>7, <1>8, <1>9, <1>10, <1>11, <1>12 DEF ClaudeTypes
<1>14. OneCaller /\ \A c \in Claude!Callers : CallerRules(c)
  BY <1>9, IdleIsACall DEF OneCaller, CallerRules, Launching
<1>15. LoopRules /\ BoundaryIsKnown /\ OthersAreUnfed
  BY <1>5, <1>8, <1>10 DEF LoopRules, BoundaryIsKnown, OthersAreUnfed
<1>16. TurnsAreOfTheGrant /\ ConversationsAreSeparate
  BY <1>5, <1>8 DEF TurnsAreOfTheGrant, ConversationsAreSeparate
<1> QED
  BY <1>13, <1>14, <1>15, <1>16 DEF ClaudeInv

LEMMA ClaudeNextKeeps ==
  ASSUME ~Overlap, ClaudeTypes, ClaudeInv, Claude!Next
  PROVE  ClaudeTypes' /\ ClaudeInv'
<1>1. CASE Claude!Continue
  <2>1. ASSUME NEW c \in Claude!Callers, Claude!Relaunch(c)  PROVE ClaudeTypes' /\ ClaudeInv'
    BY <2>1, RelaunchStep
  <2>2. CASE Claude!FinishReset
    BY <2>2, FinishResetStep
  <2>3. CASE Claude!FinishQuiesce
    BY <2>3, FinishQuiesceStep
  <2>4. CASE Claude!Rebuild
    BY <2>4, RebuildStep
  <2>5. ASSUME call["recovery"].at = "resume", NEW g \in Grants,
               Claude!DeliverElsewhere("recovery", g) \/ Claude!DeliverWarm("recovery", g)
        PROVE  ClaudeTypes' /\ ClaudeInv'
    <3>1. PICK c \in Claude!Callers : c = "recovery"
      BY DEF Claude!Callers
    <3>2. CASE Claude!DeliverElsewhere(c, g)
      BY <3>2, DeliverElsewhereStep
    <3>3. CASE Claude!DeliverWarm(c, g)
      BY <2>5, <3>1, <3>3, DeliverWarmStep
    <3> QED
      BY <2>5, <3>1, <3>2, <3>3
  <2> QED
    BY <1>1, <2>1, <2>2, <2>3, <2>4, <2>5 DEF Claude!Continue
<1>2. ASSUME ~Claude!Continuing  PROVE (Claude!Next /\ ~Claude!Continue) => ClaudeTypes' /\ ClaudeInv'
  <2>1. ASSUME NEW c \in Claude!Callers, NEW g \in Grants,
               Claude!DeliverCold(c, g) \/ Claude!DeliverElsewhere(c, g) \/ Claude!DeliverWarm(c, g)
        PROVE  ClaudeTypes' /\ ClaudeInv'
    BY <1>2, <2>1, DeliverColdStep, DeliverElsewhereStep, DeliverWarmStep
  <2>2. CASE Claude!ResumeRefused \/ Claude!ContinuationEnds
    <3>1. policy \in Boundaries
      BY DEF ClaudeTypes
    <3> QED
      BY <2>2, <3>1, UntouchedKeeps DEF Claude!ResumeRefused, Claude!ContinuationEnds, Claude!world
  <2>3. CASE Claude!RebuildReady
    BY <1>2, <2>3, RebuildReadyStep
  <2>4. ASSUME NEW c \in Claude!Callers, Claude!DeliverReady(c) \/ Claude!LaunchFails(c) \/ Claude!AckTimeout(c)
        PROVE  ClaudeTypes' /\ ClaudeInv'
    BY <1>2, <2>4, DeliverReadyStep, LaunchFailsStep, AckTimeoutStep
  <2>5. ASSUME NEW g \in Grants, Claude!Release(g) \/ Claude!Prepare(g) \/ Claude!Quiesce(g) \/ Claude!EndGrant(g)
        PROVE  ClaudeTypes' /\ ClaudeInv'
    <3>1. PICK key \in Boundaries : key = policy
      BY DEF ClaudeTypes
    <3>2. CASE Claude!Release(g) \/ Claude!Prepare(g)
      BY <1>2, <3>1, <3>2, ResetsStep
    <3>3. CASE Claude!Quiesce(g)
      BY <3>3, QuiesceStep
    <3>4. CASE Claude!EndGrant(g)
      BY <3>1, <3>4, UntouchedKeeps DEF Claude!EndGrant
    <3> QED
      BY <2>5, <3>2, <3>3, <3>4
  <2>6. ASSUME NEW key \in Boundaries, NEW invalidates \in BOOLEAN, Claude!PolicyUpdate(key, invalidates)
        PROVE  ClaudeTypes' /\ ClaudeInv'
    <3>1. CASE \E g \in Grants : TRUE
      BY <1>2, <2>6, <3>1, ResetsStep
    <3>2. CASE ~\E g \in Grants : TRUE
      <4>1. policy' \in Boundaries
        BY <2>6 DEF Claude!PolicyUpdate
      <4>2. Claude!BeginReset(None) \/ UNCHANGED <<s, db, call, loop, procs, turns>>
        BY <2>6 DEF Claude!PolicyUpdate, Claude!NoReset
      <4>3. PICK b \in Grants \cup {None} : b = None
        OBVIOUS
      <4>4. CASE Claude!BeginReset(b)
        BY <1>2, <4>1, <4>4, BeginResetStep
      <4>5. CASE UNCHANGED <<s, db, call, loop, procs, turns>>
        BY <4>1, <4>5, UntouchedKeeps
      <4> QED
        BY <4>2, <4>3, <4>4, <4>5
    <3> QED
      BY <3>1, <3>2
  <2>7. ASSUME NEW q \in Claude!Queries, Claude!Echo(q) \/ Claude!Result(q)  PROVE ClaudeTypes' /\ ClaudeInv'
    BY <2>7, EchoStep, ResultStep
  <2>8. ASSUME NEW q \in Claude!Queries, NEW error \in BOOLEAN, Claude!StreamEnds(q, error)  PROVE ClaudeTypes' /\ ClaudeInv'
    BY <2>8, StreamEndsStep
  <2>9. CASE Claude!Restart
    BY <2>9, RestartStep
  <2> QED
    BY <2>1, <2>2, <2>3, <2>4, <2>5, <2>6, <2>7, <2>8, <2>9 DEF Claude!Next, Claude!Deliver
<1> QED
  BY <1>1, <1>2 DEF Claude!Next

\* A turn of grant g is pushed; a process that is up gets it only under the boundary of the policies.
Turn(g) ==
    /\ Feeds(g)
    /\ \A c \in Claude!Callers :
          (/\ call[c].at \in {"idle", "resume"} /\ call'[c].at = "ack"
           /\ procs[call'[c].on].life # "ended") => procs[call'[c].on].box = policy

LEMMA PushAcceptedFits ==
  ASSUME ClaudeTypes, ClaudeInv, NEW c \in Claude!Callers, NEW g \in Grants, PushAccepted(c, g),
         call[c].at \in {"idle", "resume"}, \A d \in Claude!Callers : d # c => call[d].at = "idle",
         s.sandbox = policy
  PROVE  \A d \in Claude!Callers :
          (/\ call[d].at \in {"idle", "resume"} /\ call'[d].at = "ack"
           /\ procs[call'[d].on].life # "ended") => procs[call'[d].on].box = policy
<1> USE ClaudeFacts
<1>1. PICK k : /\ k.at = (IF s.query = 0 THEN "push" ELSE "ack") /\ k.on = s.query
               /\ call' = [call EXCEPT ![c] = k]
  <2>1. PICK k : k = [at |-> IF s.query = 0 THEN "push" ELSE "ack", grant |-> g, on |-> s.query, turn |-> Len(turns) + 1]
    OBVIOUS
  <2>2. k.at = (IF s.query = 0 THEN "push" ELSE "ack") /\ k.on = s.query
    BY ONLY <2>1
  <2>3. call' = [call EXCEPT ![c] = k]
    BY <2>1 DEF PushAccepted
  <2> QED
    BY <2>2, <2>3
<1>2. call'[c] = k /\ \A d \in Claude!Callers : d # c => call'[d] = call[d]
  BY <1>1 DEF ClaudeTypes
<1>3. \A d \in Claude!Callers : call[d].at \notin Launching
  BY DEF Launching
<1>4. s.query # 0 /\ procs[s.query].life # "ended" => procs[s.query].box = s.sandbox
  BY <1>3 DEF ClaudeInv, BoundaryIsKnown, PushAccepted
<1> QED
  BY <1>1, <1>2, <1>4

LEMMA NoAck ==
  ASSUME ClaudeTypes, NEW c \in Claude!Callers, NEW k, k.at # "ack", call' = [call EXCEPT ![c] = k]
  PROVE  \A d \in Claude!Callers : call'[d].at = "ack" => call[d].at \notin {"idle", "resume"}
<1>1. call'[c] = k /\ \A d \in Claude!Callers : d # c => call'[d] = call[d]
  BY DEF ClaudeTypes
<1> QED
  BY <1>1

LEMMA SameProcesses ==
  ASSUME ClaudeTypes, procs' = procs, turns' = turns,
         \A d \in Claude!Callers : call'[d].at = "ack" => call[d].at \notin {"idle", "resume"}
  PROVE  NoTurn
<1> USE ClaudeFacts
<1>1. Len(procs) <= Len(procs') /\ DOMAIN procs' = 1 .. Len(procs') /\ \A p \in 1 .. Len(procs') : p \in 1 .. Len(procs)
  OBVIOUS
<1> QED
  BY <1>1 DEF NoTurn

LEMMA ClosedProcesses ==
  ASSUME ClaudeTypes, procs' = Claude!Closed(s.query), turns' = turns,
         \A d \in Claude!Callers : call'[d].at = "ack" => call[d].at \notin {"idle", "resume"}
  PROVE  NoTurn
<1> USE ClaudeFacts
<1>1. PICK q \in Nat : q = s.query
  OBVIOUS
<1>2. procs' = Claude!Closed(q)
  BY <1>1
<1>3. PICK P : P = Process
  OBVIOUS
<1>4. procs' \in Seq(P) /\ Len(procs') = Len(procs)
      /\ \A p \in 1 .. Len(procs) : procs'[p].ctx = procs[p].ctx /\ procs'[p].fed = procs[p].fed
  <2>1. procs' \in Seq(P) /\ Len(procs') = Len(procs)
    BY ONLY <1>2, <1>3, ClosedFacts, ClaudeTypes, q \in Nat
  <2>2. \A p \in 1 .. Len(procs) : procs'[p].ctx = procs[p].ctx /\ procs'[p].fed = procs[p].fed
    BY ONLY <1>2, ClosedFacts, ClaudeTypes, q \in Nat, Zenon
  <2> QED
    BY <2>1, <2>2
<1>5. DOMAIN procs' = 1 .. Len(procs')
  BY <1>4
<1> QED
  BY <1>4, <1>5 DEF NoTurn

LEMMA LaunchedProcesses ==
  ASSUME ClaudeTypes, NEW id \in Nat, NEW resume \in BOOLEAN, procs' = Append(procs, NewProcess(id, resume)), turns' = turns,
         \A d \in Claude!Callers : call'[d].at = "ack" => call[d].at \notin {"idle", "resume"}
  PROVE  NoTurn
<1> USE ClaudeFacts
<1>1. /\ Len(procs') = Len(procs) + 1 /\ DOMAIN procs' = 1 .. Len(procs) + 1
      /\ \A p \in 1 .. Len(procs) : procs'[p] = procs[p]
      /\ procs'[Len(procs) + 1] = NewProcess(id, resume)
  BY LaunchedFacts
<1>2. procs'[Len(procs) + 1].fed = {}
  BY <1>1 DEF NewProcess
<1>3. \A p \in 1 .. Len(procs') : p \in 1 .. Len(procs) \/ p = Len(procs) + 1
  BY <1>1
<1>4. Len(procs) <= Len(procs') /\ DOMAIN procs' = 1 .. Len(procs')
  BY <1>1
<1> QED
  BY <1>1, <1>2, <1>3, <1>4 DEF NoTurn

LEMMA BeginResetTurns ==
  ASSUME ClaudeTypes, NEW g, Claude!BeginReset(g)
  PROVE  NoTurn
<1>1. procs' = Claude!Closed(s.query) /\ turns' = turns /\ call' = Claude!Rejected
  BY DEF Claude!BeginReset
<1>2. \A d \in Claude!Callers : call'[d].at = "ack" => call[d].at \notin {"idle", "resume"}
  BY <1>1, RejectedFacts, IdleIsACall
<1> QED
  BY <1>1, <1>2, ClosedProcesses

\* What the event loop, the launches and the waits do.
LEMMA QuietTurns ==
  ASSUME ClaudeTypes, NEW c \in Claude!Callers, NEW g \in Grants,
         \/ Claude!DeliverCold(c, g) \/ Claude!DeliverElsewhere(c, g) \/ Claude!Relaunch(c)
         \/ Claude!LaunchFails(c) \/ Claude!AckTimeout(c) \/ Claude!Quiesce(g)
         \/ Claude!Release(g) \/ Claude!Prepare(g) \/ Claude!EndGrant(g)
  PROVE  NoTurn
<1> USE ClaudeFacts
<1>1. CASE Claude!DeliverCold(c, g)
  <2>1. /\ procs' = Append(procs, NewProcess(s.ctx, s.init)) /\ turns' = turns
        /\ call' = [call EXCEPT ![c] = [at |-> "launch", grant |-> g, on |-> Len(procs'), turn |-> 0]]
    BY <1>1 DEF Claude!DeliverCold, Claude!Wait, Claude!Launched, NewProcess
  <2>2. s.init \in BOOLEAN
    BY DEF ClaudeTypes, ClaudeS
  <2>3. \A d \in Claude!Callers : call'[d].at = "ack" => call[d].at \notin {"idle", "resume"}
    BY <2>1 DEF ClaudeTypes
  <2>4. PICK id \in Nat, resume \in BOOLEAN : id = s.ctx /\ resume = s.init
    BY <2>2
  <2> QED
    BY <2>1, <2>2, <2>3, <2>4, LaunchedProcesses
<1>2. CASE Claude!DeliverElsewhere(c, g)
  <2>1. /\ procs' = Claude!Closed(s.query) /\ turns' = turns
        /\ call' = [call EXCEPT ![c] = [at |-> "drain", grant |-> g, on |-> s.query, turn |-> 0]]
    BY <1>2 DEF Claude!DeliverElsewhere, Claude!Wait
  <2>2. \A d \in Claude!Callers : call'[d].at = "ack" => call[d].at \notin {"idle", "resume"}
    BY <2>1 DEF ClaudeTypes
  <2> QED
    BY <2>1, <2>2, ClosedProcesses
<1>3. CASE Claude!Relaunch(c)
  <2>1. PICK id \in Nat, resume \in BOOLEAN : id = Claude!NewId /\ resume = FALSE
    BY NewIdIsNew
  <2>2. [s EXCEPT !.ctx = id, !.init = FALSE, !.state = "idle"].ctx = id
        /\ [s EXCEPT !.ctx = id, !.init = FALSE, !.state = "idle"].init = FALSE
    BY DEF ClaudeTypes, ClaudeS
  <2>3. /\ procs' = Append(procs, NewProcess(id, resume)) /\ turns' = turns
        /\ call' = [call EXCEPT ![c] = [at |-> "relaunch", grant |-> call[c].grant, on |-> Len(procs'), turn |-> 0]]
    BY <1>3, <2>1, <2>2 DEF Claude!Relaunch, Claude!Wait, Claude!Launched, NewProcess
  <2>4. \A d \in Claude!Callers : call'[d].at = "ack" => call[d].at \notin {"idle", "resume"}
    BY <2>3 DEF ClaudeTypes
  <2> QED
    BY <2>3, <2>4, LaunchedProcesses
<1>4. CASE Claude!LaunchFails(c) \/ Claude!AckTimeout(c)
  <2>1. procs' = procs /\ turns' = turns /\ call' = [call EXCEPT ![c] = Claude!Idle]
    BY <1>4 DEF Claude!LaunchFails, Claude!AckTimeout, Claude!Return
  <2>2. \A d \in Claude!Callers : call'[d].at = "ack" => call[d].at \notin {"idle", "resume"}
    BY <2>1, IdleIsACall DEF ClaudeTypes
  <2> QED
    BY <2>1, <2>2, SameProcesses
<1>5. CASE Claude!Quiesce(g)
  <2>1. procs' = Claude!Closed(s.query) /\ turns' = turns
        /\ call' = [Claude!Rejected EXCEPT !["recovery"] = [Claude!Idle EXCEPT !.at = "quiesce", !.grant = g, !.on = s.query]]
    BY <1>5 DEF Claude!Quiesce
  <2>2. [Claude!Idle EXCEPT !.at = "quiesce", !.grant = g, !.on = s.query].at = "quiesce"
    BY IdleIsACall DEF ClaudeCall
  <2>3. \A d \in Claude!Callers : call'[d].at = "ack" => call[d].at \notin {"idle", "resume"}
    BY <2>1, <2>2, RejectedFacts, IdleIsACall
  <2> QED
    BY <2>1, <2>3, ClosedProcesses
<1>6. CASE Claude!Release(g) \/ Claude!Prepare(g) \/ Claude!EndGrant(g)
  <2>1. Claude!BeginReset(g) \/ Claude!BeginReset(None) \/ UNCHANGED <<call, procs, turns>>
    BY <1>6 DEF Claude!Release, Claude!Prepare, Claude!EndGrant, Claude!NoReset
  <2> QED
    BY <2>1, BeginResetTurns, SameProcesses
<1> QED
  BY <1>1, <1>2, <1>3, <1>4, <1>5, <1>6

LEMMA ReadyTooLateTurns ==
  ASSUME ClaudeTypes, ClaudeInv, NEW c \in Claude!Callers, call[c].at \in Launching, ReadyTooLate(c),
         \A d \in Claude!Callers : call'[d].at = "ack" => call[d].at \notin {"idle", "resume"}
  PROVE  NoTurn
<1> USE ClaudeFacts
<1>1. PICK P : P = Process
  OBVIOUS
<1>2. /\ procs' \in Seq(P) /\ Len(procs') = Len(procs) /\ turns' = turns
      /\ \A p \in 1 .. Len(procs) : procs'[p].ctx = procs[p].ctx /\ procs'[p].fed = procs[p].fed
  BY <1>1, ReadyTooLateKeeps DEF ReadyTooLate
<1>3. DOMAIN procs' = 1 .. Len(procs')
  BY <1>2
<1> QED
  BY <1>2, <1>3 DEF NoTurn

\* The rest of what pushes no turn.
LEMMA OtherQuietTurns ==
  ASSUME ClaudeTypes, ClaudeInv, NEW key \in Boundaries, NEW invalidates \in BOOLEAN,
         \/ Claude!FinishReset \/ Claude!FinishQuiesce \/ Claude!Rebuild \/ Claude!RebuildReady
         \/ Claude!ResumeRefused \/ Claude!ContinuationEnds \/ Claude!Restart
         \/ Claude!PolicyUpdate(key, invalidates)
  PROVE  NoTurn
<1> USE ClaudeFacts
<1>1. PICK c \in Claude!Callers : c = "recovery"
  BY DEF Claude!Callers
<1>2. CASE Claude!FinishReset \/ Claude!ResumeRefused \/ Claude!ContinuationEnds
  <2>1. procs' = procs /\ turns' = turns /\ call' = call
    BY <1>2 DEF Claude!FinishReset, Claude!ResumeRefused, Claude!ContinuationEnds
  <2> QED
    BY <2>1, SameProcesses
<1>3. CASE Claude!FinishQuiesce
  <2>1. procs' = procs /\ turns' = turns
        /\ call' = [call EXCEPT ![c] = [at |-> "rebuild", grant |-> call[c].grant, on |-> 0, turn |-> 0]]
    BY <1>1, <1>3 DEF Claude!FinishQuiesce, Claude!Wait
  <2>2. \A d \in Claude!Callers : call'[d].at = "ack" => call[d].at \notin {"idle", "resume"}
    BY <2>1 DEF ClaudeTypes
  <2> QED
    BY <2>1, <2>2, SameProcesses
<1>4. CASE Claude!Rebuild
  <2>1. CASE call' = [call EXCEPT ![c] = Claude!Idle] /\ procs' = procs /\ turns' = turns
    <3>1. \A d \in Claude!Callers : call'[d].at = "ack" => call[d].at \notin {"idle", "resume"}
      BY <2>1, IdleIsACall DEF ClaudeTypes
    <3> QED
      BY <2>1, <3>1, SameProcesses
  <2>2. CASE /\ procs' = Claude!Launched(s) /\ turns' = turns
             /\ call' = [call EXCEPT ![c] = [at |-> "rebuild_launch", grant |-> s.bound, on |-> Len(procs'), turn |-> 0]]
    <3>1. \A d \in Claude!Callers : call'[d].at = "ack" => call[d].at \notin {"idle", "resume"}
      BY <2>2 DEF ClaudeTypes
    <3>2. PICK id \in Nat, resume \in BOOLEAN : id = s.ctx /\ resume = s.init
      BY DEF ClaudeTypes, ClaudeS
    <3>3. procs' = Append(procs, NewProcess(id, resume))
      BY <2>2, <3>2 DEF Claude!Launched, NewProcess
    <3> QED
      BY <2>2, <3>1, <3>3, LaunchedProcesses
  <2> QED
    BY <1>1, <1>4, <2>1, <2>2 DEF Claude!Rebuild, Claude!Wait, Claude!Return
<1>5. CASE Claude!RebuildReady
  <2>1. /\ call[c].at \in Launching /\ ReadyTooLate(c)
        /\ call' = [call EXCEPT ![c] = [at |-> "resume", grant |-> call[c].grant, on |-> 0, turn |-> 0]]
    BY <1>1, <1>5 DEF Claude!RebuildReady, Claude!Wait, Launching, ReadyTooLate
  <2>2. \A d \in Claude!Callers : call'[d].at = "ack" => call[d].at \notin {"idle", "resume"}
    BY <2>1 DEF ClaudeTypes
  <2> QED
    BY <2>1, <2>2, ReadyTooLateTurns
<1>6. CASE Claude!Restart
  <2>1. turns' = turns /\ \A d \in Claude!Callers : call'[d] = Claude!Idle
    BY <1>6 DEF Claude!Restart
  <2>2. /\ Len(procs') = Len(procs) /\ DOMAIN procs' = 1 .. Len(procs)
        /\ \A p \in 1 .. Len(procs) : procs'[p].ctx = procs[p].ctx /\ procs'[p].fed = procs[p].fed
    BY <1>6, AllEnded DEF Claude!Restart
  <2> QED
    BY <2>1, <2>2, IdleIsACall DEF NoTurn
<1>7. CASE Claude!PolicyUpdate(key, invalidates)
  <2>1. Claude!BeginReset(None) \/ UNCHANGED <<call, procs, turns>>
    BY <1>7 DEF Claude!PolicyUpdate, Claude!NoReset
  <2> QED
    BY <2>1, BeginResetTurns, SameProcesses
<1> QED
  BY <1>2, <1>3, <1>4, <1>5, <1>6, <1>7
LEMMA DeliverWarmTurns ==
  ASSUME ~Overlap, ClaudeTypes, ClaudeInv, NEW c \in Claude!Callers, NEW g \in Grants, Claude!DeliverWarm(c, g),
         ~Claude!Continuing \/ call[c].at = "resume"
  PROVE  NoTurn \/ Turn(g)
<1>1. call[c].at \in {"idle", "resume"} /\ \A d \in Claude!Callers : d # c => call[d].at = "idle"
  BY DeliversAlone DEF ClaudeInv, Claude!DeliverWarm
<1>2. loop.at = "drain" => ~Claude!Ended(loop.on)
  BY DEF Claude!Continuing, ClaudeInv, CallerRules
<1>3. /\ s.bound \in {None, g} /\ s.pending = {} /\ s.turns = <<>> /\ s.sandbox = policy
      /\ db' = [db EXCEPT !.bound = g] /\ loop' = loop /\ policy' = policy
  BY DeliverWarmFacts
<1>4. CASE PushRejected(c, g)
  <2>1. \A d \in Claude!Callers : call'[d].at = "ack" => call[d].at \notin {"idle", "resume"}
    BY <1>4, IdleIsACall DEF PushRejected, ClaudeTypes
  <2>2. NoTurn
    BY <1>4, <2>1, SameProcesses DEF PushRejected
  <2> QED
    BY <2>2
<1>5. CASE PushAccepted(c, g)
  <2>1. Feeds(g)
    BY <1>1, <1>2, <1>3, <1>5, PushAcceptedStep
  <2>2. \A d \in Claude!Callers :
          (/\ call[d].at \in {"idle", "resume"} /\ call'[d].at = "ack"
           /\ procs[call'[d].on].life # "ended") => procs[call'[d].on].box = policy
    BY <1>1, <1>3, <1>5, PushAcceptedFits
  <2> QED
    BY <2>1, <2>2 DEF Turn
<1> QED
  BY <1>4, <1>5, DeliverWarmFacts

LEMMA DeliverReadyTurns ==
  ASSUME ClaudeTypes, ClaudeInv, ~Claude!Continuing, NEW c \in Claude!Callers, Claude!DeliverReady(c)
  PROVE  NoTurn \/ \E g \in Grants : Turn(g)
<1> USE ClaudeFacts
<1>1. /\ call[c].at \in {"launch", "relaunch"} /\ call[c].at \in Launching
  BY DEF Claude!DeliverReady, Launching
<1>2. (ReadyTooLate(c) /\ call' = [call EXCEPT ![c] = Claude!Idle])
      \/ \E g \in Grants : Feeds(g) /\ \E k : call' = [call EXCEPT ![c] = k]
  BY DeliverReadyStep
<1>3. CASE ReadyTooLate(c) /\ call' = [call EXCEPT ![c] = Claude!Idle]
  <2>1. \A d \in Claude!Callers : call'[d].at = "ack" => call[d].at \notin {"idle", "resume"}
    BY <1>3, IdleIsACall DEF ClaudeTypes
  <2> QED
    BY <1>1, <1>3, <2>1, ReadyTooLateTurns
<1>4. ASSUME NEW g \in Grants, Feeds(g), NEW k, call' = [call EXCEPT ![c] = k]  PROVE Turn(g)
  <2>1. \A d \in Claude!Callers : d # c => call'[d] = call[d]
    BY <1>4 DEF ClaudeTypes
  <2>2. \A d \in Claude!Callers : call[d].at \in {"idle", "resume"} => call'[d].at # "ack"
    BY <1>1, <2>1
  <2> QED
    BY <1>4, <2>2 DEF Turn
<1> QED
  BY <1>2, <1>3, <1>4

\* A step pushes a turn or none; the answer that it takes is of the grant it is given to.
LEMMA ClaudeNextTurns ==
  ASSUME ~Overlap, ClaudeTypes, ClaudeInv, Claude!Next
  PROVE  NoTurn \/ \E g \in Grants : Turn(g)
<1>1. CASE Claude!Continue
  <2>1. ASSUME NEW c \in Claude!Callers, Claude!Relaunch(c)  PROVE NoTurn
    <3>1. call[c].grant \in Grants
      BY <2>1 DEF Claude!Relaunch, ClaudeTypes, CallShape
    <3> QED
      BY <2>1, <3>1, QuietTurns
  <2>2. CASE Claude!FinishReset \/ Claude!FinishQuiesce \/ Claude!Rebuild
    <3>1. policy \in Boundaries /\ TRUE \in BOOLEAN
      BY DEF ClaudeTypes
    <3> QED
      BY <2>2, <3>1, OtherQuietTurns
  <2>3. ASSUME call["recovery"].at = "resume", NEW g \in Grants,
               Claude!DeliverElsewhere("recovery", g) \/ Claude!DeliverWarm("recovery", g)
        PROVE  NoTurn \/ Turn(g)
    <3>1. PICK c \in Claude!Callers : c = "recovery"
      BY DEF Claude!Callers
    <3> QED
      BY <2>3, <3>1, QuietTurns, DeliverWarmTurns
  <2> QED
    BY <1>1, <2>1, <2>2, <2>3 DEF Claude!Continue
<1>2. ASSUME ~Claude!Continuing  PROVE (Claude!Next /\ ~Claude!Continue) => NoTurn \/ \E g \in Grants : Turn(g)
  <2>1. ASSUME NEW c \in Claude!Callers, NEW g \in Grants,
               Claude!DeliverCold(c, g) \/ Claude!DeliverElsewhere(c, g) \/ Claude!DeliverWarm(c, g)
        PROVE  NoTurn \/ Turn(g)
    BY <1>2, <2>1, QuietTurns, DeliverWarmTurns
  <2>2. CASE Claude!ResumeRefused \/ Claude!ContinuationEnds \/ Claude!RebuildReady \/ Claude!Restart
    <3>1. policy \in Boundaries /\ TRUE \in BOOLEAN
      BY DEF ClaudeTypes
    <3> QED
      BY <2>2, <3>1, OtherQuietTurns
  <2>3. ASSUME NEW c \in Claude!Callers, Claude!DeliverReady(c)
        PROVE  NoTurn \/ \E g \in Grants : Turn(g)
    BY <1>2, <2>3, DeliverReadyTurns
  <2>4. ASSUME NEW c \in Claude!Callers, Claude!LaunchFails(c) \/ Claude!AckTimeout(c)  PROVE NoTurn
    <3>1. call[c].grant \in Grants
      BY <2>4 DEF Claude!LaunchFails, Claude!AckTimeout, ClaudeTypes, CallShape
    <3> QED
      BY <2>4, <3>1, QuietTurns
  <2>5. ASSUME NEW g \in Grants, Claude!Release(g) \/ Claude!Prepare(g) \/ Claude!Quiesce(g) \/ Claude!EndGrant(g)
        PROVE  NoTurn
    <3>1. "recovery" \in Claude!Callers
      BY DEF Claude!Callers
    <3> QED
      BY <2>5, <3>1, QuietTurns
  <2>6. ASSUME NEW key \in Boundaries, NEW invalidates \in BOOLEAN, Claude!PolicyUpdate(key, invalidates)
        PROVE  NoTurn
    BY <2>6, OtherQuietTurns
  <2>7. ASSUME NEW q \in Claude!Queries, Claude!Echo(q) \/ Claude!Result(q)  PROVE NoTurn
    BY <2>7, EchoStep, ResultStep
  <2>8. ASSUME NEW q \in Claude!Queries, NEW error \in BOOLEAN, Claude!StreamEnds(q, error)  PROVE NoTurn
    BY <2>8, StreamEndsStep
  <2> QED
    BY <2>1, <2>2, <2>3, <2>4, <2>5, <2>6, <2>7, <2>8 DEF Claude!Next, Claude!Deliver
<1> QED
  BY <1>1, <1>2 DEF Claude!Next

AnswersAreKnown ==
    \A a \in answers : a.to \in 1 .. Len(turns) /\ a.of \in 1 .. Len(turns) /\ turns[a.to] = turns[a.of]

LEMMA AnswersChange ==
  ASSUME Claude!Next
  PROVE  answers' = answers \/ \E q \in Claude!Queries : Claude!Result(q)
<1>1. ASSUME NEW c, NEW g, Claude!DeliverCold(c, g) \/ Claude!DeliverElsewhere(c, g) \/ Claude!DeliverWarm(c, g)
      PROVE  answers' = answers
  BY <1>1 DEF Claude!DeliverCold, Claude!DeliverElsewhere, Claude!DeliverWarm
<1>2. ASSUME NEW c, Claude!Relaunch(c) \/ Claude!DeliverReady(c) \/ Claude!LaunchFails(c) \/ Claude!AckTimeout(c)
      PROVE  answers' = answers
  BY <1>2 DEF Claude!Relaunch, Claude!DeliverReady, Claude!LaunchFails, Claude!AckTimeout
<1>3. ASSUME Claude!FinishReset \/ Claude!FinishQuiesce \/ Claude!Rebuild \/ Claude!RebuildReady
             \/ Claude!ResumeRefused \/ Claude!ContinuationEnds \/ Claude!Restart
      PROVE  answers' = answers
  BY <1>3 DEF Claude!FinishReset, Claude!FinishQuiesce, Claude!Rebuild, Claude!RebuildReady,
              Claude!ResumeRefused, Claude!ContinuationEnds, Claude!Restart
<1>4. ASSUME NEW g, Claude!Release(g) \/ Claude!Prepare(g) \/ Claude!Quiesce(g) \/ Claude!EndGrant(g)  PROVE answers' = answers
  BY <1>4 DEF Claude!Release, Claude!Prepare, Claude!Quiesce, Claude!EndGrant, Claude!BeginReset, Claude!NoReset
<1>5. ASSUME NEW key, NEW invalidates, Claude!PolicyUpdate(key, invalidates)  PROVE answers' = answers
  BY <1>5 DEF Claude!PolicyUpdate, Claude!BeginReset, Claude!NoReset
<1>6. ASSUME NEW q, NEW error, Claude!Echo(q) \/ Claude!StreamEnds(q, error)  PROVE answers' = answers
  BY <1>6 DEF Claude!Echo, Claude!StreamEnds
<1> QED
  BY <1>1, <1>2, <1>3, <1>4, <1>5, <1>6 DEF Claude!Next, Claude!Continue, Claude!Deliver

LEMMA TurnsAreKept ==
  ASSUME ClaudeTypes, NoTurn \/ \E g \in Grants : Turn(g)
  PROVE  /\ Len(turns') >= Len(turns) /\ Len(turns') \in Nat
         /\ \A t \in 1 .. Len(turns) : t \in 1 .. Len(turns') /\ turns'[t] = turns[t]
<1>1. turns \in Seq(Grants)
  BY DEF ClaudeTypes
<1>2. turns' = turns \/ \E g \in Grants : turns' = Append(turns, g)
  BY DEF NoTurn, Turn, Feeds
<1> QED
  BY ONLY <1>1, <1>2

LEMMA AnswersStayTrue ==
  ASSUME ~Overlap, ClaudeTypes, ClaudeInv, AnswersAreKnown, Claude!Next
  PROVE  AnswersAreKnown'
<1>1. /\ Len(turns') >= Len(turns)
      /\ \A t \in 1 .. Len(turns) : t \in 1 .. Len(turns') /\ turns'[t] = turns[t]
  BY ClaudeNextTurns, TurnsAreKept
<1>2. CASE answers' = answers
  BY <1>1, <1>2 DEF AnswersAreKnown
<1>3. ASSUME NEW q \in Claude!Queries, Claude!Result(q), NEW a \in answers', a \notin answers
      PROVE  a.to \in 1 .. Len(turns) /\ a.of \in 1 .. Len(turns) /\ turns[a.to] = turns[a.of]
  <2>1. s.turns # <<>> /\ a = [to |-> Head(s.turns), of |-> Head(procs[q].work)]
    BY <1>3 DEF Claude!Result
  <2>2. /\ IsFor(Head(s.turns), {s.bound}) /\ IsFor(Head(procs[q].work), procs[q].fed)
        /\ procs[q].fed \subseteq {s.bound}
    BY <1>3, <2>1, ResultStep
  <2> QED
    BY <2>1, <2>2 DEF IsFor
<1> QED
  BY <1>1, <1>2, <1>3, AnswersChange DEF AnswersAreKnown

-----------------------------------------------------------------------------
(* Claude Code: conversations.                                              *)

LEMMA FedFacts ==
  ASSUME ClaudeTypes, ClaudeInv
  PROVE  /\ \A id, h : h \in Claude!Fed(id) <=> \E p \in 1 .. Len(procs) : procs[p].ctx = id /\ h \in procs[p].fed
         /\ \A id : Claude!Fed(id) \in {{}} \cup {{g} : g \in Grants}
<1> USE ClaudeFacts
<1>1. \A id, h : h \in Claude!Fed(id) <=> \E p \in 1 .. Len(procs) : procs[p].ctx = id /\ h \in procs[p].fed
  BY DEF Claude!Fed, Claude!Queries
<1>2. \A p, q \in 1 .. Len(procs) : procs[p].ctx = procs[q].ctx => \A g \in procs[p].fed, h \in procs[q].fed : g = h
  BY DEF ClaudeInv, ConversationsAreSeparate
<1>3. \A id : \A g, h \in Claude!Fed(id) : g = h /\ g \in Grants
  <2> SUFFICES ASSUME NEW id, NEW g \in Claude!Fed(id), NEW h \in Claude!Fed(id)
               PROVE  g = h /\ g \in Grants
    OBVIOUS
  <2>1. PICK p \in 1 .. Len(procs) : procs[p].ctx = id /\ g \in procs[p].fed
    BY <1>1
  <2>2. PICK q \in 1 .. Len(procs) : procs[q].ctx = id /\ h \in procs[q].fed
    BY <1>1
  <2>3. g = h
    BY ONLY <1>2, <2>1, <2>2
  <2> QED
    BY <2>1, <2>3
<1>4. ASSUME NEW id  PROVE Claude!Fed(id) \in {{}} \cup {{g} : g \in Grants}
  <2>1. CASE Claude!Fed(id) = {}
    BY <2>1
  <2>2. ASSUME NEW g \in Claude!Fed(id)  PROVE Claude!Fed(id) = {g} /\ g \in Grants
    BY <1>3
  <2> QED
    BY <2>1, <2>2
<1> QED
  BY <1>1, <1>4

\* What the conversation id has been given.
Given(processes, id) == {h \in Grants : \E p \in DOMAIN processes : processes[p].ctx = id /\ h \in processes[p].fed}

LEMMA FedIsGiven ==
  ASSUME ClaudeTypes
  PROVE  \A id : Claude!Fed(id) = Given(procs, id)
BY ClaudeFacts DEF Claude!Fed, Claude!Queries, Given

\* What a conversation has been given changes only for the session's own, and only from
\* nothing to the grant of the turn.
LEMMA FedChanges ==
  ASSUME ClaudeTypes, ClaudeInv, NoTurn \/ \E g \in Grants : Turn(g)
  PROVE  \/ \A id : Given(procs', id) = Given(procs, id)
         \/ \E g \in Grants : \E at : /\ \A id : id # at => Given(procs', id) = Given(procs, id)
                                     /\ Given(procs, at) = {} /\ Given(procs', at) = {g}
<1> USE ClaudeFacts
<1>1. ASSUME NoTurn, NEW id  PROVE Given(procs', id) = Given(procs, id)
  <2>1. /\ \A p \in DOMAIN procs : p \in DOMAIN procs' /\ procs'[p].ctx = procs[p].ctx /\ procs'[p].fed = procs[p].fed
        /\ \A p \in DOMAIN procs' : p \in DOMAIN procs \/ procs'[p].fed = {}
    BY <1>1 DEF NoTurn
  <2> QED
    BY ONLY <2>1 DEF Given
<1>2. ASSUME NEW g \in Grants, Turn(g), NEW at, at = s.ctx
      PROVE  /\ \A id : id # at => Given(procs', id) = Given(procs, id)
             /\ Given(procs, at) \subseteq {g}
             /\ Given(procs', at) = Given(procs, at) \/ Given(procs', at) = {g}
  <2>1. /\ s.bound \in {None, g} /\ DOMAIN procs' = DOMAIN procs
        /\ \A p \in DOMAIN procs : /\ procs'[p].ctx = procs[p].ctx
                                   /\ p # s.query => procs'[p].fed = procs[p].fed
                                   /\ p = s.query => procs'[p].fed = procs[p].fed \cup {g}
    BY <1>2 DEF Turn, Feeds
  <2>2. /\ \A q \in DOMAIN procs : procs[q].ctx = at => procs[q].fed \subseteq {s.bound}
        /\ s.query # 0 => procs[s.query].ctx = at /\ s.query \in DOMAIN procs
        /\ 0 \notin DOMAIN procs
    BY <1>2 DEF ClaudeInv, ConversationsAreSeparate
  <2>3. ASSUME NEW id, id # at  PROVE Given(procs', id) = Given(procs, id)
    <3>1. \A p \in DOMAIN procs : procs[p].ctx = id => p # s.query
      BY <2>2, <2>3
    <3>2. \A p \in DOMAIN procs : procs[p].ctx = id => procs'[p].fed = procs[p].fed
      BY <2>1, <3>1
    <3>3. DOMAIN procs' = DOMAIN procs /\ \A p \in DOMAIN procs : procs'[p].ctx = procs[p].ctx
      BY <2>1
    <3> QED
      BY ONLY <3>2, <3>3 DEF Given
  <2>4. Given(procs, at) \subseteq {g}
    BY ONLY <2>1, <2>2, AdaptersAssumption DEF AdaptersAssumption, Given
  <2>5. CASE s.query = 0
    <3>1. DOMAIN procs' = DOMAIN procs
          /\ \A p \in DOMAIN procs : procs'[p].ctx = procs[p].ctx /\ procs'[p].fed = procs[p].fed
      BY <2>1, <2>2, <2>5
    <3>2. Given(procs', at) = Given(procs, at)
      BY ONLY <3>1 DEF Given
    <3> QED
      BY <2>3, <2>4, <3>2
  <2>6. CASE s.query # 0
    <3>1. DOMAIN procs' = DOMAIN procs
          /\ \A p \in DOMAIN procs : procs'[p].ctx = procs[p].ctx /\ procs'[p].fed \subseteq procs[p].fed \cup {g}
      BY <2>1
    <3>2. Given(procs', at) \subseteq Given(procs, at) \cup {g}
      BY ONLY <3>1 DEF Given
    <3>3. \E p \in DOMAIN procs : procs'[p].ctx = at /\ g \in procs'[p].fed
      BY <2>1, <2>2, <2>6
    <3>4. g \in Given(procs', at)
      BY <3>1, <3>3 DEF Given
    <3> QED
      BY <2>3, <2>4, <3>2, <3>4
  <2> QED
    BY <2>5, <2>6
<1>3. ASSUME NEW g \in Grants, Turn(g)
      PROVE  \/ \A id : Given(procs', id) = Given(procs, id)
             \/ \E at : /\ \A id : id # at => Given(procs', id) = Given(procs, id)
                        /\ Given(procs, at) = {} /\ Given(procs', at) = {g}
  <2>1. PICK at : at = s.ctx
    OBVIOUS
  <2>2. /\ \A id : id # at => Given(procs', id) = Given(procs, id)
        /\ Given(procs, at) \subseteq {g}
        /\ Given(procs', at) = Given(procs, at) \/ Given(procs', at) = {g}
    BY <1>2, <1>3, <2>1
  <2>3. CASE Given(procs', at) = Given(procs, at)
    BY ONLY <2>2, <2>3
  <2>4. CASE Given(procs', at) # Given(procs, at)
    <3>1. Given(procs, at) = {} /\ Given(procs', at) = {g}
      BY ONLY <2>2, <2>4
    <3> QED
      BY ONLY <2>2, <3>1
  <2> QED
    BY <2>3, <2>4
<1>4. CASE NoTurn
  BY <1>1, <1>4
<1>5. CASE \E g \in Grants : Turn(g)
  BY <1>3, <1>5
<1> QED
  BY <1>4, <1>5

-----------------------------------------------------------------------------
(* Codex (CodexSession).                                                    *)

CodexS == [state : {"idle", "busy"}, bound : Grants \cup {None}, thread : Nat, sender : BOOLEAN, active : Nat]
CodexTurn == [grant : Grants, kind : Codex!Kinds, thread : Nat, from : Nat, ack : {"pending", "acked", "refused"},
              life : {"spawned", "threaded", "started", "over"}, silent : BOOLEAN]
CodexEvent == [type : {"turn_started", "turn_failed", "reply"}, turn : Positive]

SessionTypes ==
    /\ s \in CodexS /\ db = Codex!Row(s)
    /\ codexTurns \in Seq(CodexTurn) /\ events \in Seq(CodexEvent)
    /\ s.active <= Len(codexTurns)
    /\ \A i \in DOMAIN events : events[i].turn <= Len(codexTurns)

\* The checkpoint is one of a grant while a turn that resumes it is awaited, or is under way.
Continuations ==
    /\ policy \in Codex!Accesses
    /\ chk \in Grants \cup {None} /\ resuming \in BOOLEAN /\ resumed \in 0 .. Len(codexTurns)
    /\ resumed # 0 => chk # None
    /\ resuming => chk # None /\ resumed = 0

CodexTypes == SessionTypes /\ Continuations

\* A start is acknowledged by the time a turn has started, or refused when it ends before; a turn
\* that has no thread yet asks for that of the session.
LifeRules(t) ==
    /\ codexTurns[t].life \in {"spawned", "threaded"} => codexTurns[t].ack = "pending"
    /\ codexTurns[t].life = "started" => codexTurns[t].ack = "acked"
    /\ codexTurns[t].life = "over" => codexTurns[t].ack # "pending"
    /\ codexTurns[t].life = "spawned" => codexTurns[t].thread = 0 /\ codexTurns[t].from = s.thread

\* A thread has one grant, that of the session the session's.
ThreadsAreSeparate ==
    /\ s.bound = None => s.thread = 0
    /\ \A t \in DOMAIN codexTurns : codexTurns[t].thread = s.thread /\ s.thread # 0 => codexTurns[t].grant = s.bound
    /\ \A t, u \in DOMAIN codexTurns :
          codexTurns[t].thread = codexTurns[u].thread /\ codexTurns[t].thread # 0 => codexTurns[t].grant = codexTurns[u].grant

\* A turn that was to be reported has one report, any other none.
Reported(t) == codexTurns[t].life = "over" /\ codexTurns[t].kind # "context" /\ ~codexTurns[t].silent
ReportsAreUnique ==
    \A t \in DOMAIN codexTurns :
        IF Reported(t) THEN \E i \in DOMAIN events : Codex!Terminal(t) = {i} ELSE Codex!Terminal(t) = {}

CodexInv ==
    /\ Codex!TurnIsOfTheBinding /\ \A t \in DOMAIN codexTurns : LifeRules(t)
    /\ ThreadsAreSeparate /\ Codex!RepliesAreOfAckedTurns /\ ReportsAreUnique

CodexPart == part = "codex" => CodexTypes /\ CodexInv

-----------------------------------------------------------------------------
(* Codex: the proof.                                                        *)

LEMMA CodexFacts ==
  ASSUME SessionTypes
  PROVE  /\ s \in CodexS /\ s.bound \in Grants \cup {None} /\ s.thread \in Nat /\ s.active \in Nat
         /\ s.state \in {"idle", "busy"} /\ s.sender \in BOOLEAN
         /\ Len(codexTurns) \in Nat /\ DOMAIN codexTurns = 1 .. Len(codexTurns)
         /\ \A t \in 1 .. Len(codexTurns) :
              /\ codexTurns[t] \in CodexTurn /\ codexTurns[t].grant \in Grants
              /\ codexTurns[t].thread \in Nat /\ codexTurns[t].from \in Nat
         /\ Len(events) \in Nat /\ DOMAIN events = 1 .. Len(events)
         /\ \A i \in 1 .. Len(events) : /\ events[i] \in CodexEvent /\ events[i].turn \in 1 .. Len(codexTurns)
<1>1. s \in CodexS /\ s.bound \in Grants \cup {None} /\ s.thread \in Nat /\ s.active \in Nat
      /\ s.state \in {"idle", "busy"} /\ s.sender \in BOOLEAN
  BY DEF SessionTypes, CodexS
<1>2. PICK T : T = CodexTurn
  OBVIOUS
<1>3. codexTurns \in Seq(T)
  BY <1>2 DEF SessionTypes
<1>4. Len(codexTurns) \in Nat /\ DOMAIN codexTurns = 1 .. Len(codexTurns)
      /\ \A t \in 1 .. Len(codexTurns) : codexTurns[t] \in T
  BY <1>3
<1>5. \A t \in 1 .. Len(codexTurns) :
         /\ codexTurns[t] \in CodexTurn /\ codexTurns[t].grant \in Grants
         /\ codexTurns[t].thread \in Nat /\ codexTurns[t].from \in Nat
  BY <1>2, <1>4 DEF CodexTurn
<1>6. PICK E : E = CodexEvent
  OBVIOUS
<1>7. events \in Seq(E)
  BY <1>6 DEF SessionTypes
<1>8. Len(events) \in Nat /\ DOMAIN events = 1 .. Len(events) /\ \A i \in 1 .. Len(events) : events[i] \in E
  BY <1>7
<1>9. \A i \in 1 .. Len(events) : events[i].turn <= Len(codexTurns)
  BY <1>8 DEF SessionTypes
<1>10. \A i \in 1 .. Len(events) : events[i] \in CodexEvent /\ events[i].turn \in 1 .. Len(codexTurns)
  BY <1>4, <1>6, <1>8, <1>9 DEF CodexEvent, Positive
<1> QED
  BY <1>1, <1>4, <1>5, <1>8, <1>10

\* One event more: the reports of a turn but its own stay.
LEMMA EventAppended ==
  ASSUME SessionTypes, NEW type \in {"turn_started", "turn_failed", "reply"}, NEW t \in DOMAIN codexTurns,
         events' = Append(events, [type |-> type, turn |-> t])
  PROVE  /\ events' \in Seq(CodexEvent) /\ DOMAIN events' = 1 .. Len(events) + 1
         /\ \A i \in 1 .. Len(events) : events'[i] = events[i]
         /\ events'[Len(events) + 1] = [type |-> type, turn |-> t]
         /\ \A u : u # t \/ type = "turn_started" => Codex!Terminal(u)' = Codex!Terminal(u)
         /\ type # "turn_started" => Codex!Terminal(t)' = Codex!Terminal(t) \cup {Len(events) + 1}
<1> USE CodexFacts
<1>1. PICK E : E = CodexEvent
  OBVIOUS
<1>2. PICK e : e = [type |-> type, turn |-> t]
  OBVIOUS
<1>3. e \in E /\ e.type = type /\ e.turn = t
  BY <1>1, <1>2 DEF CodexEvent, Positive
<1>4. events \in Seq(E) /\ events' = Append(events, e)
  BY <1>1, <1>2 DEF SessionTypes
<1>5. PICK n \in Nat : n = Len(events)
  OBVIOUS
<1>6. /\ events' \in Seq(E) /\ DOMAIN events' = 1 .. n + 1 /\ DOMAIN events = 1 .. n
      /\ \A i \in 1 .. n : events'[i] = events[i]
      /\ events'[n + 1] = e
  BY ONLY <1>3, <1>4, <1>5
<1>7. ASSUME NEW u  PROVE Codex!Terminal(u)' = {i \in 1 .. n + 1 : events'[i].turn = u /\ events'[i].type # "turn_started"}
  BY <1>6 DEF Codex!Terminal
<1>8. ASSUME NEW u  PROVE Codex!Terminal(u) = {i \in 1 .. n : events[i].turn = u /\ events[i].type # "turn_started"}
  BY <1>6 DEF Codex!Terminal
<1>9. ASSUME NEW u, u # t \/ type = "turn_started"  PROVE Codex!Terminal(u)' = Codex!Terminal(u)
  <2>1. /\ \A i \in 1 .. n : events'[i] = events[i]
        /\ ~(events'[n + 1].turn = u /\ events'[n + 1].type # "turn_started")
    BY <1>3, <1>6, <1>9
  <2>2. {i \in 1 .. n + 1 : events'[i].turn = u /\ events'[i].type # "turn_started"}
          = {i \in 1 .. n : events[i].turn = u /\ events[i].type # "turn_started"}
    BY ONLY <2>1, <1>5
  <2> QED
    BY <1>7, <1>8, <2>2
<1>10. ASSUME type # "turn_started"  PROVE Codex!Terminal(t)' = Codex!Terminal(t) \cup {n + 1}
  <2>1. /\ \A i \in 1 .. n : events'[i] = events[i]
        /\ events'[n + 1].turn = t /\ events'[n + 1].type # "turn_started"
    BY <1>3, <1>6, <1>10
  <2>2. {i \in 1 .. n + 1 : events'[i].turn = t /\ events'[i].type # "turn_started"}
          = {i \in 1 .. n : events[i].turn = t /\ events[i].type # "turn_started"} \cup {n + 1}
    BY ONLY <2>1, <1>5
  <2> QED
    BY <1>7, <1>8, <2>2
<1> QED
  BY <1>1, <1>2, <1>5, <1>6, <1>9, <1>10

\* What a turn becomes that ends.
TurnOver(u) ==
    /\ codexTurns'[u].grant = codexTurns[u].grant /\ codexTurns'[u].kind = codexTurns[u].kind
    /\ codexTurns'[u].thread = codexTurns[u].thread
    /\ codexTurns'[u].life = "over"
    /\ codexTurns'[u].ack = IF codexTurns[u].ack = "pending" THEN "refused" ELSE codexTurns[u].ack

\* No turn is under way any longer.
AllOver ==
    /\ codexTurns' \in Seq(CodexTurn) /\ DOMAIN codexTurns' = DOMAIN codexTurns
    /\ \A u \in DOMAIN codexTurns :
          IF codexTurns[u].life = "over" THEN codexTurns'[u] = codexTurns[u] ELSE TurnOver(u)

\* The session has no turn, and the thread it had or none.
Rests ==
    /\ s' \in CodexS /\ s'.active = 0 /\ s'.state = "idle"
    /\ db' = Codex!Row(s')
    /\ s'.thread = 0 \/ (s'.thread = s.thread /\ s'.bound = s.bound)

\* The turns that end are not to be reported, or the one that ends is.
Silent == /\ events' = events
          /\ \A u \in DOMAIN codexTurns : codexTurns[u].life # "over" => codexTurns'[u].kind = "context" \/ codexTurns'[u].silent
Reports(t, type) ==
    /\ codexTurns[t].life # "over" /\ codexTurns'[t].kind # "context" /\ ~codexTurns'[t].silent
    /\ events' = Append(events, [type |-> type, turn |-> t])
    /\ type = "reply" => codexTurns[t].ack = "acked"

LEMMA RestKeepsReports ==
  ASSUME SessionTypes, CodexInv, AllOver,
         Silent \/ \E t \in DOMAIN codexTurns, type \in {"turn_failed", "reply"} : Reports(t, type)
  PROVE  /\ events' \in Seq(CodexEvent) /\ \A i \in DOMAIN events' : events'[i].turn <= Len(codexTurns)
         /\ Codex!RepliesAreOfAckedTurns' /\ ReportsAreUnique'
<1> USE CodexFacts
<1>1. \A u \in DOMAIN codexTurns : codexTurns[u].ack = "acked" => codexTurns'[u].ack = "acked"
  BY DEF AllOver, TurnOver
<1>2. \A i \in DOMAIN events : events[i].type = "reply" => codexTurns[events[i].turn].ack = "acked"
  BY DEF CodexInv, Codex!RepliesAreOfAckedTurns
<1>3. ASSUME NEW u \in DOMAIN codexTurns
      PROVE  IF Reported(u) THEN \E i \in DOMAIN events : Codex!Terminal(u) = {i} ELSE Codex!Terminal(u) = {}
  BY DEF CodexInv, ReportsAreUnique
<1>4. \A u \in DOMAIN codexTurns : codexTurns[u].life = "over" => Reported(u)' = Reported(u)
  BY DEF AllOver, Reported
<1>5. CASE Silent
  <2>1. events' = events /\ \A u : Codex!Terminal(u)' = Codex!Terminal(u)
    BY <1>5 DEF Silent, Codex!Terminal
  <2>2. \A u \in DOMAIN codexTurns : codexTurns[u].life # "over" => ~Reported(u)' /\ ~Reported(u)
    BY <1>5 DEF Silent, Reported
  <2>3. ReportsAreUnique'
    BY <1>3, <1>4, <2>1, <2>2 DEF ReportsAreUnique, AllOver
  <2>4. Codex!RepliesAreOfAckedTurns'
    BY <1>1, <1>2, <2>1 DEF Codex!RepliesAreOfAckedTurns
  <2>5. events' \in Seq(CodexEvent) /\ \A i \in DOMAIN events' : events'[i].turn <= Len(codexTurns)
    BY <2>1 DEF SessionTypes
  <2> QED
    BY <2>3, <2>4, <2>5
<1>6. ASSUME NEW t \in DOMAIN codexTurns, NEW type \in {"turn_failed", "reply"}, Reports(t, type)
      PROVE  /\ events' \in Seq(CodexEvent) /\ \A i \in DOMAIN events' : events'[i].turn <= Len(codexTurns)
             /\ Codex!RepliesAreOfAckedTurns' /\ ReportsAreUnique'
  <2>1. /\ events' \in Seq(CodexEvent) /\ DOMAIN events' = 1 .. Len(events) + 1
        /\ \A i \in 1 .. Len(events) : events'[i] = events[i]
        /\ events'[Len(events) + 1] = [type |-> type, turn |-> t]
        /\ \A u : u # t => Codex!Terminal(u)' = Codex!Terminal(u)
        /\ Codex!Terminal(t)' = Codex!Terminal(t) \cup {Len(events) + 1}
    BY <1>6, EventAppended DEF Reports
  <2>2. PICK n \in Nat : n = Len(events) /\ DOMAIN events = 1 .. n
    OBVIOUS
  <2>3. \A i \in DOMAIN events' : i = n + 1 \/ (i \in DOMAIN events /\ events'[i] = events[i])
    BY <2>1, <2>2
  <2>4. events'[n + 1].type = type /\ events'[n + 1].turn = t
    BY <2>1, <2>2
  <2>5. \A i \in DOMAIN events' : events'[i].turn <= Len(codexTurns)
    BY <2>2, <2>3, <2>4
  <2>6. Codex!RepliesAreOfAckedTurns'
    BY <1>1, <1>2, <1>6, <2>2, <2>3, <2>4 DEF Codex!RepliesAreOfAckedTurns, Reports
  <2>7. \A u \in DOMAIN codexTurns : codexTurns[u].life # "over" => u = s.active
    BY DEF CodexInv, Codex!TurnIsOfTheBinding
  <2>8. Codex!Terminal(t) = {} /\ Reported(t)' /\ n + 1 \in DOMAIN events'
    BY <1>3, <1>6, <2>1, <2>2 DEF Reports, Reported, AllOver, TurnOver
  <2>9. Codex!Terminal(t)' = {n + 1}
    BY <2>1, <2>2, <2>8
  <2>10. DOMAIN events \subseteq DOMAIN events'
    BY <2>1, <2>2
  <2>11. ASSUME NEW u \in DOMAIN codexTurns
         PROVE  IF Reported(u)' THEN \E i \in DOMAIN events' : Codex!Terminal(u)' = {i} ELSE Codex!Terminal(u)' = {}
    <3>1. CASE u = t
      BY <2>8, <2>9, <3>1
    <3>2. CASE u # t
      <4>1. codexTurns[u].life = "over"
        BY <1>6, <2>7, <3>2 DEF Reports
      <4> QED
        BY <1>3, <1>4, <2>1, <2>10, <3>2, <4>1
    <3> QED
      BY <3>1, <3>2
  <2>12. ReportsAreUnique'
    BY <2>11 DEF ReportsAreUnique, AllOver
  <2> QED
    BY <2>1, <2>5, <2>6, <2>12
<1> QED
  BY <1>5, <1>6

\* Every turn keeps its thread; one that is new has none.
ThreadsKept ==
    /\ Len(codexTurns) <= Len(codexTurns')
    /\ \A u \in DOMAIN codexTurns : /\ u \in DOMAIN codexTurns'
                                    /\ codexTurns'[u].thread = codexTurns[u].thread
                                    /\ codexTurns'[u].grant = codexTurns[u].grant
    /\ \A u \in DOMAIN codexTurns' : u \in DOMAIN codexTurns \/ codexTurns'[u].thread = 0

LEMMA RestKeeps ==
  ASSUME SessionTypes, CodexInv, AllOver, Rests, s'.bound = None => s'.thread = 0,
         Silent \/ \E t \in DOMAIN codexTurns, type \in {"turn_failed", "reply"} : Reports(t, type)
  PROVE  SessionTypes' /\ CodexInv' /\ ThreadsKept
<1> USE CodexFacts
<1>1. /\ events' \in Seq(CodexEvent) /\ \A i \in DOMAIN events' : events'[i].turn <= Len(codexTurns)
      /\ Codex!RepliesAreOfAckedTurns' /\ ReportsAreUnique'
  BY RestKeepsReports
<1>2. Len(codexTurns') = Len(codexTurns) /\ DOMAIN codexTurns' = DOMAIN codexTurns
  <2>1. PICK T : T = CodexTurn
    OBVIOUS
  <2>2. codexTurns' \in Seq(T) /\ DOMAIN codexTurns' = DOMAIN codexTurns
    BY <2>1 DEF AllOver
  <2>3. Len(codexTurns') \in Nat /\ DOMAIN codexTurns' = 1 .. Len(codexTurns')
    BY <2>2
  <2> QED
    BY <2>2, <2>3
<1>3. SessionTypes'
  <2>1. codexTurns' \in Seq(CodexTurn) /\ s' \in CodexS /\ db' = Codex!Row(s') /\ s'.active <= Len(codexTurns')
    BY <1>2 DEF AllOver, Rests
  <2> QED
    BY <1>1, <1>2, <2>1 DEF SessionTypes, Codex!Row
<1>4. /\ \A u \in DOMAIN codexTurns : /\ codexTurns'[u].grant = codexTurns[u].grant /\ codexTurns'[u].life = "over"
                                      /\ codexTurns'[u].thread = codexTurns[u].thread
                                      /\ codexTurns'[u].ack # "pending"
  <2>1. \A u \in DOMAIN codexTurns : codexTurns[u].life = "over" => codexTurns[u].ack # "pending"
    BY DEF CodexInv, LifeRules
  <2> QED
    BY <2>1 DEF AllOver, TurnOver
<1>5. Codex!TurnIsOfTheBinding'
  BY <1>2, <1>4 DEF Codex!TurnIsOfTheBinding, Rests
<1>6. \A t \in DOMAIN codexTurns' : LifeRules(t)'
  BY <1>2, <1>4 DEF LifeRules
<1>7. ThreadsAreSeparate'
  <2>1. /\ \A t \in DOMAIN codexTurns : codexTurns[t].thread = s.thread /\ s.thread # 0 => codexTurns[t].grant = s.bound
        /\ \A t, u \in DOMAIN codexTurns :
              codexTurns[t].thread = codexTurns[u].thread /\ codexTurns[t].thread # 0 => codexTurns[t].grant = codexTurns[u].grant
    BY DEF CodexInv, ThreadsAreSeparate
  <2>2. s'.thread = 0 \/ (s'.thread = s.thread /\ s'.bound = s.bound)
    BY DEF Rests
  <2>3. \A t \in DOMAIN codexTurns' : codexTurns'[t].thread = s'.thread /\ s'.thread # 0 => codexTurns'[t].grant = s'.bound
    BY ONLY <1>2, <1>4, <2>1, <2>2
  <2>4. \A t, u \in DOMAIN codexTurns' :
           codexTurns'[t].thread = codexTurns'[u].thread /\ codexTurns'[t].thread # 0 => codexTurns'[t].grant = codexTurns'[u].grant
    BY ONLY <1>2, <1>4, <2>1
  <2> QED
    BY <2>3, <2>4 DEF ThreadsAreSeparate
<1>8. ThreadsKept
  BY <1>2, <1>4 DEF ThreadsKept
<1> QED
  BY <1>1, <1>3, <1>5, <1>6, <1>7, <1>8 DEF CodexInv

LEMMA OverEndsAll ==
  ASSUME SessionTypes, CodexInv, NEW t \in DOMAIN codexTurns, codexTurns[t].life # "over", NEW silent \in BOOLEAN,
         codexTurns' = Codex!Over(t, silent)
  PROVE  AllOver /\ codexTurns'[t].silent = silent
<1> USE CodexFacts
<1>1. PICK T : T = CodexTurn
  OBVIOUS
<1>2. PICK x : x = codexTurns[t]
  OBVIOUS
<1>3. PICK y : y = [x EXCEPT !.life = "over", !.silent = silent, !.ack = IF x.ack = "pending" THEN "refused" ELSE x.ack]
  OBVIOUS
<1>4. x \in CodexTurn
  BY <1>2
<1>5. /\ y \in CodexTurn /\ y.grant = x.grant /\ y.kind = x.kind /\ y.thread = x.thread /\ y.life = "over"
      /\ y.ack = (IF x.ack = "pending" THEN "refused" ELSE x.ack) /\ y.silent = silent
  BY <1>3, <1>4 DEF CodexTurn
<1>6. codexTurns \in Seq(T) /\ codexTurns' = [codexTurns EXCEPT ![t] = y]
  BY <1>1, <1>2, <1>3 DEF SessionTypes, Codex!Over
<1>7. y \in T
  BY <1>1, <1>5
<1>8. /\ codexTurns' \in Seq(T) /\ DOMAIN codexTurns' = DOMAIN codexTurns
      /\ codexTurns'[t] = y /\ \A u \in DOMAIN codexTurns : u # t => codexTurns'[u] = codexTurns[u]
  BY ONLY <1>6, <1>7, t \in DOMAIN codexTurns
<1>9. \A u \in DOMAIN codexTurns : codexTurns[u].life # "over" => u = t
  BY DEF CodexInv, Codex!TurnIsOfTheBinding
<1>10. TurnOver(t)
  BY <1>2, <1>5, <1>8 DEF TurnOver
<1>11. codexTurns'[t].silent = silent
  BY <1>5, <1>8
<1> QED
  BY <1>1, <1>8, <1>9, <1>10, <1>11 DEF AllOver

LEMMA NoneToEnd ==
  ASSUME SessionTypes, CodexInv, s.active = 0, codexTurns' = codexTurns, events' = events
  PROVE  AllOver /\ Silent
<1>1. \A t \in DOMAIN codexTurns : codexTurns[t].life = "over"
  BY CodexFacts DEF CodexInv, Codex!TurnIsOfTheBinding
<1> QED
  BY <1>1 DEF AllOver, Silent, SessionTypes

LEMMA IdleRests ==
  ASSUME SessionTypes, CodexInv, NEW t, s' = Codex!Idle(t), db' = Codex!Row(s')
  PROVE  Rests /\ (s'.bound = None => s'.thread = 0)
<1>1. s \in CodexS
  BY DEF SessionTypes
<1>2. s' \in CodexS /\ s'.active = 0 /\ s'.state = "idle" /\ s'.thread = s.thread /\ s'.bound = s.bound
  BY <1>1 DEF Codex!Idle, CodexS
<1> QED
  BY <1>2 DEF Rests, CodexInv, ThreadsAreSeparate

LEMMA UnboundRests ==
  ASSUME SessionTypes, s' = Codex!Unbound, db' = Codex!Row(s')
  PROVE  Rests /\ (s'.bound = None => s'.thread = 0)
<1>1. s' \in CodexS /\ s'.active = 0 /\ s'.state = "idle" /\ s'.thread = 0
  BY DEF Codex!Unbound, CodexS
<1> QED
  BY <1>1 DEF Rests

\* The end of one turn, reported as type unless it is for context only.
LEMMA EndKeeps ==
  ASSUME SessionTypes, CodexInv, NEW t \in DOMAIN codexTurns, codexTurns[t].life # "over",
         codexTurns' = Codex!Over(t, FALSE), NEW type \in {"turn_failed", "reply"},
         events' = Codex!Report(type, t), type = "reply" => codexTurns[t].ack = "acked",
         Rests, s'.bound = None => s'.thread = 0
  PROVE  SessionTypes' /\ CodexInv' /\ ThreadsKept
<1>1. AllOver /\ ~codexTurns'[t].silent
  BY OverEndsAll
<1>2. codexTurns'[t].kind = codexTurns[t].kind
  BY <1>1 DEF AllOver, TurnOver
<1>3. \A u \in DOMAIN codexTurns : codexTurns[u].life # "over" => u = t
  BY CodexFacts DEF CodexInv, Codex!TurnIsOfTheBinding
<1>4. Silent \/ Reports(t, type)
  <2>1. CASE codexTurns[t].kind = "context"
    BY <1>2, <1>3, <2>1 DEF Silent, Codex!Report
  <2>2. CASE codexTurns[t].kind # "context"
    BY <1>1, <1>2, <2>2 DEF Reports, Codex!Report
  <2> QED
    BY <2>1, <2>2
<1> QED
  BY <1>1, <1>4, RestKeeps

LEMMA CodexAckTimeout ==
  ASSUME SessionTypes, CodexInv, NEW t \in DOMAIN codexTurns, Codex!AckTimeout(t)
  PROVE  SessionTypes' /\ CodexInv' /\ ThreadsKept
<1>1. codexTurns[t].life # "over"
  BY DEF Codex!AckTimeout, CodexInv, LifeRules
<1>2. Rests /\ (s'.bound = None => s'.thread = 0)
  BY IdleRests DEF Codex!AckTimeout
<1>3. codexTurns' = Codex!Over(t, FALSE) /\ events' = Codex!Report("turn_failed", t)
  BY DEF Codex!AckTimeout, Codex!Abandoned, Codex!Failed
<1> QED
  BY <1>1, <1>2, <1>3, EndKeeps

LEMMA CodexTurnFails ==
  ASSUME SessionTypes, CodexInv, NEW t \in DOMAIN codexTurns, Codex!TurnFails(t)
  PROVE  SessionTypes' /\ CodexInv' /\ ThreadsKept
<1>1. codexTurns[t].life # "over"
  BY DEF Codex!TurnFails
<1>2. Rests /\ (s'.bound = None => s'.thread = 0)
  BY IdleRests DEF Codex!TurnFails
<1>3. codexTurns' = Codex!Over(t, FALSE) /\ events' = Codex!Report("turn_failed", t)
  BY DEF Codex!TurnFails, Codex!Failed
<1> QED
  BY <1>1, <1>2, <1>3, EndKeeps

LEMMA CodexTurnCompleted ==
  ASSUME SessionTypes, CodexInv, NEW t \in DOMAIN codexTurns, NEW text \in BOOLEAN, Codex!TurnCompleted(t, text)
  PROVE  SessionTypes' /\ CodexInv' /\ ThreadsKept
<1>1. codexTurns[t].life # "over" /\ codexTurns[t].ack = "acked"
  BY DEF Codex!TurnCompleted, CodexInv, LifeRules
<1>2. Rests /\ (s'.bound = None => s'.thread = 0)
  BY IdleRests DEF Codex!TurnCompleted
<1>3. codexTurns' = Codex!Over(t, FALSE)
  BY DEF Codex!TurnCompleted
<1>4. CASE text
  BY <1>1, <1>2, <1>3, <1>4, EndKeeps DEF Codex!TurnCompleted
<1>5. CASE ~text
  BY <1>1, <1>2, <1>3, <1>5, EndKeeps DEF Codex!TurnCompleted, Codex!Failed
<1> QED
  BY <1>4, <1>5

LEMMA CodexReset ==
  ASSUME SessionTypes, CodexInv, Codex!Reset
  PROVE  SessionTypes' /\ CodexInv' /\ ThreadsKept
<1>1. Rests /\ (s'.bound = None => s'.thread = 0)
  BY UnboundRests DEF Codex!Reset, Codex!AfterReset
<1>2. CASE s.active = 0
  <2>1. AllOver /\ Silent
    BY <1>2, NoneToEnd DEF Codex!Reset
  <2> QED
    BY <1>1, <2>1, RestKeeps
<1>3. CASE s.active # 0
  <2>1. s.active \in DOMAIN codexTurns /\ codexTurns[s.active].life # "over"
    BY <1>3, CodexFacts DEF SessionTypes, CodexInv, Codex!TurnIsOfTheBinding
  <2>2. codexTurns' = Codex!Over(s.active, FALSE) /\ events' = Codex!Report("turn_failed", s.active)
    BY <1>3 DEF Codex!Reset, Codex!Failed
  <2> QED
    BY <1>1, <2>1, <2>2, EndKeeps
<1> QED
  BY <1>2, <1>3

LEMMA CodexRebuild ==
  ASSUME SessionTypes, CodexInv, NEW g \in Grants, Codex!Rebuild(g)
  PROVE  SessionTypes' /\ CodexInv' /\ ThreadsKept
<1>1. Rests /\ (s'.bound = None => s'.thread = 0)
  <2>1. CASE s' = Codex!Idle(0)
    BY <2>1, IdleRests DEF Codex!Rebuild
  <2>2. CASE s' = [Codex!Idle(0) EXCEPT !.thread = 0]
    <3>1. Codex!Idle(0) \in CodexS /\ Codex!Idle(0).active = 0 /\ Codex!Idle(0).state = "idle"
      BY DEF Codex!Idle, CodexS, SessionTypes
    <3>2. PICK x : x = Codex!Idle(0)
      OBVIOUS
    <3>3. s' \in CodexS /\ s'.active = 0 /\ s'.state = "idle" /\ s'.thread = 0
      BY <2>2, <3>1, <3>2 DEF CodexS
    <3> QED
      BY <3>3 DEF Rests, Codex!Rebuild
  <2> QED
    BY <2>1, <2>2 DEF Codex!Rebuild
<1>2. CASE s.active = 0
  <2>1. AllOver /\ Silent
    BY <1>2, NoneToEnd DEF Codex!Rebuild
  <2> QED
    BY <1>1, <2>1, RestKeeps
<1>3. CASE s.active # 0
  <2>1. s.active \in DOMAIN codexTurns /\ codexTurns[s.active].life # "over"
    BY <1>3, CodexFacts DEF SessionTypes, CodexInv, Codex!TurnIsOfTheBinding
  <2>2. codexTurns' = Codex!Over(s.active, TRUE) /\ events' = events
    BY <1>3 DEF Codex!Rebuild
  <2>3. AllOver /\ codexTurns'[s.active].silent
    BY <2>1, <2>2, OverEndsAll
  <2>4. \A u \in DOMAIN codexTurns : codexTurns[u].life # "over" => u = s.active
    BY CodexFacts DEF CodexInv, Codex!TurnIsOfTheBinding
  <2>5. Silent
    BY <2>2, <2>3, <2>4 DEF Silent
  <2> QED
    BY <1>1, <2>3, <2>5, RestKeeps
<1> QED
  BY <1>2, <1>3

LEMMA CodexRestart ==
  ASSUME SessionTypes, CodexInv, Codex!Restart
  PROVE  SessionTypes' /\ CodexInv' /\ ThreadsKept
<1> USE CodexFacts
<1>1. db = [state |-> s.state, bound |-> s.bound, thread |-> s.thread]
  BY DEF SessionTypes, Codex!Row
<1>2. Rests /\ (s'.bound = None => s'.thread = 0)
  <2>1. PICK w : w = IF FullAgent \/ s.bound = None THEN 0 ELSE s.thread
    OBVIOUS
  <2>2. s' = [Codex!Unbound EXCEPT !.bound = s.bound, !.thread = w]
    BY <1>1, <2>1 DEF Codex!Restart, Codex!Loaded
  <2>3. s' \in CodexS /\ s'.active = 0 /\ s'.state = "idle" /\ s'.thread = w /\ s'.bound = s.bound
    BY <2>1, <2>2 DEF Codex!Unbound, CodexS
  <2> QED
    BY <2>1, <2>3 DEF Rests, Codex!Restart
<1>3. AllOver /\ \A u \in DOMAIN codexTurns : codexTurns[u].life # "over" => codexTurns'[u].silent
  <2> DEFINE now(u) == IF codexTurns[u].life = "over" THEN codexTurns[u]
                       ELSE [codexTurns[u] EXCEPT !.life = "over", !.silent = TRUE,
                                                  !.ack = IF @ = "pending" THEN "refused" ELSE @]
  <2>1. codexTurns' = [u \in DOMAIN codexTurns |-> now(u)]
    BY DEF Codex!Restart
  <2>2. ASSUME NEW u \in DOMAIN codexTurns, codexTurns[u].life # "over"
        PROVE  /\ now(u) \in CodexTurn /\ now(u).grant = codexTurns[u].grant /\ now(u).kind = codexTurns[u].kind
               /\ now(u).thread = codexTurns[u].thread /\ now(u).life = "over" /\ now(u).silent
               /\ now(u).ack = IF codexTurns[u].ack = "pending" THEN "refused" ELSE codexTurns[u].ack
    <3>1. PICK x : x = codexTurns[u]
      OBVIOUS
    <3>2. x \in CodexTurn
      BY <3>1
    <3>3. now(u) = [x EXCEPT !.life = "over", !.silent = TRUE, !.ack = IF x.ack = "pending" THEN "refused" ELSE x.ack]
      BY <2>2, <3>1
    <3> HIDE DEF now
    <3> QED
      BY <3>1, <3>2, <3>3 DEF CodexTurn
  <2>3. \A u \in DOMAIN codexTurns : codexTurns[u].life = "over" => now(u) = codexTurns[u]
    OBVIOUS
  <2> HIDE DEF now
  <2>4. \A u \in DOMAIN codexTurns : codexTurns'[u] = now(u)
    BY <2>1
  <2>5. PICK T : T = CodexTurn
    OBVIOUS
  <2>6. \A u \in 1 .. Len(codexTurns) : now(u) \in T
    BY <2>2, <2>3, <2>5
  <2>7. PICK n \in Nat : n = Len(codexTurns) /\ DOMAIN codexTurns = 1 .. n
    OBVIOUS
  <2>8. codexTurns' \in Seq(T) /\ DOMAIN codexTurns' = DOMAIN codexTurns
    BY ONLY <2>1, <2>6, <2>7
  <2>9. \A u \in DOMAIN codexTurns : codexTurns[u].life # "over" => TurnOver(u) /\ codexTurns'[u].silent
    BY <2>2, <2>4 DEF TurnOver
  <2> QED
    BY <2>3, <2>4, <2>5, <2>8, <2>9 DEF AllOver
<1>4. Silent
  BY <1>3 DEF Silent, Codex!Restart
<1> QED
  BY <1>2, <1>3, <1>4, RestKeeps

LEMMA CodexDeliverRefused ==
  ASSUME SessionTypes, CodexInv, NEW g \in Grants, NEW kind \in Codex!Kinds, Codex!DeliverRefused(g, kind)
  PROVE  SessionTypes' /\ CodexInv' /\ ThreadsKept
<1>1. s.state = "idle" /\ s.active = 0 /\ s.bound \in {None, g}
  BY CodexFacts DEF Codex!DeliverRefused, Codex!Admits
<1>2. s \in CodexS /\ s' = [s EXCEPT !.bound = g, !.sender = TRUE] /\ db' = Codex!Row(s')
  BY DEF Codex!DeliverRefused, Codex!Bound, SessionTypes
<1>3. s' \in CodexS /\ s'.active = 0 /\ s'.state = "idle" /\ s'.bound = g /\ s'.thread = s.thread
  BY <1>1, <1>2 DEF CodexS
<1>4. g # None
  BY AdaptersAssumption DEF AdaptersAssumption
<1>5. Rests /\ (s'.bound = None => s'.thread = 0)
  BY <1>1, <1>2, <1>3, <1>4 DEF Rests, CodexInv, ThreadsAreSeparate
<1>6. AllOver /\ Silent
  BY <1>1, NoneToEnd DEF Codex!DeliverRefused
<1> QED
  BY <1>5, <1>6, RestKeeps

LEMMA CodexDeliver ==
  ASSUME SessionTypes, CodexInv, NEW g \in Grants, NEW kind \in Codex!Kinds, Codex!Deliver(g, kind)
  PROVE  SessionTypes' /\ CodexInv' /\ ThreadsKept /\ Len(codexTurns') = Len(codexTurns) + 1
<1> USE CodexFacts
<1>1. s.state = "idle" /\ s.active = 0 /\ s.bound \in {None, g}
  BY DEF Codex!Deliver, Codex!Admits
<1>2. g # None
  BY AdaptersAssumption DEF AdaptersAssumption
<1>3. PICK T : T = CodexTurn
  OBVIOUS
<1>4. PICK n \in Nat : n = Len(codexTurns) /\ DOMAIN codexTurns = 1 .. n
  OBVIOUS
<1>5. PICK x : x = [grant |-> g, kind |-> kind, thread |-> 0, from |-> s.thread,
                    ack |-> "pending", life |-> "spawned", silent |-> FALSE]
  OBVIOUS
<1>6. /\ x \in CodexTurn /\ x.grant = g /\ x.kind = kind /\ x.thread = 0 /\ x.from = s.thread
      /\ x.ack = "pending" /\ x.life = "spawned"
  BY <1>5 DEF CodexTurn
<1>7. codexTurns \in Seq(T) /\ x \in T /\ codexTurns' = Append(codexTurns, x)
  BY <1>3, <1>5, <1>6 DEF SessionTypes, Codex!Deliver
<1>8. /\ codexTurns' \in Seq(T) /\ Len(codexTurns') = n + 1 /\ DOMAIN codexTurns' = 1 .. n + 1
      /\ codexTurns'[n + 1] = x /\ \A t \in 1 .. n : codexTurns'[t] = codexTurns[t]
  BY ONLY <1>4, <1>7
<1>9. PICK z : z = Codex!Bound(g)
  OBVIOUS
<1>10. s' \in CodexS /\ s'.state = "idle" /\ s'.bound = g /\ s'.active = n + 1 /\ s'.thread = s.thread
  <2>1. z \in CodexS /\ z.state = "idle" /\ z.bound = g /\ z.thread = s.thread
    BY <1>1, <1>9 DEF Codex!Bound, CodexS
  <2>2. s' = [z EXCEPT !.active = n + 1]
    BY <1>8, <1>9 DEF Codex!Deliver
  <2>3. s' \in CodexS /\ s'.state = z.state /\ s'.bound = z.bound /\ s'.active = n + 1 /\ s'.thread = z.thread
    BY <2>1, <2>2 DEF CodexS
  <2> QED
    BY <2>1, <2>3
<1>11. db' = Codex!Row(s') /\ events' = events
  BY DEF Codex!Deliver
<1>12. SessionTypes'
  <2>1. \A i \in DOMAIN events' : events'[i].turn <= n + 1
    BY <1>4, <1>11
  <2>2. events' \in Seq(CodexEvent)
    BY <1>11 DEF SessionTypes
  <2> QED
    BY <1>3, <1>8, <1>10, <1>11, <2>1, <2>2 DEF SessionTypes, Codex!Row
<1>13. \A t \in 1 .. n : codexTurns[t].life = "over"
  BY <1>1, <1>4 DEF CodexInv, Codex!TurnIsOfTheBinding
<1>14. Codex!TurnIsOfTheBinding'
  BY <1>6, <1>8, <1>10, <1>13 DEF Codex!TurnIsOfTheBinding
<1>15. \A t \in DOMAIN codexTurns' : LifeRules(t)'
  BY <1>4, <1>6, <1>8, <1>10, <1>13 DEF LifeRules, CodexInv
<1>16. ThreadsAreSeparate'
  <2>1. /\ s.bound = None => s.thread = 0
        /\ \A t \in 1 .. n : codexTurns[t].thread = s.thread /\ s.thread # 0 => codexTurns[t].grant = s.bound
        /\ \A t, u \in 1 .. n :
              codexTurns[t].thread = codexTurns[u].thread /\ codexTurns[t].thread # 0 => codexTurns[t].grant = codexTurns[u].grant
    <3>1. ThreadsAreSeparate
      BY DEF CodexInv
    <3> QED
      BY ONLY <1>4, <3>1 DEF ThreadsAreSeparate
  <2>2. \A t \in 1 .. n + 1 : t \in 1 .. n \/ (t = n + 1 /\ codexTurns'[t].thread = 0)
    BY <1>4, <1>6, <1>8
  <2>3. \A t \in 1 .. n + 1 : codexTurns'[t].thread = s'.thread /\ s'.thread # 0 => codexTurns'[t].grant = s'.bound
    BY ONLY <1>1, <1>8, <1>10, <2>1, <2>2
  <2>4. \A t, u \in 1 .. n + 1 :
           codexTurns'[t].thread = codexTurns'[u].thread /\ codexTurns'[t].thread # 0 => codexTurns'[t].grant = codexTurns'[u].grant
    BY ONLY <1>8, <2>1, <2>2
  <2> QED
    BY <1>2, <1>8, <1>10, <2>3, <2>4 DEF ThreadsAreSeparate
<1>17. Codex!RepliesAreOfAckedTurns'
  BY <1>4, <1>8, <1>11 DEF CodexInv, Codex!RepliesAreOfAckedTurns
<1>18. ReportsAreUnique'
  <2>1. \A u : Codex!Terminal(u)' = Codex!Terminal(u)
    BY <1>11 DEF Codex!Terminal
  <2>2. Codex!Terminal(n + 1) = {}
    BY <1>4 DEF Codex!Terminal
  <2>3. \A u \in 1 .. n : Reported(u)' = Reported(u)
    BY <1>8 DEF Reported
  <2>4. ~Reported(n + 1)'
    BY <1>6, <1>8 DEF Reported
  <2>5. ASSUME NEW u \in 1 .. n + 1
        PROVE  IF Reported(u)' THEN \E i \in DOMAIN events' : Codex!Terminal(u)' = {i} ELSE Codex!Terminal(u)' = {}
    <3>1. CASE u = n + 1
      BY <2>1, <2>2, <2>4, <3>1
    <3>2. CASE u \in 1 .. n
      BY <1>4, <1>11, <2>1, <2>3, <3>2 DEF CodexInv, ReportsAreUnique
    <3> QED
      BY <1>4, <3>1, <3>2
  <2> QED
    BY <1>8, <2>5 DEF ReportsAreUnique
<1>19. Len(codexTurns') = Len(codexTurns) + 1 /\ ThreadsKept
  BY <1>4, <1>6, <1>8 DEF ThreadsKept
<1> QED
  BY <1>12, <1>14, <1>15, <1>16, <1>17, <1>18, <1>19 DEF CodexInv

LEMMA CodexTurnStarted ==
  ASSUME SessionTypes, CodexInv, NEW t \in DOMAIN codexTurns, Codex!TurnStarted(t)
  PROVE  SessionTypes' /\ CodexInv' /\ ThreadsKept
<1> USE CodexFacts
<1>1. PICK T : T = CodexTurn
  OBVIOUS
<1>2. PICK x : x = codexTurns[t]
  OBVIOUS
<1>3. PICK y : y = [x EXCEPT !.life = "started", !.ack = IF x.ack = "pending" THEN "acked" ELSE x.ack]
  OBVIOUS
<1>4. x \in CodexTurn /\ x.life = "threaded" /\ x.ack = "pending"
  BY <1>2 DEF Codex!TurnStarted, CodexInv, LifeRules
<1>5. /\ y \in CodexTurn /\ y.grant = x.grant /\ y.kind = x.kind /\ y.thread = x.thread
      /\ y.life = "started" /\ y.ack = "acked"
  BY <1>3, <1>4 DEF CodexTurn
<1>6. codexTurns \in Seq(T) /\ codexTurns' = [codexTurns EXCEPT ![t] = y]
  BY <1>1, <1>2, <1>3 DEF SessionTypes, Codex!TurnStarted
<1>7. y \in T
  BY <1>1, <1>5
<1>8. /\ codexTurns' \in Seq(T) /\ DOMAIN codexTurns' = DOMAIN codexTurns /\ Len(codexTurns') = Len(codexTurns)
      /\ codexTurns'[t] = y /\ \A u \in DOMAIN codexTurns : u # t => codexTurns'[u] = codexTurns[u]
  BY ONLY <1>6, <1>7, t \in DOMAIN codexTurns
<1>9. t = s.active /\ \A u \in DOMAIN codexTurns : u # t => codexTurns[u].life = "over"
  BY <1>2, <1>4 DEF CodexInv, Codex!TurnIsOfTheBinding
<1>10. \A u \in DOMAIN codexTurns : codexTurns'[u].thread = codexTurns[u].thread /\ codexTurns'[u].grant = codexTurns[u].grant
  BY <1>2, <1>5, <1>8
<1>11. /\ s' \in CodexS /\ s'.state = "busy" /\ s'.bound = s.bound /\ s'.active = s.active
       /\ s'.thread = s.thread /\ db' = Codex!Row(s')
  BY DEF Codex!TurnStarted, CodexS
<1>12. /\ events' \in Seq(CodexEvent) /\ \A u : Codex!Terminal(u)' = Codex!Terminal(u)
       /\ DOMAIN events \subseteq DOMAIN events'
       /\ \A i \in DOMAIN events' : \/ i \in DOMAIN events /\ events'[i] = events[i]
                                    \/ events'[i].turn = t /\ events'[i].type = "turn_started"
  <2>1. CASE codexTurns[t].kind = "context"
    <3>1. events' = events
      BY <2>1 DEF Codex!TurnStarted, Codex!Report
    <3> QED
      BY <3>1 DEF SessionTypes, Codex!Terminal
  <2>2. CASE codexTurns[t].kind # "context"
    <3>1. events' = Append(events, [type |-> "turn_started", turn |-> t])
      BY <2>2 DEF Codex!TurnStarted, Codex!Report
    <3>2. /\ events' \in Seq(CodexEvent) /\ DOMAIN events' = 1 .. Len(events) + 1
          /\ \A i \in 1 .. Len(events) : events'[i] = events[i]
          /\ events'[Len(events) + 1] = [type |-> "turn_started", turn |-> t]
          /\ \A u : Codex!Terminal(u)' = Codex!Terminal(u)
      BY <3>1, EventAppended
    <3>3. \A i \in DOMAIN events' : i \in DOMAIN events \/ i = Len(events) + 1
      BY <3>2
    <3>4. events'[Len(events) + 1].turn = t /\ events'[Len(events) + 1].type = "turn_started"
      BY <3>2
    <3> QED
      BY <3>2, <3>3, <3>4
  <2> QED
    BY <2>1, <2>2
<1>13. \A i \in DOMAIN events' : events'[i].turn <= Len(codexTurns)
  BY <1>12
<1>14. SessionTypes'
  BY <1>1, <1>8, <1>11, <1>12, <1>13 DEF SessionTypes, Codex!Row
<1>15. Codex!TurnIsOfTheBinding'
  BY <1>5, <1>8, <1>9, <1>10, <1>11 DEF CodexInv, Codex!TurnIsOfTheBinding
<1>16. \A u \in DOMAIN codexTurns' : LifeRules(u)'
  BY <1>5, <1>8, <1>9, <1>11 DEF LifeRules, CodexInv
<1>17. ThreadsAreSeparate'
  BY <1>8, <1>10, <1>11 DEF CodexInv, ThreadsAreSeparate
<1>18. Codex!RepliesAreOfAckedTurns'
  BY <1>5, <1>8, <1>12 DEF CodexInv, Codex!RepliesAreOfAckedTurns
<1>19. ReportsAreUnique'
  <2>1. \A u \in DOMAIN codexTurns : Reported(u)' = Reported(u)
    BY <1>2, <1>4, <1>5, <1>8 DEF Reported
  <2> QED
    BY <1>8, <1>12, <2>1 DEF CodexInv, ReportsAreUnique
<1>20. ThreadsKept
  BY <1>8, <1>10 DEF ThreadsKept
<1> QED
  BY <1>14, <1>15, <1>16, <1>17, <1>18, <1>19, <1>20 DEF CodexInv

\* A new thread is nobody's.
LEMMA NewThreadIsNew ==
  ASSUME SessionTypes
  PROVE  /\ Codex!NewThread \in Positive /\ Codex!NewThread # s.thread
         /\ \A t \in DOMAIN codexTurns : codexTurns[t].thread # Codex!NewThread
<1> DEFINE ids == {codexTurns[t].thread : t \in 1 .. Len(codexTurns)}
<1>1. Len(codexTurns) \in Nat /\ DOMAIN codexTurns = 1 .. Len(codexTurns)
  BY CodexFacts
<1>2. IsFiniteSet(1 .. Len(codexTurns))
  BY <1>1, FS_Interval
<1>3. IsFiniteSet(ids)
  <2> DEFINE of == [t \in 1 .. Len(codexTurns) |-> codexTurns[t].thread]
  <2>1. of \in Surjection(1 .. Len(codexTurns), ids)
    BY DEF Surjection
  <2> QED
    BY <1>2, <2>1, FS_Surjection
<1>4. IsFiniteSet(ids \cup {db.thread} \cup {s.thread})
  BY <1>3, FS_AddElement
<1>5. Codex!Threads = ids \cup {db.thread} \cup {s.thread}
  BY <1>1 DEF Codex!Threads
<1>6. PICK used : used = Codex!Threads
  OBVIOUS
<1>7. IsFiniteSet(used) /\ Cardinality(used) \in Nat
  BY <1>4, <1>5, <1>6, FS_CardinalityType
<1>8. \E id \in 1 .. Cardinality(used) + 1 : id \notin used
  BY <1>7, Unused
<1>9. Codex!Cardinality(used) = Cardinality(used)
  BY DEF Codex!Cardinality, Cardinality
<1>10. Codex!NewThread = CHOOSE id \in 1 .. Cardinality(used) + 1 : id \notin used
  BY <1>6, <1>9 DEF Codex!NewThread
<1>11. Codex!NewThread \in 1 .. Cardinality(used) + 1 /\ Codex!NewThread \notin used
  BY <1>8, <1>10
<1>12. Codex!NewThread \in Positive
  BY <1>7, <1>11 DEF Positive
<1> HIDE DEF ids
<1>13. s.thread \in used
  BY <1>5, <1>6
<1>14. \A t \in DOMAIN codexTurns : codexTurns[t].thread \in used
  BY <1>1, <1>5, <1>6 DEF ids
<1> QED
  BY <1>11, <1>12, <1>13, <1>14

\* What is known of the thread of a turn that starts: it is new or was the session's.
Threading(t, id) ==
    /\ t \in DOMAIN codexTurns /\ id \in Positive
    /\ codexTurns[t].thread = 0 /\ codexTurns[t].grant = s.bound
    /\ \/ id = s.thread
       \/ \A u \in DOMAIN codexTurns : codexTurns[u].thread # id
    /\ DOMAIN codexTurns' = DOMAIN codexTurns /\ codexTurns'[t].thread = id
    /\ \A u \in DOMAIN codexTurns : /\ codexTurns'[u].grant = codexTurns[u].grant
                                    /\ u # t => codexTurns'[u].thread = codexTurns[u].thread

LEMMA CodexThreadStarted ==
  ASSUME SessionTypes, CodexInv, NEW t \in DOMAIN codexTurns, Codex!ThreadStarted(t)
  PROVE  SessionTypes' /\ CodexInv' /\ Len(codexTurns') = Len(codexTurns) /\ \E id : Threading(t, id)
<1> USE CodexFacts
<1>1. PICK T : T = CodexTurn
  OBVIOUS
<1>2. PICK x : x = codexTurns[t]
  OBVIOUS
<1>3. PICK id : id = IF x.from # 0 THEN x.from ELSE Codex!NewThread
  OBVIOUS
<1>4. PICK y : y = [x EXCEPT !.life = "threaded", !.thread = id]
  OBVIOUS
<1>5. x \in CodexTurn /\ x.life = "spawned" /\ x.ack = "pending" /\ x.from = s.thread /\ x.thread = 0
  BY <1>2 DEF Codex!ThreadStarted, CodexInv, LifeRules
<1>6. id \in Positive /\ (id = s.thread \/ \A u \in DOMAIN codexTurns : codexTurns[u].thread # id)
  BY <1>3, <1>5, NewThreadIsNew DEF Positive
<1>7. /\ y \in CodexTurn /\ y.grant = x.grant /\ y.kind = x.kind /\ y.thread = id
      /\ y.life = "threaded" /\ y.ack = "pending" /\ y.silent = x.silent
  BY <1>4, <1>5, <1>6 DEF CodexTurn, Positive
<1>8. codexTurns \in Seq(T) /\ codexTurns' = [codexTurns EXCEPT ![t] = y]
  BY <1>1, <1>2, <1>3, <1>4 DEF SessionTypes, Codex!ThreadStarted
<1>9. y \in T
  BY <1>1, <1>7
<1>10. /\ codexTurns' \in Seq(T) /\ DOMAIN codexTurns' = DOMAIN codexTurns /\ Len(codexTurns') = Len(codexTurns)
       /\ codexTurns'[t] = y /\ \A u \in DOMAIN codexTurns : u # t => codexTurns'[u] = codexTurns[u]
  BY ONLY <1>8, <1>9, t \in DOMAIN codexTurns
<1>11. t = s.active /\ x.grant = s.bound /\ \A u \in DOMAIN codexTurns : u # t => codexTurns[u].life = "over"
  BY <1>2, <1>5 DEF CodexInv, Codex!TurnIsOfTheBinding
<1>12. s' \in CodexS /\ s'.state = s.state /\ s'.bound = s.bound /\ s'.active = s.active /\ s'.thread = id
  <2>1. s' = [s EXCEPT !.thread = id]
    BY <1>2, <1>3 DEF Codex!ThreadStarted
  <2> QED
    BY <1>6, <2>1 DEF CodexS, Positive
<1>13. db' = Codex!Row(s') /\ events' = events
  BY DEF Codex!ThreadStarted
<1>14. SessionTypes'
  <2>1. \A i \in DOMAIN events' : events'[i].turn <= Len(codexTurns)
    BY <1>13
  <2>2. events' \in Seq(CodexEvent)
    BY <1>13 DEF SessionTypes
  <2> QED
    BY <1>1, <1>10, <1>12, <1>13, <2>1, <2>2 DEF SessionTypes, Codex!Row
<1>15. Threading(t, id)
  BY <1>2, <1>5, <1>6, <1>7, <1>10, <1>11 DEF Threading
<1>16. Codex!TurnIsOfTheBinding'
  BY <1>2, <1>7, <1>10, <1>11, <1>12 DEF CodexInv, Codex!TurnIsOfTheBinding
<1>17. \A u \in DOMAIN codexTurns' : LifeRules(u)'
  BY <1>7, <1>10, <1>11 DEF LifeRules, CodexInv
<1>18. ThreadsAreSeparate'
  <2>1. ThreadsAreSeparate
    BY DEF CodexInv
  <2>2. s.bound # None
    BY <1>2, <1>5, <1>11, AdaptersAssumption DEF AdaptersAssumption
  <2>3. \A u \in DOMAIN codexTurns : codexTurns[u].thread = id => codexTurns[u].grant = s.bound
    BY <1>6, <2>1 DEF ThreadsAreSeparate, Positive
  <2>4. \A u \in DOMAIN codexTurns : codexTurns'[u].thread = id => codexTurns'[u].grant = s.bound
    BY ONLY <1>15, <2>3 DEF Threading
  <2>5. \A u, w \in DOMAIN codexTurns :
           codexTurns'[u].thread = codexTurns'[w].thread /\ codexTurns'[u].thread # 0 => codexTurns'[u].grant = codexTurns'[w].grant
    <3>1. ASSUME NEW u \in DOMAIN codexTurns, NEW w \in DOMAIN codexTurns, u # t, w # t,
                 codexTurns'[u].thread = codexTurns'[w].thread, codexTurns'[u].thread # 0
          PROVE  codexTurns'[u].grant = codexTurns'[w].grant
      BY ONLY <1>15, <2>1, <3>1 DEF Threading, ThreadsAreSeparate
    <3>2. codexTurns'[t].thread = id
      BY <1>7, <1>10
    <3> QED
      BY ONLY <2>4, <3>1, <3>2
  <2> QED
    BY <1>10, <1>12, <2>2, <2>4, <2>5 DEF ThreadsAreSeparate
<1>19. Codex!RepliesAreOfAckedTurns'
  BY <1>2, <1>5, <1>10, <1>13 DEF CodexInv, Codex!RepliesAreOfAckedTurns
<1>20. ReportsAreUnique'
  <2>1. \A u \in DOMAIN codexTurns : Reported(u)' = Reported(u)
    BY <1>2, <1>5, <1>7, <1>10 DEF Reported
  <2>2. \A u : Codex!Terminal(u)' = Codex!Terminal(u)
    BY <1>13 DEF Codex!Terminal
  <2> QED
    BY <1>10, <1>13, <2>1, <2>2 DEF CodexInv, ReportsAreUnique
<1> QED
  BY <1>10, <1>14, <1>15, <1>16, <1>17, <1>18, <1>19, <1>20 DEF CodexInv

LEMMA CodexInitHolds ==
  ASSUME Codex!Init, events = <<>>
  PROVE  CodexTypes /\ CodexInv
<1>1. PICK row \in Codex!Rows :
        /\ s = Codex!Loaded(row) /\ db = Codex!Row(Codex!Loaded(row))
        /\ chk \in {None, row.bound}
        /\ codexTurns = IF row.thread # 0 /\ row.bound # None
                        THEN <<[grant |-> row.bound, kind |-> "chat", thread |-> 1, from |-> 0,
                                ack |-> "acked", life |-> "over", silent |-> TRUE]>>
                        ELSE <<>>
  BY DEF Codex!Init
<1>2. row.bound \in Grants \cup {None} /\ row.thread \in {0, 1}
  BY DEF Codex!Rows, Codex!Row, Codex!Unbound
<1>3. PICK w : w = IF FullAgent \/ row.bound = None THEN 0 ELSE row.thread
  OBVIOUS
<1>4. s = [Codex!Unbound EXCEPT !.bound = row.bound, !.thread = w]
  BY <1>1, <1>3 DEF Codex!Loaded
<1>5. w \in {0, row.thread} /\ (row.bound = None => w = 0)
  BY <1>3
<1>6. s \in CodexS /\ s.active = 0 /\ s.state = "idle" /\ s.thread = w /\ s.bound = row.bound
  <2>1. PICK b : b = row.bound
    OBVIOUS
  <2>2. s = [Codex!Unbound EXCEPT !.bound = b, !.thread = w] /\ b \in Grants \cup {None} /\ w \in Nat
    BY <1>2, <1>4, <1>5, <2>1
  <2>3. s \in CodexS /\ s.active = 0 /\ s.state = "idle" /\ s.thread = w /\ s.bound = b
    BY ONLY <2>2 DEF Codex!Unbound, CodexS
  <2> QED
    BY <2>1, <2>3
<1>7. db = Codex!Row(s) /\ resumed = 0 /\ resuming = FALSE /\ policy \in Codex!Accesses
  BY <1>1 DEF Codex!Init
<1>8. chk \in Grants \cup {None}
  BY <1>1, <1>2
<1>9. events \in Seq(CodexEvent) /\ DOMAIN events = {}
  <2>1. PICK E : E = CodexEvent
    OBVIOUS
  <2>2. events \in Seq(E) /\ DOMAIN events = {}
    BY ONLY events = <<>>
  <2> QED
    BY <2>1, <2>2
<1>10. \A u : Codex!Terminal(u) = {}
  BY <1>9 DEF Codex!Terminal
<1>11. PICK T : T = CodexTurn
  OBVIOUS
<1>12. CASE row.thread # 0 /\ row.bound # None
  <2>1. PICK x : x = [grant |-> row.bound, kind |-> "chat", thread |-> 1, from |-> 0,
                      ack |-> "acked", life |-> "over", silent |-> TRUE]
    OBVIOUS
  <2>2. /\ x \in CodexTurn /\ x.grant = row.bound /\ x.thread = 1 /\ x.life = "over" /\ x.silent /\ x.ack = "acked"
    BY <1>2, <1>12, <2>1 DEF CodexTurn, Codex!Kinds
  <2>3. codexTurns = <<x>> /\ x \in T
    BY <1>1, <1>11, <1>12, <2>1, <2>2
  <2>4. codexTurns \in Seq(T) /\ DOMAIN codexTurns = {1} /\ codexTurns[1] = x /\ Len(codexTurns) = 1
    BY ONLY <2>3
  <2>5. SessionTypes
    BY <1>6, <1>7, <1>9, <1>11, <2>4 DEF SessionTypes
  <2>6. Codex!TurnIsOfTheBinding /\ Codex!RepliesAreOfAckedTurns
    BY <1>6, <1>9, <2>2, <2>4 DEF Codex!TurnIsOfTheBinding, Codex!RepliesAreOfAckedTurns
  <2>7. \A t \in DOMAIN codexTurns : LifeRules(t)
    BY <2>2, <2>4 DEF LifeRules
  <2>8. ThreadsAreSeparate
    BY <1>6, <1>5, <2>2, <2>4 DEF ThreadsAreSeparate
  <2>9. ReportsAreUnique
    BY <1>10, <2>2, <2>4 DEF ReportsAreUnique, Reported
  <2>10. Continuations
    <3>1. resuming \in BOOLEAN /\ ~resuming
      BY ONLY <1>7, Zenon
    <3>2. policy \in Codex!Accesses /\ chk \in Grants \cup {None} /\ resumed \in 0 .. Len(codexTurns) /\ resumed = 0
      BY ONLY <1>7, <1>8, <2>4
    <3> QED
      BY ONLY <3>1, <3>2 DEF Continuations
  <2> QED
    BY <2>5, <2>6, <2>7, <2>8, <2>9, <2>10 DEF CodexTypes, CodexInv
<1>13. CASE ~(row.thread # 0 /\ row.bound # None)
  <2>1. codexTurns = <<>>
    BY <1>1, <1>13
  <2>2. codexTurns \in Seq(T) /\ DOMAIN codexTurns = {} /\ Len(codexTurns) = 0
    BY ONLY <2>1
  <2>3. SessionTypes
    BY <1>6, <1>7, <1>9, <1>11, <2>2 DEF SessionTypes
  <2>4. Codex!TurnIsOfTheBinding /\ Codex!RepliesAreOfAckedTurns
    BY <1>6, <1>9, <2>2 DEF Codex!TurnIsOfTheBinding, Codex!RepliesAreOfAckedTurns
  <2>5. \A t \in DOMAIN codexTurns : LifeRules(t)
    BY <2>2
  <2>6. ThreadsAreSeparate
    BY <1>6, <1>5, <1>13, <2>2 DEF ThreadsAreSeparate
  <2>7. ReportsAreUnique
    BY <2>2 DEF ReportsAreUnique
  <2>8. Continuations
    <3>1. resuming \in BOOLEAN /\ ~resuming
      BY ONLY <1>7, Zenon
    <3>2. policy \in Codex!Accesses /\ chk \in Grants \cup {None} /\ resumed \in 0 .. Len(codexTurns) /\ resumed = 0
      BY ONLY <1>7, <1>8, <2>2
    <3> QED
      BY ONLY <3>1, <3>2 DEF Continuations
  <2> QED
    BY <2>3, <2>4, <2>5, <2>6, <2>7, <2>8 DEF CodexTypes, CodexInv
<1> QED
  BY <1>12, <1>13

LEMMA CodexUntouched ==
  ASSUME SessionTypes, CodexInv, UNCHANGED <<s, db, codexTurns, events>>
  PROVE  SessionTypes' /\ CodexInv' /\ ThreadsKept
<1>1. SessionTypes'
  BY DEF SessionTypes, Codex!Row
<1>2. Codex!TurnIsOfTheBinding' /\ Codex!RepliesAreOfAckedTurns'
  BY DEF CodexInv, Codex!TurnIsOfTheBinding, Codex!RepliesAreOfAckedTurns
<1>3. \A t \in DOMAIN codexTurns' : LifeRules(t)'
  BY DEF CodexInv, LifeRules
<1>4. ThreadsAreSeparate'
  BY DEF CodexInv, ThreadsAreSeparate
<1>5. ReportsAreUnique'
  <2>1. \A u : Codex!Terminal(u)' = Codex!Terminal(u) /\ Reported(u)' = Reported(u)
    BY DEF Codex!Terminal, Reported
  <2> QED
    BY <2>1 DEF CodexInv, ReportsAreUnique
<1>6. ThreadsKept
  BY CodexFacts DEF ThreadsKept
<1> QED
  BY <1>1, <1>2, <1>3, <1>4, <1>5, <1>6 DEF CodexInv

\* A step that gives a checkpoint up, or leaves it, keeps the types of the continuations.
LEMMA SettlesKeeps ==
  ASSUME CodexTypes, Len(codexTurns') \in Nat, Len(codexTurns) <= Len(codexTurns'), NEW t, Codex!Settles(t),
         ~resuming, resuming' = resuming, policy' \in Codex!Accesses
  PROVE  Continuations'
<1>1. Len(codexTurns) \in Nat
  BY CodexFacts DEF CodexTypes
<1> QED
  BY <1>1 DEF CodexTypes, Continuations, Codex!Settles

\* A step that settles the checkpoint of t, if it is the one it resumed.
LEMMA SettlingStep ==
  ASSUME CodexTypes, SessionTypes', CodexInv', ThreadsKept, NEW t, Codex!Settles(t),
         ~resuming, resuming' = resuming, policy' \in Codex!Accesses
  PROVE  CodexTypes' /\ CodexInv' /\ ThreadsKept
<1>1. Len(codexTurns') \in Nat
  <2>1. PICK T : T = CodexTurn
    OBVIOUS
  <2>2. codexTurns' \in Seq(T)
    BY <2>1 DEF SessionTypes
  <2> QED
    BY <2>2
<1> QED
  BY <1>1, SettlesKeeps DEF CodexTypes, ThreadsKept

LEMMA CodexNextKeeps ==
  ASSUME CodexTypes, CodexInv, Codex!Next
  PROVE  CodexTypes' /\ CodexInv' /\ (ThreadsKept \/ \E t, id : Threading(t, id))
<1> DEFINE Goal == CodexTypes' /\ CodexInv' /\ (ThreadsKept \/ \E t, id : Threading(t, id))
<1>1. SessionTypes /\ Continuations /\ policy \in Codex!Accesses
  BY DEF CodexTypes, Continuations
<1>2. Len(codexTurns) \in Nat
  BY <1>1, CodexFacts
<1>3. ASSUME NEW g \in Grants, NEW kind \in Codex!Kinds, Codex!Deliver(g, kind)  PROVE Goal
  <2>1. SessionTypes' /\ CodexInv' /\ ThreadsKept /\ Len(codexTurns') = Len(codexTurns) + 1
    BY <1>1, <1>3, CodexDeliver
  <2>2. /\ chk' = chk /\ policy' = policy /\ ~resuming' /\ resuming' \in BOOLEAN
        /\ resumed' = IF resuming THEN Len(codexTurns) + 1 ELSE resumed
    BY <1>3, <2>1 DEF Codex!Deliver
  <2>3. Continuations'
    BY <1>1, <1>2, <2>1, <2>2 DEF Continuations
  <2> QED
    BY <2>1, <2>3 DEF CodexTypes
<1>4. ASSUME NEW g \in Grants, NEW kind \in Codex!Kinds, Codex!DeliverRefused(g, kind)  PROVE Goal
  <2>1. SessionTypes' /\ CodexInv' /\ ThreadsKept
    BY <1>1, <1>4, CodexDeliverRefused
  <2>2. UNCHANGED <<codexTurns, policy, chk, resuming, resumed>>
    BY <1>4 DEF Codex!DeliverRefused, Codex!continuation
  <2>3. Continuations'
    BY <1>1, <2>2 DEF Continuations
  <2> QED
    BY <2>1, <2>3 DEF CodexTypes
<1>5. ASSUME Codex!ResumeRefused  PROVE Goal
  <2>1. SessionTypes' /\ CodexInv' /\ ThreadsKept
    BY <1>1, <1>5, CodexUntouched DEF Codex!ResumeRefused
  <2>2. /\ resuming /\ chk' = None /\ ~resuming' /\ resuming' \in BOOLEAN
        /\ UNCHANGED <<codexTurns, policy, resumed>>
    BY <1>5 DEF Codex!ResumeRefused
  <2>3. Continuations'
    BY <1>1, <2>2 DEF Continuations
  <2> QED
    BY <2>1, <2>3 DEF CodexTypes
<1>6. ASSUME ~resuming, NEW t \in DOMAIN codexTurns, Codex!AckTimeout(t)  PROVE Goal
  <2>1. SessionTypes' /\ CodexInv' /\ ThreadsKept
    BY <1>1, <1>6, CodexAckTimeout
  <2>2. Codex!Settles(t) /\ resuming' = resuming /\ policy' = policy
    BY <1>6 DEF Codex!AckTimeout
  <2> QED
    BY <1>1, <1>6, <2>1, <2>2, SettlingStep
<1>7. ASSUME ~resuming, NEW t \in DOMAIN codexTurns, Codex!TurnFails(t)  PROVE Goal
  <2>1. SessionTypes' /\ CodexInv' /\ ThreadsKept
    BY <1>1, <1>7, CodexTurnFails
  <2>2. Codex!Settles(t) /\ resuming' = resuming /\ policy' = policy
    BY <1>7 DEF Codex!TurnFails
  <2> QED
    BY <1>1, <1>7, <2>1, <2>2, SettlingStep
<1>8. ASSUME ~resuming, NEW t \in DOMAIN codexTurns, NEW text \in BOOLEAN, Codex!TurnCompleted(t, text)  PROVE Goal
  <2>1. SessionTypes' /\ CodexInv' /\ ThreadsKept
    BY <1>1, <1>8, CodexTurnCompleted
  <2>2. Codex!Settles(t) /\ resuming' = resuming /\ policy' = policy
    BY <1>8 DEF Codex!TurnCompleted
  <2> QED
    BY <1>1, <1>8, <2>1, <2>2, SettlingStep
<1>9. ASSUME ~resuming, Codex!Reset, policy' \in Codex!Accesses  PROVE Goal
  <2>1. SessionTypes' /\ CodexInv' /\ ThreadsKept
    BY <1>1, <1>9, CodexReset
  <2>2. Codex!Settles(s.active) /\ resuming' = resuming
    BY <1>9 DEF Codex!Reset
  <2> QED
    BY <1>9, <2>1, <2>2, SettlingStep
<1>10. ASSUME ~resuming, NEW g \in Grants, Codex!Release(g) \/ Codex!Prepare(g)  PROVE Goal
  <2>1. Codex!Reset /\ policy' = policy
    BY <1>10 DEF Codex!Release, Codex!Prepare
  <2> QED
    BY <1>1, <1>9, <1>10, <2>1
<1>11. ASSUME ~resuming, NEW access \in Codex!Accesses, NEW invalidates \in BOOLEAN, Codex!PolicyUpdate(access, invalidates)
       PROVE  Goal
  <2>1. policy' \in Codex!Accesses
    BY <1>11 DEF Codex!PolicyUpdate
  <2>2. CASE invalidates /\ s.sender
    BY <1>9, <1>11, <2>1, <2>2 DEF Codex!PolicyUpdate
  <2>3. CASE ~(invalidates /\ s.sender)
    <3>1. UNCHANGED <<s, db, codexTurns, events, chk, resuming, resumed>>
      BY <1>11, <2>3 DEF Codex!PolicyUpdate, Codex!continuation
    <3>2. SessionTypes' /\ CodexInv' /\ ThreadsKept
      BY <1>1, <3>1, CodexUntouched
    <3>3. Continuations'
      BY <1>1, <2>1, <3>1 DEF Continuations
    <3> QED
      BY <3>2, <3>3 DEF CodexTypes
  <2> QED
    BY <2>2, <2>3
<1>12. ASSUME ~resuming, NEW g \in Grants, Codex!Rebuild(g)  PROVE Goal
  <2>1. SessionTypes' /\ CodexInv' /\ ThreadsKept
    BY <1>1, <1>12, CodexRebuild
  <2>2. Len(codexTurns') \in Nat /\ Len(codexTurns) <= Len(codexTurns')
    <3>1. PICK T : T = CodexTurn
      OBVIOUS
    <3>2. codexTurns' \in Seq(T)
      BY <2>1, <3>1 DEF SessionTypes
    <3> QED
      BY <2>1, <3>2 DEF ThreadsKept
  <2>3. chk = None /\ resumed' = resumed /\ policy' = policy
    BY <1>12 DEF Codex!Rebuild
  <2>4. \/ chk' = g /\ resuming' = TRUE
        \/ chk' = chk /\ resuming' = resuming
    BY <1>12 DEF Codex!Rebuild
  <2>5. Continuations'
    <3>1. resumed = 0 /\ g # None
      BY <1>1, <2>3, AdaptersAssumption DEF Continuations, AdaptersAssumption
    <3>2. CASE chk' = g /\ resuming' = TRUE
      <4>1. resuming' \in BOOLEAN
        BY <3>2
      <4> QED
        BY <1>1, <2>2, <2>3, <3>1, <3>2, <4>1 DEF Continuations
    <3>3. CASE chk' = chk /\ resuming' = resuming
      BY <1>1, <1>12, <2>2, <2>3, <3>1, <3>3 DEF Continuations
    <3> QED
      BY <2>4, <3>2, <3>3
  <2> QED
    BY <2>1, <2>5 DEF CodexTypes
<1>13. ASSUME Codex!Recover  PROVE Goal
  <2>1. SessionTypes' /\ CodexInv' /\ ThreadsKept
    BY <1>1, <1>13, CodexUntouched DEF Codex!Recover
  <2>2. chk # None /\ resumed = 0 /\ resuming' = TRUE /\ UNCHANGED <<codexTurns, policy, chk, resumed>>
    BY <1>13 DEF Codex!Recover
  <2>3. Continuations'
    BY <1>1, <2>2 DEF Continuations
  <2> QED
    BY <2>1, <2>3 DEF CodexTypes
<1>14. ASSUME Codex!Restart  PROVE Goal
  <2>1. SessionTypes' /\ CodexInv' /\ ThreadsKept
    BY <1>1, <1>14, CodexRestart
  <2>2. Len(codexTurns') \in Nat
    <3>1. PICK T : T = CodexTurn
      OBVIOUS
    <3>2. codexTurns' \in Seq(T)
      BY <2>1, <3>1 DEF SessionTypes
    <3> QED
      BY <3>2
  <2>3. ~resuming' /\ resuming' \in BOOLEAN /\ resumed' = 0 /\ policy' = policy /\ chk' = chk
    BY <1>14 DEF Codex!Restart
  <2>4. Continuations'
    BY <1>1, <2>2, <2>3 DEF Continuations
  <2> QED
    BY <2>1, <2>4 DEF CodexTypes
<1>15. ASSUME ~resuming, NEW t \in DOMAIN codexTurns, Codex!ThreadStarted(t)  PROVE Goal
  <2>1. SessionTypes' /\ CodexInv' /\ Len(codexTurns') = Len(codexTurns) /\ \E id : Threading(t, id)
    BY <1>1, <1>15, CodexThreadStarted
  <2>2. UNCHANGED <<policy, chk, resuming, resumed>>
    BY <1>15 DEF Codex!ThreadStarted, Codex!continuation
  <2>3. Continuations'
    BY <1>1, <2>1, <2>2 DEF Continuations
  <2> QED
    BY <2>1, <2>3 DEF CodexTypes
<1>16. ASSUME ~resuming, NEW t \in DOMAIN codexTurns, Codex!TurnStarted(t)  PROVE Goal
  <2>1. SessionTypes' /\ CodexInv' /\ ThreadsKept
    BY <1>1, <1>16, CodexTurnStarted
  <2>2. UNCHANGED <<policy, chk, resuming, resumed>>
    BY <1>16 DEF Codex!TurnStarted, Codex!continuation
  <2>3. Len(codexTurns') \in Nat /\ Len(codexTurns) <= Len(codexTurns')
    <3>1. PICK T : T = CodexTurn
      OBVIOUS
    <3>2. codexTurns' \in Seq(T)
      BY <2>1, <3>1 DEF SessionTypes
    <3> QED
      BY <2>1, <3>2 DEF ThreadsKept
  <2>4. Continuations'
    BY <1>1, <1>2, <2>2, <2>3 DEF Continuations
  <2> QED
    BY <2>1, <2>4 DEF CodexTypes
<1> HIDE DEF Goal
<1>17. ASSUME Codex!Deliveries  PROVE Goal
  <2>1. PICK g \in Grants, kind \in Codex!Kinds : Codex!Deliver(g, kind) \/ Codex!DeliverRefused(g, kind)
    BY <1>17, Zenon DEF Codex!Deliveries
  <2>2. CASE Codex!Deliver(g, kind)
    BY <1>3, <2>2
  <2>3. CASE Codex!DeliverRefused(g, kind)
    BY <1>4, <2>3
  <2> QED
    BY <2>1, <2>2, <2>3
<1>18. ASSUME ~resuming, NEW t \in DOMAIN codexTurns,
              Codex!AckTimeout(t) \/ Codex!ThreadStarted(t) \/ Codex!TurnStarted(t) \/ Codex!TurnFails(t)
       PROVE  Goal
  BY <1>6, <1>7, <1>15, <1>16, <1>18
<1>19. ASSUME ~resuming, NEW g \in Grants, Codex!Release(g) \/ Codex!Prepare(g) \/ Codex!Rebuild(g)  PROVE Goal
  BY <1>10, <1>12, <1>19
<1>20. \/ Codex!Deliveries
       \/ Codex!ResumeRefused
       \/ /\ ~resuming
          /\ \/ \E t \in DOMAIN codexTurns :
                    Codex!AckTimeout(t) \/ Codex!ThreadStarted(t) \/ Codex!TurnStarted(t) \/ Codex!TurnFails(t)
             \/ \E t \in DOMAIN codexTurns, text \in BOOLEAN : Codex!TurnCompleted(t, text)
             \/ \E g \in Grants : Codex!Release(g) \/ Codex!Prepare(g) \/ Codex!Rebuild(g)
             \/ \E access \in Codex!Accesses, invalidates \in BOOLEAN : Codex!PolicyUpdate(access, invalidates)
             \/ Codex!Recover \/ Codex!Restart
  BY Zenon DEF Codex!Next
<1>21. Goal
  BY <1>5, <1>8, <1>11, <1>13, <1>14, <1>17, <1>18, <1>19, <1>20, Zenon
<1> QED
  BY <1>21 DEF Goal

-----------------------------------------------------------------------------
(* Codex: what the invariant gives.                                         *)

LEMMA CodexHolds ==
  ASSUME CodexTypes, CodexInv
  PROVE  /\ Codex!TypeOK /\ Codex!TurnIsOfTheBinding /\ Codex!RepliesAreOfAckedTurns
         /\ Codex!TurnsAreReportedOnce
<1>1. SessionTypes /\ Continuations
  BY DEF CodexTypes
<1>2. Codex!TypeOK
  BY <1>1, CodexFacts DEF SessionTypes, Continuations, Codex!TypeOK
<1>3. \A c : Codex!Cardinality(c) = Cardinality(c)
  BY DEF Codex!Cardinality, Cardinality
<1>4. ASSUME NEW t \in DOMAIN codexTurns
      PROVE  Codex!Cardinality(Codex!Terminal(t)) = IF Reported(t) THEN 1 ELSE 0
  <2>1. CASE Reported(t)
    <3>1. PICK i : Codex!Terminal(t) = {i}
      BY <2>1 DEF CodexInv, ReportsAreUnique
    <3> QED
      BY <1>3, <2>1, <3>1, FS_Singleton
  <2>2. CASE ~Reported(t)
    <3>1. Codex!Terminal(t) = {}
      BY <2>2 DEF CodexInv, ReportsAreUnique
    <3> QED
      BY <1>3, <2>2, <3>1, FS_EmptySet
  <2> QED
    BY <2>1, <2>2
<1>5. Codex!TurnsAreReportedOnce
  BY <1>4 DEF Codex!TurnsAreReportedOnce, Reported
<1> QED
  BY <1>2, <1>5 DEF CodexInv

\* What the thread id has been given.
ThreadOf(inputs, id) == {h \in Grants : \E t \in DOMAIN inputs : inputs[t].thread = id /\ inputs[t].grant = h}

LEMMA FedIsThreadOf ==
  ASSUME SessionTypes
  PROVE  \A id : Codex!Fed(id) = ThreadOf(codexTurns, id)
BY CodexFacts DEF Codex!Fed, ThreadOf

LEMMA ThreadsChange ==
  ASSUME SessionTypes, ThreadsAreSeparate, ThreadsKept \/ \E t, id : Threading(t, id)
  PROVE  \/ \A id \in Positive : ThreadOf(codexTurns', id) = ThreadOf(codexTurns, id)
         \/ \E g \in Grants, at \in Positive :
               /\ \A id \in Positive : id # at => ThreadOf(codexTurns', id) = ThreadOf(codexTurns, id)
               /\ ThreadOf(codexTurns, at) = {} /\ ThreadOf(codexTurns', at) = {g}
<1> USE CodexFacts
<1>1. ASSUME ThreadsKept, NEW id \in Positive  PROVE ThreadOf(codexTurns', id) = ThreadOf(codexTurns, id)
  <2>1. id # 0
    BY DEF Positive
  <2> QED
    BY ONLY <1>1, <2>1 DEF ThreadsKept, ThreadOf
<1>2. ASSUME NEW t, NEW at, Threading(t, at)
      PROVE  \/ \A id \in Positive : ThreadOf(codexTurns', id) = ThreadOf(codexTurns, id)
             \/ \E g \in Grants :
                   /\ \A id \in Positive : id # at => ThreadOf(codexTurns', id) = ThreadOf(codexTurns, id)
                   /\ ThreadOf(codexTurns, at) = {} /\ ThreadOf(codexTurns', at) = {g}
  <2>1. ASSUME NEW id \in Positive, id # at  PROVE ThreadOf(codexTurns', id) = ThreadOf(codexTurns, id)
    <3>1. /\ DOMAIN codexTurns' = DOMAIN codexTurns
          /\ \A u \in DOMAIN codexTurns : /\ codexTurns'[u].grant = codexTurns[u].grant
                                          /\ codexTurns'[u].thread = id <=> codexTurns[u].thread = id
      BY <1>2, <2>1 DEF Threading, Positive
    <3> QED
      BY ONLY <3>1 DEF ThreadOf
  <2>2. PICK g \in Grants : g = codexTurns[t].grant
    BY <1>2 DEF Threading
  <2>3. /\ DOMAIN codexTurns' = DOMAIN codexTurns /\ t \in DOMAIN codexTurns
        /\ \A u \in DOMAIN codexTurns : codexTurns'[u].grant = codexTurns[u].grant
        /\ \A u \in DOMAIN codexTurns : codexTurns'[u].thread = at <=> u = t \/ codexTurns[u].thread = at
    BY <1>2 DEF Threading
  <2>4. \A u \in DOMAIN codexTurns : codexTurns[u].thread = at => codexTurns[u].grant = g
    BY <1>2, <2>2 DEF Threading, ThreadsAreSeparate, Positive
  <2>5. ThreadOf(codexTurns', at) = {g}
    BY ONLY <2>2, <2>3, <2>4 DEF ThreadOf
  <2>6. ThreadOf(codexTurns, at) \subseteq {g}
    BY ONLY <2>4 DEF ThreadOf
  <2>7. CASE ThreadOf(codexTurns, at) = {}
    BY <2>1, <2>5, <2>7
  <2>8. CASE ThreadOf(codexTurns, at) # {}
    <3>1. ThreadOf(codexTurns, at) = {g}
      BY <2>6, <2>8
    <3> QED
      BY <2>1, <2>5, <3>1
  <2> QED
    BY <2>7, <2>8
<1>3. ASSUME NEW t, NEW at, Threading(t, at)
      PROVE  \/ \A id \in Positive : ThreadOf(codexTurns', id) = ThreadOf(codexTurns, id)
             \/ \E g \in Grants, to \in Positive :
                   /\ \A id \in Positive : id # to => ThreadOf(codexTurns', id) = ThreadOf(codexTurns, id)
                   /\ ThreadOf(codexTurns, to) = {} /\ ThreadOf(codexTurns', to) = {g}
  <2>1. at \in Positive
    BY <1>3 DEF Threading
  <2> QED
    BY <1>2, <1>3, <2>1
<1> QED
  BY <1>1, <1>3

-----------------------------------------------------------------------------
(* Both adapters.                                                           *)

AdaptersInv ==
    /\ part \in {"claude", "codex"}
    /\ part = "claude" => ClaudeTypes /\ ClaudeInv /\ AnswersAreKnown /\ codexTurns = <<>> /\ events = <<>>
    /\ part = "codex" => CodexTypes /\ CodexInv /\ NoClaude

LEMMA AdaptersInit == Init => AdaptersInv
<1> SUFFICES ASSUME Init  PROVE AdaptersInv
  OBVIOUS
<1>1. CASE part = "claude" /\ Claude!Init /\ NoCodex
  <2>1. answers = {}
    BY <1>1 DEF Claude!Init
  <2> QED
    BY <1>1, <2>1, ClaudeInitHolds DEF AdaptersInv, NoCodex, AnswersAreKnown
<1>2. CASE part = "codex" /\ Codex!Init /\ NoClaude
  <2>1. events = <<>>
    BY <1>2 DEF Codex!Init
  <2> QED
    BY <1>2, <2>1, CodexInitHolds DEF AdaptersInv
<1> QED
  BY <1>1, <1>2 DEF Init

LEMMA ClaudeStays ==
  ASSUME ClaudeTypes, ClaudeInv, AnswersAreKnown, UNCHANGED <<s, db, call, loop, procs, turns, policy, answers>>
  PROVE  ClaudeTypes' /\ ClaudeInv' /\ AnswersAreKnown'
<1>1. policy' \in Boundaries
  BY DEF ClaudeTypes
<1>2. AnswersAreKnown'
  BY DEF AnswersAreKnown
<1> QED
  BY <1>1, <1>2, UntouchedKeeps

LEMMA AdaptersNext ==
  ASSUME ~Overlap, AdaptersInv, [Next]_vars
  PROVE  AdaptersInv'
<1>1. CASE part = "claude" /\ Claude!Next /\ UNCHANGED codexOnly /\ UNCHANGED part
  BY <1>1, ClaudeNextKeeps, AnswersStayTrue DEF AdaptersInv, codexOnly
<1>2. CASE part = "codex" /\ Codex!Next /\ UNCHANGED claudeOnly /\ UNCHANGED part
  <2>1. NoClaude'
    BY <1>2 DEF AdaptersInv, NoClaude, claudeOnly
  <2> QED
    BY <1>2, <2>1, CodexNextKeeps DEF AdaptersInv
<1>3. CASE UNCHANGED vars
  <2>1. UNCHANGED <<part, s, db, policy, chk, resumed, call, loop, procs, turns, answers, codexTurns, events, resuming>>
    BY <1>3 DEF vars, claudeOnly, codexOnly
  <2>2. CASE part = "claude"
    BY <2>1, <2>2, ClaudeStays DEF AdaptersInv
  <2>3. CASE part = "codex"
    <3>1. SessionTypes' /\ CodexInv'
      BY <2>1, <2>3, CodexUntouched DEF AdaptersInv, CodexTypes
    <3>2. Continuations'
      BY <2>1, <2>3 DEF AdaptersInv, CodexTypes, Continuations
    <3>3. NoClaude'
      BY <1>3, <2>3 DEF AdaptersInv, NoClaude, vars, claudeOnly
    <3> QED
      BY <2>1, <2>3, <3>1, <3>2, <3>3 DEF AdaptersInv, CodexTypes
  <2> QED
    BY <2>2, <2>3 DEF AdaptersInv
<1> QED
  BY <1>1, <1>2, <1>3 DEF Next

LEMMA AdaptersInvariant == ASSUME ~Overlap PROVE Spec => []AdaptersInv
<1>1. AdaptersInv /\ [Next]_vars => AdaptersInv'
  BY AdaptersNext
<1> QED
  BY <1>1, AdaptersInit, PTL DEF Spec

LEMMA ClaudeHolds ==
  ASSUME ClaudeTypes
  PROVE  Claude!TypeOK
<1>1. s.state \in Claude!States /\ db.state = s.state /\ s.sandbox \in Boundaries \cup {None}
  BY DEF ClaudeTypes, ClaudeS, Claude!Row
<1>2. \A t \in s.pending : t \in DOMAIN turns
  BY ClaudeFacts DEF ClaudeTypes, Positive
<1>3. \A c \in Claude!Callers : call[c].on \in 0 .. Len(procs) /\ call[c].turn \in 0 .. Len(turns)
  BY ClaudeFacts DEF ClaudeTypes, CallShape
<1> QED
  BY <1>1, <1>2, <1>3, ClaudeFacts DEF Claude!TypeOK

\* The rows and the callers of the Claude adapter, and the session, its row and the turns of the
\* Codex adapter, have the shapes the code gives them.
THEOREM AdapterTypes == ASSUME ~Overlap PROVE Spec => []TypeOK
<1>1. AdaptersInv => TypeOK
  <2> SUFFICES ASSUME AdaptersInv  PROVE TypeOK
    OBVIOUS
  <2>1. part = "claude" => Claude!TypeOK
    BY ClaudeHolds DEF AdaptersInv
  <2>2. part = "codex" => Codex!TypeOK
    BY CodexHolds DEF AdaptersInv
  <2> QED
    BY <2>1, <2>2 DEF TypeOK
<1> QED
  BY <1>1, AdaptersInvariant, PTL

\* No answer is taken for that of a turn of another grant.  The turn in flight of the Codex
\* adapter is of the grant its session is bound to, a turn whose start was given up is not
\* answered after all, and every turn that ended is reported once.
THEOREM AnswersAreTruthful == ASSUME ~Overlap PROVE Spec => []Answers
<1>1. AdaptersInv => Answers
  <2> SUFFICES ASSUME AdaptersInv  PROVE Answers
    OBVIOUS
  <2>1. CASE part = "claude"
    <3>1. Claude!AnswersStayInTheirGrant
      BY <2>1 DEF AdaptersInv, AnswersAreKnown, Claude!AnswersStayInTheirGrant
    <3>2. DOMAIN codexTurns = {} /\ DOMAIN events = {}
      BY <2>1 DEF AdaptersInv
    <3>3. Codex!RepliesAreOfAckedTurns /\ Codex!TurnsAreReportedOnce
      BY <3>2 DEF Codex!RepliesAreOfAckedTurns, Codex!TurnsAreReportedOnce
    <3> QED
      BY <2>1, <3>1, <3>3 DEF Answers
  <2>2. CASE part = "codex"
    BY <2>2, CodexHolds DEF AdaptersInv, Answers
  <2> QED
    BY <2>1, <2>2 DEF AdaptersInv
<1> QED
  BY <1>1, AdaptersInvariant, PTL

\* A process that is already up is given a turn only when it has the boundary that the policy
\* files give the sender at that moment.
THEOREM WarmTurnsFit == ASSUME ~Overlap PROVE Spec => ClaudeBoundary
<1> DEFINE Fits == \A c \in Claude!Callers :
                      (/\ call[c].at \in {"idle", "resume"} /\ call'[c].at = "ack"
                       /\ procs[call'[c].on].life # "ended") => procs[call'[c].on].box = policy
<1>1. ASSUME AdaptersInv, [Next]_vars  PROVE [Fits]_(Claude!vars)
  <2>1. CASE part = "claude" /\ Claude!Next
    <3>1. NoTurn \/ \E g \in Grants : Turn(g)
      BY <1>1, <2>1, ClaudeNextTurns DEF AdaptersInv
    <3>2. CASE NoTurn
      BY <3>2 DEF NoTurn
    <3>3. CASE \E g \in Grants : Turn(g)
      BY <3>3 DEF Turn
    <3> QED
      BY <3>1, <3>2, <3>3
  <2>2. CASE part = "codex" /\ UNCHANGED claudeOnly
    <3>1. \A c \in Claude!Callers : call'[c].at = "idle"
      BY <1>1, <2>2 DEF AdaptersInv, NoClaude, claudeOnly, Claude!Idle
    <3> QED
      BY <3>1
  <2>3. CASE UNCHANGED vars
    BY <2>3 DEF vars, claudeOnly, Claude!vars, Claude!world
  <2> QED
    BY <1>1, <2>1, <2>2, <2>3 DEF Next
<1>2. AdaptersInv /\ [Next]_vars => [Fits]_(Claude!vars)
  BY <1>1
<1> QED
  BY <1>2, AdaptersInvariant, PTL DEF Spec, ClaudeBoundary, Claude!WarmTurnsFitThePolicy

\* What the conversations of either adapter have been given, in a state and in the next.
LEMMA ClaudeBinds ==
  ASSUME ~Overlap, AdaptersInv, [Next]_vars
  PROVE  [Claude!Binding!Next]_[id \in 0 .. MaxQueries + 1 |-> Claude!Fed(id)]
<1> DEFINE owners == [id \in 0 .. MaxQueries + 1 |-> Claude!Fed(id)]
<1>1. ASSUME \A id : Claude!Fed(id)' = Claude!Fed(id)  PROVE owners' = owners
  BY <1>1
<1>2. CASE part = "codex" \/ UNCHANGED vars
  <2>1. procs' = procs
    BY <1>2 DEF Next, vars, claudeOnly
  <2>2. \A id : Claude!Fed(id)' = Claude!Fed(id)
    BY <2>1 DEF Claude!Fed, Claude!Queries
  <2> QED
    BY <1>1, <2>2
<1>3. CASE part = "claude" /\ Claude!Next
  <2>1. ClaudeTypes /\ ClaudeInv /\ ClaudeTypes'
    BY <1>3, ClaudeNextKeeps DEF AdaptersInv
  <2>2. (\A id : Claude!Fed(id) = Given(procs, id)) /\ \A id : Claude!Fed(id)' = Given(procs', id)
    <3>1. \A id : Claude!Fed(id) = Given(procs, id)
      BY <2>1, FedIsGiven
    <3>2. PICK P : P = Process
      OBVIOUS
    <3>3. procs' \in Seq(P)
      BY <2>1, <3>2 DEF ClaudeTypes
    <3>4. \A q \in DOMAIN procs' : procs'[q] \in P
      BY <3>3
    <3>5. \A q \in DOMAIN procs' : procs'[q].fed \subseteq Grants
      BY <3>2, <3>4 DEF Process
    <3>6. \A id : Claude!Fed(id)' = Given(procs', id)
      BY <3>5 DEF Claude!Fed, Claude!Queries, Given
    <3> QED
      BY <3>1, <3>6
  <2>3. \/ \A id : Given(procs', id) = Given(procs, id)
        \/ \E g \in Grants : \E at : /\ \A id : id # at => Given(procs', id) = Given(procs, id)
                                     /\ Given(procs, at) = {} /\ Given(procs', at) = {g}
    BY <1>3, <2>1, ClaudeNextTurns, FedChanges
  <2>4. CASE \A id : Given(procs', id) = Given(procs, id)
    BY <1>1, <2>2, <2>4
  <2>5. ASSUME NEW g \in Grants, NEW at, \A id : id # at => Given(procs', id) = Given(procs, id),
               Given(procs, at) = {}, Given(procs', at) = {g}
        PROVE  [Claude!Binding!Next]_owners
    <3>1. CASE at \in 0 .. MaxQueries + 1
      <4>1. owners[at] = {} /\ owners' = [owners EXCEPT ![at] = {g}]
        BY <2>2, <2>5, <3>1
      <4>2. Claude!Binding!Bind(at, g)
        BY <4>1 DEF Claude!Binding!Bind
      <4> QED
        BY <3>1, <4>2 DEF Claude!Binding!Next
    <3>2. CASE at \notin 0 .. MaxQueries + 1
      <4>1. owners' = owners
        BY <2>2, <2>5, <3>2
      <4> QED
        BY <4>1
    <3> QED
      BY <3>1, <3>2
  <2> QED
    BY <2>3, <2>4, <2>5
<1> QED
  BY <1>2, <1>3 DEF Next, AdaptersInv

LEMMA CodexBinds ==
  ASSUME AdaptersInv, [Next]_vars
  PROVE  [Codex!Binding!Next]_[id \in 1 .. MaxTurns + 1 |-> Codex!Fed(id)]
<1> DEFINE owners == [id \in 1 .. MaxTurns + 1 |-> Codex!Fed(id)]
<1>1. \A id \in 1 .. MaxTurns + 1 : id \in Positive
  BY DEF Positive
<1>2. CASE part = "claude" \/ UNCHANGED vars
  <2>1. codexTurns' = codexTurns
    BY <1>2 DEF Next, vars, codexOnly
  <2>2. \A id : Codex!Fed(id)' = Codex!Fed(id)
    BY <2>1 DEF Codex!Fed
  <2> QED
    BY <2>2
<1>3. CASE part = "codex" /\ Codex!Next
  <2>1. SessionTypes /\ ThreadsAreSeparate /\ SessionTypes' /\ (ThreadsKept \/ \E t, id : Threading(t, id))
    BY <1>3, CodexNextKeeps DEF AdaptersInv, CodexTypes, CodexInv
  <2>2. (\A id : Codex!Fed(id) = ThreadOf(codexTurns, id)) /\ \A id : Codex!Fed(id)' = ThreadOf(codexTurns', id)
    <3>1. \A id : Codex!Fed(id) = ThreadOf(codexTurns, id)
      BY <2>1, FedIsThreadOf
    <3>2. PICK T : T = CodexTurn
      OBVIOUS
    <3>3. codexTurns' \in Seq(T)
      BY <2>1, <3>2 DEF SessionTypes
    <3>4. \A t \in DOMAIN codexTurns' : codexTurns'[t] \in T
      BY <3>3
    <3>5. \A t \in DOMAIN codexTurns' : codexTurns'[t].grant \in Grants
      BY <3>2, <3>4 DEF CodexTurn
    <3>6. \A id : Codex!Fed(id)' = ThreadOf(codexTurns', id)
      BY <3>5 DEF Codex!Fed, ThreadOf
    <3> QED
      BY <3>1, <3>6
  <2>3. \/ \A id \in Positive : ThreadOf(codexTurns', id) = ThreadOf(codexTurns, id)
        \/ \E g \in Grants, at \in Positive :
              /\ \A id \in Positive : id # at => ThreadOf(codexTurns', id) = ThreadOf(codexTurns, id)
              /\ ThreadOf(codexTurns, at) = {} /\ ThreadOf(codexTurns', at) = {g}
    BY <2>1, ThreadsChange
  <2>4. CASE \A id \in Positive : ThreadOf(codexTurns', id) = ThreadOf(codexTurns, id)
    BY <1>1, <2>2, <2>4
  <2>5. ASSUME NEW g \in Grants, NEW at \in Positive,
               \A id \in Positive : id # at => ThreadOf(codexTurns', id) = ThreadOf(codexTurns, id),
               ThreadOf(codexTurns, at) = {}, ThreadOf(codexTurns', at) = {g}
        PROVE  [Codex!Binding!Next]_owners
    <3>1. CASE at \in 1 .. MaxTurns + 1
      <4>1. owners[at] = {} /\ owners' = [owners EXCEPT ![at] = {g}]
        BY <1>1, <2>2, <2>5, <3>1
      <4>2. Codex!Binding!Bind(at, g)
        BY <4>1 DEF Codex!Binding!Bind
      <4> QED
        BY <3>1, <4>2 DEF Codex!Binding!Next
    <3>2. CASE at \notin 1 .. MaxTurns + 1
      <4>1. owners' = owners
        BY <1>1, <2>2, <2>5, <3>2
      <4> QED
        BY <4>1
    <3> QED
      BY <3>1, <3>2
  <2> QED
    BY <2>3, <2>4, <2>5
<1> QED
  BY <1>2, <1>3 DEF Next, AdaptersInv

\* A provider conversation is only ever given turns of one grant, and a thread of the app server
\* serves one, whatever is reset, relaunched, rebuilt or restarted in between: both adapters
\* implement ConversationBinding.
THEOREM BindingsImplemented == ASSUME ~Overlap PROVE Spec => Bindings
<1>1. Init => Claude!Binding!Init /\ Codex!Binding!Init
  <2> SUFFICES ASSUME Init  PROVE Claude!Binding!Init /\ Codex!Binding!Init
    OBVIOUS
  <2>1. AdaptersInv
    BY AdaptersInit
  <2>2. \A id : Claude!Fed(id) \in {{}} \cup {{g} : g \in Grants}
    <3>1. CASE part = "claude"
      BY <2>1, <3>1, FedFacts DEF AdaptersInv
    <3>2. CASE part = "codex"
      <4>1. DOMAIN procs = {}
        BY <2>1, <3>2 DEF AdaptersInv, NoClaude
      <4> QED
        BY <4>1 DEF Claude!Fed, Claude!Queries
    <3> QED
      BY <2>1, <3>1, <3>2 DEF AdaptersInv
  <2>3. \A id \in Positive : Codex!Fed(id) \in {{}} \cup {{g} : g \in Grants}
    <3>1. CASE part = "claude"
      <4>1. DOMAIN codexTurns = {}
        BY <2>1, <3>1 DEF AdaptersInv
      <4> QED
        BY <4>1 DEF Codex!Fed
    <3>2. CASE part = "codex"
      <4>1. SessionTypes /\ ThreadsAreSeparate
        BY <2>1, <3>2 DEF AdaptersInv, CodexTypes, CodexInv
      <4>2. ASSUME NEW id \in Positive  PROVE ThreadOf(codexTurns, id) \in {{}} \cup {{g} : g \in Grants}
        <5>1. \A g, h \in ThreadOf(codexTurns, id) : g = h /\ g \in Grants
          BY <4>1 DEF ThreadOf, ThreadsAreSeparate, Positive
        <5>2. CASE ThreadOf(codexTurns, id) = {}
          BY <5>2
        <5>3. ASSUME NEW g \in ThreadOf(codexTurns, id)  PROVE ThreadOf(codexTurns, id) = {g} /\ g \in Grants
          BY <5>1
        <5> QED
          BY <5>2, <5>3
      <4> QED
        BY <4>1, <4>2, FedIsThreadOf
    <3> QED
      BY <2>1, <3>1, <3>2 DEF AdaptersInv
  <2>4. \A id \in 1 .. MaxTurns + 1 : id \in Positive
    BY DEF Positive
  <2> QED
    BY <2>2, <2>3, <2>4 DEF Claude!Binding!Init, Codex!Binding!Init
<1>2. AdaptersInv /\ [Next]_vars =>
        /\ [Claude!Binding!Next]_[id \in 0 .. MaxQueries + 1 |-> Claude!Fed(id)]
        /\ [Codex!Binding!Next]_[id \in 1 .. MaxTurns + 1 |-> Codex!Fed(id)]
  BY ClaudeBinds, CodexBinds
<1> QED
  BY <1>1, <1>2, AdaptersInvariant, PTL
  DEF Spec, Bindings, Claude!ImplementsBinding, Codex!ImplementsBinding, Claude!Binding!Spec, Codex!Binding!Spec
===============================================================================
