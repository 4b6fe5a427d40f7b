----------------------------- MODULE PolicyStore -----------------------------
(***************************************************************************)
(* The file of trusted-tool policies: what a collaborator may do without   *)
(* being asked.  The bridge writes it when the control plane allows or     *)
(* revokes a policy, when a policy is used, and when a use has been        *)
(* reported; the owner's command line writes it too.  Every write replaces *)
(* the whole file by a document computed from the one read before.  The    *)
(* acknowledgement of an update, of which nothing here depends, is left    *)
(* out.                                                                    *)
(***************************************************************************)
EXTENDS Integers, Sequences, SequenceRows

CONSTANTS
    Hosted,     \* policies of the control plane
    Local,      \* policies of the command line
    Presets,
    None,
    MaxEvents,  \* bound: events of the control plane
    MaxUses,    \* bound: uses of a record
    MaxFaults   \* bound: commands of the owner, lost answers, kills, deletions

VARIABLES
    doc,      \* the file: serverRevisions and the policies, in order
    writing,  \* process -> the document it is about to rename into place, and whether it read an older one
    log,      \* the control plane's events
    cursor,   \* events handled and saved
    handled,  \* the event after the cursor has been handled, but the cursor not saved
    run,      \* bridgeInstanceId
    report,   \* the pass of the usage reports: rows read, answer to the first of them
    hosted,   \* uses the control plane has accepted
    deleted,  \* policies the control plane no longer has
    ended,    \* the newest revision handled when the policy was last revoked
    kept,     \* policies an event found as it gives them, so that the file does not know its revision
    raced,    \* a write has undone another process's
    faults

file == <<doc, writing, raced>>
events == <<log, cursor, handled>>
vars == <<file, events, run, report, hosted, deleted, ended, kept, faults>>

Ids == Hosted \cup Local
Processes == {"bridge", "cli"}
Revisions == 0 .. MaxEvents
Records == [id: Ids, preset: Presets, run: 0 .. MaxFaults + 1, status: {"active", "revoked", "invalid"},
            uses: 0 .. MaxUses, pending: SUBSET (1 .. MaxUses)]
Documents == [revs: [Ids -> Revisions \cup {None}], recs: Seq(Records)]

TypeOK ==
    /\ doc \in Documents
    /\ \A p \in Processes : writing[p] # None => writing[p] \in [stale: BOOLEAN, new: Documents]
    /\ cursor \in 0 .. Len(log) /\ handled \in BOOLEAN
    /\ \A i \in Ids : hosted[i] \subseteq 1 .. MaxUses
    /\ ended \in [Ids -> Revisions \cup {None}] /\ kept \subseteq Hosted

Init ==
    /\ doc = [revs |-> [i \in Ids |-> None], recs |-> <<>>]
    /\ writing = [p \in Processes |-> None] /\ raced = FALSE
    /\ log = <<>> /\ cursor = 0 /\ handled = FALSE
    /\ run = 1
    /\ report = [todo |-> <<>>, answer |-> None]
    /\ hosted = [i \in Ids |-> {}] /\ deleted = {}
    /\ ended = [i \in Ids |-> None] /\ kept = {}
    /\ faults = 0

Fault == faults < MaxFaults /\ faults' = faults + 1

-----------------------------------------------------------------------------
(* The document. *)

Places(d, i) == {n \in DOMAIN d.recs : d.recs[n].id = i}
ActivePlaces(d, i) == {n \in Places(d, i) : d.recs[n].status = "active"}
Least(places) == CHOOSE n \in places : \A m \in places : n <= m
Active(d, i) == ActivePlaces(d, i) # {}

\* readTrustedToolPolicies now, writeTrustedToolPolicies in a moment.
Write(p, new) ==
    /\ writing[p] = None
    /\ writing' = [writing EXCEPT ![p] = [stale |-> FALSE, new |-> new]]
    /\ UNCHANGED <<doc, raced>>

Rename(p) ==
    /\ writing[p] # None
    /\ doc' = writing[p].new
    /\ raced' = (raced \/ writing[p].stale)
    /\ writing' = [q \in Processes |->
                     IF q = p \/ writing[q] = None THEN None ELSE [writing[q] EXCEPT !.stale = TRUE]]
    /\ UNCHANGED <<events, run, report, hosted, deleted, ended, kept, faults>>

\* As if a policy revoked at its revision could be allowed again by it.
NewerOrEqual(d, e) == d.revs[e.id] # None => d.revs[e.id] <= e.rev

\* upsertTrustedToolPolicy: not an old revision, nor one at which the policy was revoked.
Newer(d, e) == d.revs[e.id] # None => d.revs[e.id] < e.rev

\* An identical active policy is kept as it is, and so is its revision.
Exact(d, e) ==
    \E n \in ActivePlaces(d, e.id) : d.recs[n].preset = e.preset /\ d.recs[n].run = e.run

Added(d, e, rev) ==
    [revs |-> [d.revs EXCEPT ![e.id] = rev],
     recs |-> Append(d.recs, [id |-> e.id, preset |-> e.preset, run |-> e.run, status |-> "active",
                              uses |-> 0, pending |-> {}])]

\* revokeTrustedToolPolicy: the first record of the id, or a revision to remember.
RevokeWrites(d, i, rev) ==
    /\ d.revs[i] # None => rev >= d.revs[i]
    /\ Places(d, i) # {} => d.recs[Least(Places(d, i))].status = "active"

Revoked(d, i, rev) ==
    [revs |-> [d.revs EXCEPT ![i] = rev],
     recs |-> IF Places(d, i) = {} THEN d.recs ELSE [d.recs EXCEPT ![Least(Places(d, i))].status = "revoked"]]

Used(d, i) ==
    LET n == Least(ActivePlaces(d, i)) IN
    [d EXCEPT !.recs[n].uses = @ + 1, !.recs[n].pending = @ \cup {d.recs[n].uses + 1}]

\* Uses made while the report was under way stay.
Reported(d, i, through) == [d EXCEPT !.recs[Least(Places(d, i))].pending = {s \in @ : s > through}]

Invalidated(d, i) == [d EXCEPT !.recs[Least(Places(d, i))] = [@ EXCEPT !.status = "invalid", !.pending = {}]]

-----------------------------------------------------------------------------
(* The control plane. *)

\* The revision of a policy after the first `cut` events; 0 if it is in none of them.
Newest(cut, i) ==
    LET revs == {log[n].rev : n \in {m \in 1 .. cut : log[m].id = i}}
    IN CHOOSE r \in revs \cup {0} : \A q \in revs : q <= r
LastOf(i) ==
    LET places == {n \in DOMAIN log : log[n].id = i}
    IN IF places = {} THEN None ELSE log[CHOOSE n \in places : \A m \in places : m <= n]

\* A policy is allowed, for the bridge's run or (0) for good, changed, or revoked.
Issue(e) ==
    /\ Len(log) < MaxEvents /\ e.id \notin deleted
    /\ e.rev = Newest(Len(log), e.id) + 1
    /\ e.type = "revoke" => LastOf(e.id) # None /\ LastOf(e.id).type = "allow"
    /\ LastOf(e.id) # None => <<LastOf(e.id).type, LastOf(e.id).preset, LastOf(e.id).run>> # <<e.type, e.preset, e.run>>
    /\ log' = Append(log, e)
    /\ UNCHANGED <<file, cursor, handled, run, report, hosted, deleted, ended, kept, faults>>

Delete(i) ==
    /\ Fault
    /\ deleted' = deleted \cup {i}
    /\ UNCHANGED <<file, events, run, report, hosted, ended, kept>>

-----------------------------------------------------------------------------
(* The bridge. *)

\* A revocation that has been handled counts from then on.
Ends(e, cut) == ended' = IF e.type = "revoke" THEN [ended EXCEPT ![e.id] = Newest(cut, e.id)] ELSE ended

Applies(e) == e.type = "allow" /\ e.run \in {0, run}

\* applyTrustedToolPolicyUpdate, applyTrustedToolPolicyRevocation: what they refuse is only logged.
HandleEvent ==
    /\ cursor < Len(log) /\ ~handled /\ writing["bridge"] = None
    /\ handled' = TRUE
    /\ LET e == log[cursor + 1] IN
         /\ Ends(e, cursor + 1)
         /\ kept' = IF Applies(e) /\ Newer(doc, e) /\ Exact(doc, e) THEN kept \cup {e.id} ELSE kept
         /\ \/ /\ Applies(e) /\ Newer(doc, e) /\ ~Exact(doc, e)
               /\ Write("bridge", Added(doc, e, e.rev))
            \/ /\ e.type = "revoke" /\ RevokeWrites(doc, e.id, e.rev)
               /\ Write("bridge", Revoked(doc, e.id, e.rev))
            \/ /\ IF e.type = "allow" THEN ~Applies(e) \/ ~Newer(doc, e) \/ Exact(doc, e)
                                      ELSE ~RevokeWrites(doc, e.id, e.rev)
               /\ UNCHANGED file
    /\ UNCHANGED <<log, cursor, run, report, hosted, deleted, faults>>

SaveCursor ==
    /\ handled /\ writing["bridge"] = None
    /\ handled' = FALSE /\ cursor' = cursor + 1
    /\ UNCHANGED <<file, log, run, report, hosted, deleted, ended, kept, faults>>

\* markTrustedToolPolicyUsed, for an action a usable policy covers.
Use(i) ==
    /\ \E n \in ActivePlaces(doc, i) : doc.recs[n].run \in {0, run}
    /\ doc.recs[Least(ActivePlaces(doc, i))].uses < MaxUses
    /\ Write("bridge", Used(doc, i))
    /\ UNCHANGED <<events, run, report, hosted, deleted, ended, kept, faults>>

\* pendingTrustedToolPolicyUses: of the policies that have a revision.
PendingUses ==
    LET due == {r \in {doc.recs[n] : n \in DOMAIN doc.recs} : doc.revs[r.id] # None /\ r.pending # {}}
        rows == Kept(doc.recs, due)
    IN [n \in DOMAIN rows |-> [id |-> rows[n].id, uses |-> rows[n].pending]]

StartReport ==
    /\ report.todo = <<>> /\ writing["bridge"] = None
    /\ PendingUses # <<>>
    /\ report' = [todo |-> PendingUses, answer |-> None]
    /\ UNCHANGED <<file, events, run, hosted, deleted, ended, kept, faults>>

SendUses ==
    /\ report.todo # <<>> /\ report.answer = None
    /\ LET r == Head(report.todo) IN
         IF r.id \in Hosted \ deleted
         THEN /\ hosted' = [hosted EXCEPT ![r.id] = @ \cup r.uses]
              /\ report' = [report EXCEPT !.answer = "accepted"]
         ELSE /\ report' = [report EXCEPT !.answer = "gone"]
              /\ UNCHANGED hosted
    /\ UNCHANGED <<file, events, run, deleted, ended, kept, faults>>

\* The answer is lost: the pass ends, the next one sends the uses again.
ReportLost ==
    /\ Fault
    /\ report.todo # <<>>
    /\ report' = [todo |-> <<>>, answer |-> None]
    /\ UNCHANGED <<file, events, run, hosted, deleted, ended, kept>>

Highest(uses) == CHOOSE s \in uses : \A t \in uses : t <= s

\* markTrustedToolPolicyUsesReported, invalidateTrustedToolPolicy.
RecordReport ==
    /\ report.answer # None
    /\ LET r == Head(report.todo)
           through == Highest(r.uses)
           new == IF Places(doc, r.id) = {} THEN doc
                  ELSE IF report.answer = "gone" THEN Invalidated(doc, r.id) ELSE Reported(doc, r.id, through)
       IN \/ new # doc /\ Write("bridge", new)
          \/ new = doc /\ writing["bridge"] = None /\ UNCHANGED file
    /\ report' = [todo |-> Tail(report.todo), answer |-> None]
    /\ UNCHANGED <<events, run, hosted, deleted, ended, kept, faults>>

\* The bridge is killed and started again: a new run.
Restart ==
    /\ Fault
    /\ run' = run + 1
    /\ writing' = [writing EXCEPT !["bridge"] = None]
    /\ handled' = FALSE /\ report' = [todo |-> <<>>, answer |-> None]
    /\ UNCHANGED <<doc, raced, log, cursor, hosted, deleted, ended, kept>>

-----------------------------------------------------------------------------
(* The owner's command line. *)

Allow(i, preset, r) ==
    /\ Fault
    /\ Places(doc, i) = {}
    /\ Write("cli", Added(doc, [id |-> i, preset |-> preset, run |-> r], None))
    /\ UNCHANGED <<events, run, report, hosted, deleted, ended, kept>>

\* As if the command line made a revision of its own.
NextRevision(i) == IF doc.revs[i] = None THEN 0 ELSE doc.revs[i] + 1
\* Without a revision of its own: at the one the file has.
FileRevision(i) == IF doc.revs[i] = None THEN 0 ELSE doc.revs[i]

Revoke(i) ==
    LET rev == FileRevision(i)
        cut == cursor + (IF handled /\ writing["bridge"] = None THEN 1 ELSE 0)
    IN /\ Fault
       /\ Places(doc, i) # {} /\ RevokeWrites(doc, i, rev)
       /\ Write("cli", Revoked(doc, i, rev))
       /\ ended' = [ended EXCEPT ![i] = Newest(cut, i)]
       /\ UNCHANGED <<events, run, report, hosted, deleted, kept>>

Next ==
    \/ \E p \in Processes : Rename(p)
    \/ \E i \in Hosted, preset \in Presets, type \in {"allow", "revoke"}, r \in {0, run}, rev \in Revisions :
          Issue([id |-> i, type |-> type, preset |-> preset, run |-> r, rev |-> rev])
    \/ \E i \in Hosted : Delete(i)
    \/ HandleEvent \/ SaveCursor
    \/ \E i \in Ids : Use(i) \/ Revoke(i)
    \/ StartReport \/ SendUses \/ ReportLost \/ RecordReport \/ Restart
    \/ \E i \in Local, preset \in Presets, r \in {0, run} : Allow(i, preset, r)

Spec == Init /\ [][Next]_vars

-----------------------------------------------------------------------------
(* Properties. *)

\* A policy that was revoked, by an event or by the owner, comes back only by an event newer than
\* every one handled before: neither the replay of an event after a restart nor the report of a
\* use revives it, unless the two processes wrote the file at the same time, or an event gave what
\* the file already had, whose revision the file does not keep.
Revives(i) == ended[i] # None /\ ~Active(doc, i) /\ Active(doc', i)
StaysRevoked == \A i \in Ids \ kept : ~raced' /\ Revives(i) => doc'.revs[i] > ended[i]
RevocationIsFinal == [][StaysRevoked]_vars

\* No use gets lost between the bridge and the control plane: the uses of a policy's record are
\* accepted or still pending, whatever was used, lost or killed while a report was under way.
UsesAreAccounted ==
    \A i \in Hosted \ deleted :
        (~raced /\ Places(doc, i) # {}) =>
            LET r == doc.recs[Least(Places(doc, i))] IN
            r.status # "invalid" => 1 .. r.uses \subseteq hosted[i] \cup r.pending

=============================================================================
