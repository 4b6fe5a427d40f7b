----------------------------- MODULE SequenceRows -----------------------------
(***************************************************************************)
(* A table whose rows are kept in the order of their insertion: what a     *)
(* DELETE leaves of it.  The rows to keep are a set, so that facts about   *)
(* Kept can be stated and proved once (SequenceLemmas).                    *)
(***************************************************************************)
EXTENDS Integers, Sequences

\* The rows of s that are in K, in their order.
Kept(s, K) ==
  LET kept[i \in 0..Len(s)] ==
        IF i = 0 THEN <<>>
        ELSE IF s[i] \in K THEN Append(kept[i - 1], s[i])
        ELSE kept[i - 1]
  IN kept[Len(s)]
===============================================================================
