--------------------------- MODULE VersionedConfig ---------------------------
(***************************************************************************)
(* A config with one Lamport stamp per field, and its merge                *)
(* (crates/synbad-sync/src/versioned.rs).  Pure operators on values; the   *)
(* machines that hold such values are in ConfigSync.                       *)
(*                                                                         *)
(* Of the fields only the shared ones are merged; the others describe one  *)
(* machine (role, server_name, ...).  A counter is a natural number: the   *)
(* source's u64 does not wrap within the life of an installation.          *)
(***************************************************************************)
EXTENDS Integers, FiniteSets

CONSTANTS
    Nodes,         \* machine ids
    Rank,          \* their order as strings, which breaks ties
    SharedFields,  \* port, screens, links, options, clipboard_sharing
    LocalFields,   \* fields of one machine, stamped but never merged
    Values         \* what a field can hold

ASSUME RankAssumption ==
    /\ Rank \in [Nodes -> Nat]
    /\ \A m, n \in Nodes : Rank[m] = Rank[n] => m = n

ASSUME FieldsAssumption == SharedFields \cap LocalFields = {}

Fields == SharedFields \cup LocalFields
Configs == [Fields -> Values]

\* LamportTime and its order: counter, then origin.
Stamps == [counter : Nat, origin : Nodes]

Newer(s, t) ==
    \/ s.counter > t.counter
    \/ s.counter = t.counter /\ Rank[s.origin] > Rank[t.origin]

\* VersionedConfig, and what its sidecar file holds of it.
Versioned == [config : Configs, stamps : [Fields -> Stamps], clock : Nat]
SideCars  == [stamps : [Fields -> Stamps], clock : Nat]

SideCar(v) == [stamps |-> v.stamps, clock |-> v.clock]

\* from_parts.
FromParts(c, s) == [config |-> c, stamps |-> s.stamps, clock |-> s.clock]

\* initial: every field carries the stamp (1, origin).
Initial(c, n) ==
    [config |-> c, stamps |-> [f \in Fields |-> [counter |-> 1, origin |-> n]], clock |-> 1]

\* The greatest of a set of counters.
Greatest(S) == CHOOSE x \in S : \A y \in S : y <= x

Counters(v) == {v.clock} \cup {v.stamps[f].counter : f \in Fields}

\* Mutant of NextClock: the clock is read and not advanced.
ClockNotAdvanced(v) == Greatest(Counters(v))

\* The counter of the next local edit.
NextClock(v) == Greatest(Counters(v)) + 1

\* apply_local: every field that changes gets the same fresh stamp.
ApplyLocal(v, c, n) ==
    IF c = v.config THEN v
    ELSE LET stamp == [counter |-> NextClock(v), origin |-> n]
         IN [config |-> c,
             stamps |-> [f \in Fields |-> IF c[f] # v.config[f] THEN stamp ELSE v.stamps[f]],
             clock  |-> NextClock(v)]

\* Mutant of Overwritten: any difference counts as news.
AnyDifference(v, w) == {f \in SharedFields : w.stamps[f] # v.stamps[f]}

\* The shared fields a merge of w into v overwrites.
Overwritten(v, w) == {f \in SharedFields : Newer(w.stamps[f], v.stamps[f])}

\* Mutant of Merge: the clock is not raised.
MergeKeepsClock(v, w) ==
    LET won == Overwritten(v, w)
    IN [config |-> [f \in Fields |-> IF f \in won THEN w.config[f] ELSE v.config[f]],
        stamps |-> [f \in Fields |-> IF f \in won THEN w.stamps[f] ELSE v.stamps[f]],
        clock  |-> v.clock]

\* merge: per shared field the newer stamp wins; the clock passes the peer's.
Merge(v, w) ==
    LET won == Overwritten(v, w)
    IN [config |-> [f \in Fields |-> IF f \in won THEN w.config[f] ELSE v.config[f]],
        stamps |-> [f \in Fields |-> IF f \in won THEN w.stamps[f] ELSE v.stamps[f]],
        clock  |-> Greatest({v.clock} \cup Counters(w))]

\* head_hash: the shared fields and their stamps; the hash is taken to be
\* injective.
HeadHash(v) ==
    [config |-> [f \in SharedFields |-> v.config[f]],
     stamps |-> [f \in SharedFields |-> v.stamps[f]]]

\* No shared field of v has a newer stamp than w's, so that a merge of v into w
\* changes nothing; of the values it says nothing.
Covers(w, v) == \A f \in SharedFields : ~Newer(v.stamps[f], w.stamps[f])

\* w has what v has or something newer, field by field.
Holds(w, v) ==
    \A f \in SharedFields :
        \/ Newer(w.stamps[f], v.stamps[f])
        \/ w.stamps[f] = v.stamps[f] /\ w.config[f] = v.config[f]
=============================================================================
