-------------------------- MODULE ConfigSyncSteps ---------------------------
(***************************************************************************)
(* First the algebra of the merge: the order of stamps is total, a merge   *)
(* never loses news, and merging is idempotent, commutative and            *)
(* associative on the shared fields, so that machines that exchange their  *)
(* states in any order and any number of times agree.                      *)
(*                                                                         *)
(* Then what a step of ConfigSync can do: every step edits one copy,       *)
(* merges a copy that circulates into one, restarts a machine or keeps all *)
(* the copies, and what it does to each conversation.  ConfigSyncProofs    *)
(* rests on this account.                                                  *)
(***************************************************************************)
EXTENDS ConfigSync, TLAPS

\* Copies that agree wherever their stamps do, as all copies do while
\* StampDeterminesValue of ConfigSync holds.
Agree(v, w) == \A f \in SharedFields : v.stamps[f] = w.stamps[f] => v.config[f] = w.config[f]

\* The shared part of a merge, field by field: stamps and values of the winner.
LEMMA MergeField ==
    ASSUME NEW v, NEW w, NEW f \in SharedFields
    PROVE  /\ Newer(w.stamps[f], v.stamps[f]) =>
                 /\ Merge(v, w).stamps[f] = w.stamps[f]
                 /\ Merge(v, w).config[f] = w.config[f]
           /\ ~Newer(w.stamps[f], v.stamps[f]) =>
                 /\ Merge(v, w).stamps[f] = v.stamps[f]
                 /\ Merge(v, w).config[f] = v.config[f]
  BY DEF Merge, Overwritten, Fields

\* LamportTime::cmp is a strict total order on stamps: counter, then the rank
\* of the origin.
THEOREM StampOrder ==
    ASSUME NEW s \in Stamps, NEW t \in Stamps, NEW u \in Stamps
    PROVE  /\ ~Newer(s, s)
           /\ Newer(s, t) \/ Newer(t, s) \/ s = t
           /\ Newer(s, t) => ~Newer(t, s)
           /\ Newer(s, t) /\ Newer(t, u) => Newer(s, u)
  <1>1. /\ s.counter \in Nat /\ t.counter \in Nat /\ u.counter \in Nat
        /\ s.origin \in Nodes /\ t.origin \in Nodes /\ u.origin \in Nodes
    BY DEF Stamps
  <1>2. /\ Rank[s.origin] \in Nat /\ Rank[t.origin] \in Nat /\ Rank[u.origin] \in Nat
        /\ Rank[s.origin] = Rank[t.origin] => s.origin = t.origin
    BY <1>1, RankAssumption
  <1>3. s.counter = t.counter /\ s.origin = t.origin => s = t
    BY DEF Stamps
  <1> QED
    BY <1>1, <1>2, <1>3 DEF Newer

\* The stamps of a copy are stamps.
LEMMA StampOf ==
    ASSUME NEW v \in Versioned, NEW f \in SharedFields
    PROVE  v.stamps[f] \in Stamps
  BY DEF Versioned, Fields

\* merge loses nothing: the result has seen whatever either side had.
THEOREM MergeCoversBoth ==
    ASSUME NEW v \in Versioned, NEW w \in Versioned
    PROVE  Covers(Merge(v, w), v) /\ Covers(Merge(v, w), w)
  <1> SUFFICES ASSUME NEW f \in SharedFields
               PROVE  /\ ~Newer(v.stamps[f], Merge(v, w).stamps[f])
                      /\ ~Newer(w.stamps[f], Merge(v, w).stamps[f])
    BY DEF Covers
  <1>1. v.stamps[f] \in Stamps /\ w.stamps[f] \in Stamps
    BY StampOf
  <1>2. /\ ~Newer(v.stamps[f], v.stamps[f]) /\ ~Newer(w.stamps[f], w.stamps[f])
        /\ Newer(w.stamps[f], v.stamps[f]) => ~Newer(v.stamps[f], w.stamps[f])
    BY <1>1, StampOrder
  <1> QED
    BY <1>2, MergeField

\* A state merged into one that has already seen it changes no field: a
\* duplicated or re-sent frame is harmless ("Sessions are idempotent (LWW)").
THEOREM MergeIdempotent ==
    ASSUME NEW v \in Versioned, NEW w \in Versioned, Covers(w, v)
    PROVE  /\ Overwritten(w, v) = {}
           /\ HeadHash(Merge(w, v)) = HeadHash(w)
  <1>1. Overwritten(w, v) = {}
    BY DEF Overwritten, Covers
  <1>2. \A f \in SharedFields : /\ Merge(w, v).stamps[f] = w.stamps[f]
                                /\ Merge(w, v).config[f] = w.config[f]
    BY MergeField DEF Covers
  <1> QED
    BY <1>1, <1>2 DEF HeadHash

\* Two machines that merge each other's state end with the same head: "both
\* sides end up byte-identical" (run_inbound_inner).
THEOREM MergeCommutes ==
    ASSUME NEW v \in Versioned, NEW w \in Versioned, Agree(v, w)
    PROVE  HeadHash(Merge(v, w)) = HeadHash(Merge(w, v))
  <1>1. ASSUME NEW f \in SharedFields
        PROVE  /\ Merge(v, w).stamps[f] = Merge(w, v).stamps[f]
               /\ Merge(v, w).config[f] = Merge(w, v).config[f]
    <2>1. v.stamps[f] \in Stamps /\ w.stamps[f] \in Stamps
      BY StampOf
    <2>2. CASE Newer(w.stamps[f], v.stamps[f])
      <3>1. ~Newer(v.stamps[f], w.stamps[f])
        BY <2>1, <2>2, StampOrder
      <3> QED BY <2>2, <3>1, MergeField
    <2>3. CASE Newer(v.stamps[f], w.stamps[f])
      <3>1. ~Newer(w.stamps[f], v.stamps[f])
        BY <2>1, <2>3, StampOrder
      <3> QED BY <2>3, <3>1, MergeField
    <2>4. CASE v.stamps[f] = w.stamps[f]
      <3>1. /\ ~Newer(v.stamps[f], w.stamps[f]) /\ ~Newer(w.stamps[f], v.stamps[f])
            /\ v.config[f] = w.config[f]
        BY <2>1, <2>4, StampOrder DEF Agree
      <3> QED BY <2>4, <3>1, MergeField
    <2> QED
      BY <2>1, <2>2, <2>3, <2>4, StampOrder
  <1> QED
    BY <1>1 DEF HeadHash

\* It does not matter in which order states reach a machine, or whether a peer
\* merged them before passing them on.
THEOREM MergeAssociates ==
    ASSUME NEW u \in Versioned, NEW v \in Versioned, NEW w \in Versioned
    PROVE  HeadHash(Merge(Merge(u, v), w)) = HeadHash(Merge(u, Merge(v, w)))
  <1> DEFINE L == Merge(Merge(u, v), w)
             R == Merge(u, Merge(v, w))
  <1>1. ASSUME NEW f \in SharedFields
        PROVE  L.stamps[f] = R.stamps[f] /\ L.config[f] = R.config[f]
    <2>1. u.stamps[f] \in Stamps /\ v.stamps[f] \in Stamps /\ w.stamps[f] \in Stamps
      BY StampOf
    <2>2. CASE Newer(v.stamps[f], u.stamps[f]) /\ Newer(w.stamps[f], v.stamps[f])
      <3>1. Newer(w.stamps[f], u.stamps[f])
        BY <2>1, <2>2, StampOrder
      <3> QED BY <2>2, <3>1, MergeField
    <2>3. CASE Newer(v.stamps[f], u.stamps[f]) /\ ~Newer(w.stamps[f], v.stamps[f])
      BY <2>3, MergeField
    <2>4. CASE ~Newer(v.stamps[f], u.stamps[f]) /\ Newer(w.stamps[f], v.stamps[f])
      BY <2>4, MergeField
    <2>5. CASE ~Newer(v.stamps[f], u.stamps[f]) /\ ~Newer(w.stamps[f], v.stamps[f])
      <3>1. ~Newer(w.stamps[f], u.stamps[f])
        <4> SUFFICES ASSUME Newer(w.stamps[f], u.stamps[f]) PROVE FALSE
          OBVIOUS
        <4>1. Newer(u.stamps[f], v.stamps[f]) \/ u.stamps[f] = v.stamps[f]
          BY <2>1, <2>5, StampOrder
        <4> QED BY <2>1, <2>5, <4>1, StampOrder
      <3> QED BY <2>5, <3>1, MergeField
    <2> QED
      BY <2>2, <2>3, <2>4, <2>5
  <1> QED
    BY <1>1 DEF HeadHash

-----------------------------------------------------------------------------
\* What the first conjunct of ClockDominates says of one copy.
ClockCovers(v) == \A f \in Fields : v.stamps[f].counter <= v.clock

\* The greatest counter of a copy is its clock.
LEMMA ClockIsGreatest ==
    ASSUME NEW v \in Versioned, ClockCovers(v)
    PROVE  Greatest(Counters(v)) = v.clock
  <1>1. v.clock \in Counters(v) /\ v.clock \in Nat
    BY DEF Counters, Versioned
  <1>2. \A y \in Counters(v) : y \in Nat /\ y <= v.clock
    BY DEF Counters, ClockCovers, Versioned, Stamps
  <1>3. \A x \in Counters(v) : (\A y \in Counters(v) : y <= x) => x = v.clock
    BY <1>1, <1>2
  <1> QED
    BY <1>1, <1>2, <1>3 DEF Greatest

\* apply_local: every changed field gets a stamp newer than any the copy holds,
\* and the copy stays well-formed.
THEOREM LocalEditWins ==
    ASSUME NEW v \in Versioned, ClockCovers(v), NEW c \in Configs, NEW n \in Nodes
    PROVE  LET a == ApplyLocal(v, c, n)
           IN /\ a \in Versioned /\ ClockCovers(a) /\ a.config = c
              /\ \A f, g \in Fields : c[f] # v.config[f] => Newer(a.stamps[f], v.stamps[g])
  <1>1. NextClock(v) = v.clock + 1 /\ v.clock \in Nat
    BY ClockIsGreatest DEF NextClock, Versioned
  <1>2. \A f \in Fields : v.stamps[f] \in Stamps /\ v.stamps[f].counter \in Nat
    BY DEF Versioned, Stamps
  <1>3. CASE c = v.config
    BY <1>3 DEF ApplyLocal
  <1>4. CASE c # v.config
    <2> DEFINE stamp == [counter |-> v.clock + 1, origin |-> n]
               s == [f \in Fields |-> IF c[f] # v.config[f] THEN stamp ELSE v.stamps[f]]
    <2>1. ApplyLocal(v, c, n) = [config |-> c, stamps |-> s, clock |-> v.clock + 1]
      BY <1>1, <1>4 DEF ApplyLocal
    <2>2. stamp \in Stamps
      BY <1>1 DEF Stamps
    <2>3. s \in [Fields -> Stamps]
      BY <1>2, <2>2
    <2>4. \A f \in Fields : s[f].counter <= v.clock + 1
      BY <1>1, <1>2 DEF ClockCovers
    <2>5. \A f, g \in Fields : c[f] # v.config[f] => Newer(s[f], v.stamps[g])
      BY <1>1, <1>2 DEF ClockCovers, Newer
    <2> HIDE DEF s
    <2> QED
      BY <1>1, <2>1, <2>3, <2>4, <2>5 DEF Versioned, ClockCovers
  <1> QED
    BY <1>3, <1>4

-----------------------------------------------------------------------------
(* Steps. *)

\* The greatest of two clocks is the one a merge takes.
LEMMA MergeClock ==
    ASSUME NEW v \in Versioned, NEW w \in Versioned, ClockCovers(w)
    PROVE  LET k == Merge(v, w).clock
           IN k \in Nat /\ k \in {v.clock, w.clock} /\ v.clock <= k /\ w.clock <= k
<1> DEFINE C == {v.clock} \cup Counters(w)
           k == IF v.clock >= w.clock THEN v.clock ELSE w.clock
<1>1. v.clock \in Nat /\ w.clock \in Nat /\ \A f \in Fields : w.stamps[f].counter \in Nat
  BY DEF Versioned, Stamps
<1>2. k \in C /\ k \in Nat /\ v.clock <= k /\ w.clock <= k
  BY <1>1 DEF Counters
<1>3. \A y \in C : y \in Nat /\ y <= k
  BY <1>1 DEF Counters, ClockCovers
<1>4. \A x \in C : (\A y \in C : y <= x) => x = k
  BY <1>2, <1>3
<1>5. Greatest(C) = k
  BY <1>2, <1>3, <1>4 DEF Greatest
<1>6. Merge(v, w).clock = Greatest(C)
  BY DEF Merge
<1>. QED
  BY <1>2, <1>5, <1>6

\* A merge takes each field, value and stamp together, from one of the two; it
\* is a well-formed copy and never goes back to an older stamp.
LEMMA MergeFacts ==
    ASSUME NEW v \in Versioned, NEW w \in Versioned, ClockCovers(v), ClockCovers(w)
    PROVE  /\ Merge(v, w) \in Versioned /\ ClockCovers(Merge(v, w))
           /\ v.clock <= Merge(v, w).clock
           /\ \A f \in Overwritten(v, w) :
                 /\ Merge(v, w).stamps[f] = w.stamps[f] /\ Merge(v, w).config[f] = w.config[f]
                 /\ Newer(w.stamps[f], v.stamps[f])
           /\ \A f \in Fields \ Overwritten(v, w) :
                 Merge(v, w).stamps[f] = v.stamps[f] /\ Merge(v, w).config[f] = v.config[f]
           /\ Overwritten(v, w) \subseteq Fields
           /\ Overwritten(v, w) = {} => Merge(v, w).stamps = v.stamps
<1> DEFINE won == Overwritten(v, w)
           c == [f \in Fields |-> IF f \in won THEN w.config[f] ELSE v.config[f]]
           s == [f \in Fields |-> IF f \in won THEN w.stamps[f] ELSE v.stamps[f]]
           k == Merge(v, w).clock
<1>1. Merge(v, w) = [config |-> c, stamps |-> s, clock |-> k]
  BY DEF Merge
<1>2. k \in Nat /\ v.clock <= k /\ w.clock <= k
  BY MergeClock
<1>3. /\ v.stamps \in [Fields -> Stamps] /\ w.stamps \in [Fields -> Stamps]
      /\ v.config \in [Fields -> Values] /\ w.config \in [Fields -> Values]
      /\ v.clock \in Nat /\ w.clock \in Nat
  BY DEF Versioned, Configs
<1>4. c \in Configs /\ s \in [Fields -> Stamps]
  BY <1>3 DEF Configs
<1>5. \A f \in Fields : s[f].counter <= k
  BY <1>2, <1>3 DEF ClockCovers, Stamps
<1>6. won \subseteq Fields /\ \A f \in won : Newer(w.stamps[f], v.stamps[f])
  BY DEF Overwritten, Fields
<1>7. won = {} => s = v.stamps
  BY <1>3
<1> HIDE DEF won, c, s, k
<1>8. Merge(v, w) \in Versioned /\ ClockCovers(Merge(v, w))
  BY <1>1, <1>2, <1>4, <1>5 DEF Versioned, ClockCovers
<1>9. /\ Merge(v, w).stamps = s /\ Merge(v, w).config = c
      /\ \A f \in Fields : /\ s[f] = IF f \in won THEN w.stamps[f] ELSE v.stamps[f]
                           /\ c[f] = IF f \in won THEN w.config[f] ELSE v.config[f]
  BY <1>1 DEF s, c
<1>. QED
  BY <1>2, <1>6, <1>7, <1>8, <1>9 DEF k, won

\* A local edit keeps value and stamp of what it does not change and stamps the
\* rest beyond its clock.
LEMMA EditFacts ==
    ASSUME NEW v \in Versioned, ClockCovers(v), NEW c \in Configs, NEW n \in Nodes
    PROVE  LET a == ApplyLocal(v, c, n)
           IN /\ a \in Versioned /\ ClockCovers(a) /\ v.clock <= a.clock
              /\ a = v \/ a.clock = v.clock + 1
              /\ a = v \/ \E f \in Fields : a.stamps[f].counter = v.clock + 1
              /\ \A f \in Fields :
                    \/ a.stamps[f] = v.stamps[f] /\ a.config[f] = v.config[f]
                    \/ a.stamps[f].counter = v.clock + 1 /\ a.stamps[f].origin = n /\ a # v
<1>1. NextClock(v) = v.clock + 1 /\ v.clock \in Nat
  BY ClockIsGreatest DEF NextClock, Versioned
<1>2. ApplyLocal(v, c, n) \in Versioned /\ ClockCovers(ApplyLocal(v, c, n))
  BY LocalEditWins
<1>3. CASE c = v.config
  BY <1>1, <1>2, <1>3 DEF ApplyLocal
<1>4. CASE c # v.config
  <2> DEFINE stamp == [counter |-> v.clock + 1, origin |-> n]
             s == [f \in Fields |-> IF c[f] # v.config[f] THEN stamp ELSE v.stamps[f]]
  <2>1. ApplyLocal(v, c, n) = [config |-> c, stamps |-> s, clock |-> v.clock + 1]
    BY <1>1, <1>4 DEF ApplyLocal
  <2>2. \E f \in Fields : c[f] # v.config[f]
    BY <1>4 DEF Versioned, Configs
  <2>3. stamp.counter = v.clock + 1 /\ stamp.origin = n
    OBVIOUS
  <2>4. \A f \in Fields : s[f] = IF c[f] # v.config[f] THEN stamp ELSE v.stamps[f]
    OBVIOUS
  <2> HIDE DEF s, stamp
  <2>5. /\ ApplyLocal(v, c, n).config = c /\ ApplyLocal(v, c, n).stamps = s
        /\ ApplyLocal(v, c, n).clock = v.clock + 1
    BY <2>1
  <2>6. ApplyLocal(v, c, n) # v
    BY <1>1, <2>5
  <2>. QED
    BY <1>1, <1>2, <2>2, <2>3, <2>4, <2>5, <2>6
<1>. QED
  BY <1>3, <1>4

-----------------------------------------------------------------------------
(* Sessions and heads.                                                       *)

Phases == {"idle", "dialing", "sent", "replied", "ok", "failed"}
Carrying == {"sent", "replied"}

\* A session carries a copy exactly while a state is on its way.
LEMMA SessionFacts ==
    ASSUME NEW s \in Sessions
    PROVE  /\ s.phase \in Phases
           /\ s.phase \in Carrying => s.frame \in Versioned
           /\ s.phase \notin Carrying => s.frame = None
           /\ s.phase # "idle" => s.head \in Heads
           /\ s.phase = "idle" => s = Idle
  BY DEF Sessions, Idle, Phases, Carrying

LEMMA IdleFacts == Idle \in Sessions /\ Idle.phase = "idle" /\ Idle.frame = None
  BY DEF Sessions, Idle

\* The head of a copy.
LEMMA HeadFacts ==
    ASSUME NEW v \in Versioned
    PROVE  HeadHash(v) \in Heads /\ \A f \in SharedFields : HeadHash(v).stamps[f] = v.stamps[f]
<1>1. \A f \in SharedFields : v.config[f] \in Values /\ v.stamps[f] \in Stamps
  BY DEF Versioned, Configs, Fields
<1>. QED
  BY <1>1 DEF HeadHash, Heads

\* A session that starts, that takes a frame on board, that ends.
LEMMA DialingFacts ==
    ASSUME NEW h \in Heads
    PROVE  LET s == [phase |-> "dialing", head |-> h, frame |-> None]
           IN s \in Sessions /\ s.phase = "dialing" /\ s.head = h /\ s.frame = None
  BY DEF Sessions

Carry(s, p, v) == [s EXCEPT !.phase = p, !.frame = v]

LEMMA CarryFacts ==
    ASSUME NEW s \in Sessions, s.phase # "idle", NEW p \in Carrying, NEW v \in Versioned
    PROVE  LET t == Carry(s, p, v)
           IN t \in Sessions /\ t.phase = p /\ t.head = s.head /\ t.frame = v
<1>1. s \in [phase : Phases, head : Heads, frame : Versioned \cup {None}]
  BY DEF Sessions, Idle, Phases
<1> DEFINE t == Carry(s, p, v)
<1>2. /\ t \in [phase : Phases, head : Heads, frame : Versioned \cup {None}]
      /\ t.phase = p /\ t.head = s.head /\ t.frame = v
  BY <1>1, Zenon DEF Carry, Phases, Carrying
<1> HIDE DEF t
<1>3. t \in [phase : Carrying, head : Heads, frame : Versioned]
  BY <1>1, <1>2
<1>4. t \in Sessions
  BY <1>3 DEF Sessions, Carrying
<1>. QED
  BY <1>2, <1>4 DEF t

LEMMA EndFacts ==
    ASSUME NEW s \in Sessions, s.phase # "idle", NEW p \in {"ok", "failed"}
    PROVE  LET t == [s EXCEPT !.phase = p, !.frame = None]
           IN t \in Sessions /\ t.phase = p /\ t.head = s.head /\ t.frame = None
<1>1. s \in [phase : Phases, head : Heads, frame : Versioned \cup {None}]
  BY DEF Sessions, Idle, Phases
<1> DEFINE t == [s EXCEPT !.phase = p, !.frame = None]
<1>2. /\ t \in [phase : Phases, head : Heads, frame : Versioned \cup {None}]
      /\ t.phase = p /\ t.head = s.head /\ t.frame = None
  BY <1>1, Zenon DEF Phases, Carrying
<1> HIDE DEF t
<1>3. t \in [phase : {"ok", "failed"}, head : Heads, frame : {None}]
  BY <1>1, <1>2
<1>4. t \in Sessions
  BY <1>3 DEF Sessions
<1>. QED
  BY <1>2, <1>4 DEF t

\* Dialling starts sessions for the head of now and leaves the others alone.
LEMMA DialFacts ==
    ASSUME NEW n \in Nodes, NEW v \in Versioned, NEW confirmed, NEW backoff,
           NEW tasks \in [Nodes -> Sessions]
    PROVE  LET d == Dial(n, v, confirmed, backoff, tasks)
           IN /\ d \in [Nodes -> Sessions]
              /\ \A m \in Nodes :
                    \/ d[m] = tasks[m]
                    \/ d[m].phase = "dialing" /\ d[m].head = HeadHash(v) /\ d[m].frame = None
<1> DEFINE new == [phase |-> "dialing", head |-> HeadHash(v), frame |-> None]
           d == Dial(n, v, confirmed, backoff, tasks)
<1>1. new \in Sessions /\ new.phase = "dialing" /\ new.head = HeadHash(v) /\ new.frame = None
  BY HeadFacts, DialingFacts
<1> HIDE DEF new
<1>2. d = [m \in Nodes |-> IF /\ m \in peers[n]
                              /\ tasks[m] = Idle
                              /\ confirmed[m] # HeadHash(v)
                              /\ ~backoff[m]
                           THEN new ELSE tasks[m]]
  BY DEF Dial, new
<1>3. \A m \in Nodes : d[m] \in {new, tasks[m]}
  BY <1>2
<1>. QED
  BY <1>1, <1>2, <1>3

-----------------------------------------------------------------------------
(* What a step may do to the copies that circulate.                          *)

Breaches ==
    {"rollback", "kept_invalid", "unstamped_edit", "unwatched_edit", "stamps_lost", "save_failed"}

\* Every copy and every sidecar has a clock at least its stamps.
SoundCopies ==
    /\ \A v \in Circulating : ClockCovers(v)
    /\ \A n \in Nodes : ClockCovers(sidecar[n])

TypeInv == TypeOK /\ SoundCopies

\* n's state becomes x, and x is the only copy that is new.
Becomes(n, x) ==
    /\ versioned' = [versioned EXCEPT ![n] = x]
    /\ Circulating' \subseteq Circulating \cup {x}
    /\ breaches \subseteq breaches'

\* The sidecar is saved or not.
SavedOrNot(n, x) == sidecar' \in {sidecar, [sidecar EXCEPT ![n] = SideCar(x)]}

Keeps ==
    /\ UNCHANGED <<versioned, sidecar>>
    /\ Circulating' \subseteq Circulating
    /\ breaches \subseteq breaches'

Edited(n) ==
    \E c \in Configs : /\ Becomes(n, ApplyLocal(versioned[n], c, n))
                       /\ SavedOrNot(n, ApplyLocal(versioned[n], c, n))

\* x is the merge of w into n's state, or the rollback of it.
MergeOf(n, w, x) ==
    /\ x.stamps = Merge(versioned[n], w).stamps /\ x.clock = Merge(versioned[n], w).clock
    /\ x.config = Merge(versioned[n], w).config \/ "rollback" \in breaches'

Merged(n) ==
    \E w \in Circulating, x \in Versioned : MergeOf(n, w, x) /\ Becomes(n, x) /\ SavedOrNot(n, x)

Restarted(n) ==
    /\ loaded[n] \in Configs
    /\ Becomes(n, FromParts(loaded[n], sidecar[n])) /\ UNCHANGED sidecar
    /\ loaded[n] # versioned[n].config => "unstamped_edit" \in breaches'
    /\ sidecar[n].stamps # versioned[n].stamps => "stamps_lost" \in breaches'

\* Where a circulating copy is.
LEMMA Whereabouts ==
    ASSUME TypeOK
    PROVE  /\ Circulating \subseteq Versioned
           /\ \A n \in Nodes : versioned[n] \in Circulating
           /\ \A o \in orphans : o.state \in Circulating
           /\ \A a, b \in Nodes :
                 session[a][b].phase \in Carrying => session[a][b].frame \in Circulating
<1>1. \A a, b \in Nodes : session[a][b] \in Sessions
  BY DEF TypeOK
<1>2. \A a, b \in Nodes :
        /\ session[a][b].phase \in Carrying => session[a][b].frame \in Versioned
        /\ session[a][b].phase \notin Carrying => session[a][b].frame = None
  BY <1>1, SessionFacts
<1>3. \A n \in Nodes : versioned[n] \in Versioned
  BY DEF TypeOK
<1>4. \A o \in orphans : o.state \in Versioned
  BY DEF TypeOK
<1>5. None \notin Versioned
  BY NoneAssumption
<1>. QED
  BY <1>2, <1>3, <1>4, <1>5 DEF Circulating

\* What circulates after a step, from the parts.
LEMMA NewCirculation ==
    ASSUME TypeOK', NEW S,
           \A n \in Nodes : versioned'[n] \in S,
           \A o \in orphans' : o.state \in S,
           \A a, b \in Nodes : session'[a][b].phase \in Carrying => session'[a][b].frame \in S
    PROVE  Circulating' \subseteq S
<1>1. \A a, b \in Nodes : session'[a][b] \in Sessions
  BY DEF TypeOK
<1>2. \A a, b \in Nodes : session'[a][b].phase \notin Carrying => session'[a][b].frame = None
  BY <1>1, SessionFacts
<1>. QED
  BY <1>2 DEF Circulating

\* handle_sync_op, Merge.
LEMMA MergeHandler ==
    ASSUME TypeInv, NEW n \in Nodes, NEW w \in Circulating, HandleMerge(n, w)
    PROVE  /\ versioned' \in [Nodes -> Versioned] /\ config' \in [Nodes -> Configs]
           /\ toml' \in [Nodes -> Configs \cup {BadFile}] /\ sidecar' \in [Nodes -> SideCars]
           /\ fs_event' \in [Nodes -> BOOLEAN] /\ breaches' \subseteq Breaches
           /\ breaches \subseteq breaches' /\ UNCHANGED loaded
           /\ \E x \in Versioned : /\ MergeOf(n, w, x) /\ SavedOrNot(n, x)
                                    /\ versioned' = [versioned EXCEPT ![n] = x]
<1> DEFINE v == Merge(versioned[n], w)
<1>1. versioned[n] \in Versioned /\ w \in Versioned /\ ClockCovers(versioned[n]) /\ ClockCovers(w)
  BY Whereabouts DEF TypeInv, SoundCopies
<1>2. v \in Versioned
  BY <1>1, MergeFacts
<1>3. ValidConfigs[n] \subseteq Configs
  BY SyncAssumption
<1>4. SideCar(v) \in SideCars /\ v.config \in Configs
  BY <1>2 DEF SideCar, SideCars, Versioned
<1>5. /\ versioned \in [Nodes -> Versioned] /\ config \in [Nodes -> Configs]
      /\ toml \in [Nodes -> Configs \cup {BadFile}] /\ sidecar \in [Nodes -> SideCars]
      /\ fs_event \in [Nodes -> BOOLEAN] /\ breaches \subseteq Breaches
  BY DEF TypeInv, TypeOK, Breaches
<1> HIDE DEF v
<1>6. CASE /\ Overwritten(versioned[n], w) = {}
           /\ versioned' = [versioned EXCEPT ![n] = v]
           /\ UNCHANGED <<config, files, breaches>>
  BY <1>2, <1>5, <1>6, Zenon DEF files, MergeOf, SavedOrNot, v
<1>7. CASE /\ versioned' = [versioned EXCEPT ![n] = v]
           /\ config' = [config EXCEPT ![n] = v.config]
           /\ \E failed \in SUBSET {"toml", "sidecar"} :
                /\ MayFail(n, failed)
                /\ toml' = IF "toml" \in failed THEN toml ELSE [toml EXCEPT ![n] = v.config]
                /\ sidecar' = IF "sidecar" \in failed THEN sidecar
                              ELSE [sidecar EXCEPT ![n] = SideCar(v)]
                /\ fs_event' = [fs_event EXCEPT ![n] = @ \/ failed # {"toml", "sidecar"}]
                /\ breaches' = IF failed = {"toml", "sidecar"} THEN breaches \cup {"save_failed"}
                               ELSE breaches
           /\ UNCHANGED loaded
  <2>1. PICK failed \in SUBSET {"toml", "sidecar"} :
                /\ toml' = IF "toml" \in failed THEN toml ELSE [toml EXCEPT ![n] = v.config]
                /\ sidecar' = IF "sidecar" \in failed THEN sidecar
                              ELSE [sidecar EXCEPT ![n] = SideCar(v)]
                /\ fs_event' = [fs_event EXCEPT ![n] = @ \/ failed # {"toml", "sidecar"}]
                /\ breaches' = IF failed = {"toml", "sidecar"} THEN breaches \cup {"save_failed"}
                               ELSE breaches
    BY <1>7
  <2>2. fs_event' \in [Nodes -> BOOLEAN]
    BY <1>5, <2>1
  <2>3. breaches' \subseteq Breaches /\ breaches \subseteq breaches'
    BY <1>5, <2>1 DEF Breaches
  <2>4. toml' \in [Nodes -> Configs \cup {BadFile}]
    BY <1>4, <1>5, <2>1
  <2>5. sidecar' \in [Nodes -> SideCars] /\ SavedOrNot(n, v)
    BY <1>4, <1>5, <2>1 DEF SavedOrNot
  <2>6. versioned' \in [Nodes -> Versioned] /\ config' \in [Nodes -> Configs]
    BY <1>2, <1>4, <1>5, <1>7
  <2>. QED
    BY <1>2, <1>7, <2>2, <2>3, <2>4, <2>5, <2>6, Zenon DEF MergeOf, v
<1>8. CASE /\ toml[n] \in ValidConfigs[n]
           /\ versioned' = [versioned EXCEPT ![n] = [v EXCEPT !.config = toml[n]]]
           /\ config' = [config EXCEPT ![n] = toml[n]]
           /\ breaches' = breaches \cup {"rollback"}
           /\ UNCHANGED files
  <2> DEFINE x == [v EXCEPT !.config = toml[n]]
  <2>1. x \in Versioned /\ x.stamps = v.stamps /\ x.clock = v.clock
    BY <1>2, <1>3, <1>8 DEF Versioned
  <2> HIDE DEF x
  <2>2. versioned' = [versioned EXCEPT ![n] = x]
    BY <1>8 DEF x
  <2>3. versioned' \in [Nodes -> Versioned] /\ config' \in [Nodes -> Configs]
    BY <1>3, <1>5, <1>8, <2>1, <2>2
  <2>4. breaches' \subseteq Breaches /\ breaches \subseteq breaches' /\ "rollback" \in breaches'
    BY <1>5, <1>8 DEF Breaches
  <2>. QED
    BY <1>5, <1>8, <2>1, <2>2, <2>3, <2>4, Zenon DEF files, MergeOf, SavedOrNot, v
<1>9. CASE /\ versioned' = [versioned EXCEPT ![n] = v]
           /\ breaches' = breaches \cup {"kept_invalid"}
           /\ UNCHANGED config
           /\ UNCHANGED files
  <2>1. breaches' \subseteq Breaches /\ breaches \subseteq breaches'
    BY <1>5, <1>9 DEF Breaches
  <2>. QED
    BY <1>2, <1>5, <1>9, <2>1, Zenon DEF files, MergeOf, SavedOrNot, v
<1>. QED
  BY <1>6, <1>7, <1>8, <1>9 DEF HandleMerge, v

-----------------------------------------------------------------------------
(* What a step may do to the session from a to b and to what a has noted of  *)
(* it.                                                                       *)

Exchange(a, b) ==
    \/ session'[a][b] = session[a][b]
    \/ session'[a][b].phase \in {"idle", "failed"}
    \/ session'[a][b].phase = "dialing" /\ session'[a][b].head = HeadHash(versioned'[a])
    \/ /\ session[a][b].phase = "dialing" /\ session'[a][b].phase = "sent"
       /\ session'[a][b].head = session[a][b].head /\ session'[a][b].frame = versioned[a]
    \/ /\ session[a][b].phase = "sent" /\ session'[a][b].phase = "replied"
       /\ session'[a][b].head = session[a][b].head
       /\ versioned'[b].stamps = Merge(versioned[b], session[a][b].frame).stamps
    \/ /\ session[a][b].phase = "replied" /\ session'[a][b].phase = "ok"
       /\ session'[a][b].head = session[a][b].head

Notes(a, b) ==
    \/ sync_confirmed'[a][b] \in {sync_confirmed[a][b], None}
    \/ session[a][b].phase = "ok" /\ sync_confirmed'[a][b] = session[a][b].head

Accounted ==
    /\ TypeOK'
    /\ Keeps \/ \E n \in Nodes : Edited(n) \/ Merged(n) \/ Restarted(n)
    /\ \A a, b \in Nodes : Exchange(a, b) /\ Notes(a, b)

\* push_to_trusted_peers.
LEMMA PushFacts ==
    ASSUME TypeOK, NEW n \in Nodes, NEW v \in Versioned, PushToTrustedPeers(n, v)
    PROVE  /\ session' \in [Nodes -> [Nodes -> Sessions]]
           /\ sync_confirmed' \in [Nodes -> [Nodes -> Heads \cup {None}]]
           /\ sync_backoff' \in [Nodes -> [Nodes -> BOOLEAN]]
           /\ UNCHANGED peers
           /\ \A a, b \in Nodes :
                 /\ \/ session'[a][b] = session[a][b]
                    \/ /\ a = n /\ session'[a][b].phase = "dialing"
                       /\ session'[a][b].head = HeadHash(v)
                 /\ sync_confirmed'[a][b] \in {sync_confirmed[a][b], None}
<1>1. session \in [Nodes -> [Nodes -> Sessions]] /\ session[n] \in [Nodes -> Sessions]
  BY DEF TypeOK
<1> DEFINE d == Dial(n, v, NoneConfirmed, NoBackoff, session[n])
<1>2. /\ d \in [Nodes -> Sessions]
      /\ \A m \in Nodes : \/ d[m] = session[n][m]
                          \/ d[m].phase = "dialing" /\ d[m].head = HeadHash(v) /\ d[m].frame = None
  BY <1>1, DialFacts
<1> HIDE DEF d
<1>3. session' = [session EXCEPT ![n] = d]
  BY DEF PushToTrustedPeers, d
<1>4. session' \in [Nodes -> [Nodes -> Sessions]]
  BY <1>1, <1>2, <1>3
<1>5. /\ sync_confirmed' = [sync_confirmed EXCEPT ![n] = NoneConfirmed]
      /\ NoneConfirmed \in [Nodes -> Heads \cup {None}] /\ \A m \in Nodes : NoneConfirmed[m] = None
      /\ sync_confirmed \in [Nodes -> [Nodes -> Heads \cup {None}]]
  BY DEF PushToTrustedPeers, NoneConfirmed, TypeOK
<1>6. /\ sync_backoff' = [sync_backoff EXCEPT ![n] = NoBackoff]
      /\ NoBackoff \in [Nodes -> BOOLEAN]
      /\ sync_backoff \in [Nodes -> [Nodes -> BOOLEAN]]
  BY DEF PushToTrustedPeers, NoBackoff, TypeOK
<1>7. sync_confirmed' \in [Nodes -> [Nodes -> Heads \cup {None}]]
  BY <1>5
<1>8. sync_backoff' \in [Nodes -> [Nodes -> BOOLEAN]]
  BY <1>6
<1>9. \A a, b \in Nodes : sync_confirmed'[a][b] \in {sync_confirmed[a][b], None}
  BY <1>5
<1>10. \A a, b \in Nodes :
          \/ session'[a][b] = session[a][b]
          \/ /\ a = n /\ session'[a][b].phase = "dialing"
             /\ session'[a][b].head = HeadHash(v)
  BY <1>1, <1>2, <1>3
<1>. QED
  BY <1>4, <1>7, <1>8, <1>9, <1>10 DEF PushToTrustedPeers

\* apply_local_edit.
LEMMA EditHandler ==
    ASSUME TypeInv, NEW n \in Nodes, NEW c \in Configs, ApplyLocalEdit(n, c)
    PROVE  LET x == ApplyLocal(versioned[n], c, n)
           IN /\ versioned' \in [Nodes -> Versioned] /\ config' \in [Nodes -> Configs]
              /\ sidecar' \in [Nodes -> SideCars]
              /\ session' \in [Nodes -> [Nodes -> Sessions]]
              /\ sync_confirmed' \in [Nodes -> [Nodes -> Heads \cup {None}]]
              /\ sync_backoff' \in [Nodes -> [Nodes -> BOOLEAN]]
              /\ UNCHANGED peers
              /\ versioned' = [versioned EXCEPT ![n] = x] /\ x \in Versioned
              /\ SavedOrNot(n, x)
              /\ \A a, b \in Nodes :
                    /\ \/ session'[a][b] = session[a][b]
                       \/ /\ a = n /\ session'[a][b].phase = "dialing"
                          /\ session'[a][b].head = HeadHash(x)
                    /\ sync_confirmed'[a][b] \in {sync_confirmed[a][b], None}
<1> DEFINE x == ApplyLocal(versioned[n], c, n)
<1>1. versioned[n] \in Versioned /\ ClockCovers(versioned[n])
  BY Whereabouts DEF TypeInv, SoundCopies
<1>2. x \in Versioned
  BY <1>1, EditFacts
<1>3. SideCar(x) \in SideCars
  BY <1>2 DEF SideCar, SideCars, Versioned
<1> HIDE DEF x
<1>4. versioned' = [versioned EXCEPT ![n] = x] /\ config' = [config EXCEPT ![n] = c]
  BY DEF ApplyLocalEdit, x
<1>5. versioned' \in [Nodes -> Versioned] /\ config' \in [Nodes -> Configs]
  BY <1>2, <1>4 DEF TypeInv, TypeOK
<1>6. CASE UNCHANGED <<sidecar, dialing>>
  BY <1>2, <1>4, <1>5, <1>6 DEF dialing, TypeInv, TypeOK, SavedOrNot, x
<1>7. CASE /\ \E failed \in SUBSET {"sidecar"} :
                /\ MayFail(n, failed)
                /\ sidecar' = IF failed = {} THEN [sidecar EXCEPT ![n] = SideCar(x)] ELSE sidecar
           /\ PushToTrustedPeers(n, x)
  <2>1. sidecar' \in {sidecar, [sidecar EXCEPT ![n] = SideCar(x)]}
    BY <1>7
  <2>2. sidecar' \in [Nodes -> SideCars]
    BY <1>3, <2>1 DEF TypeInv, TypeOK
  <2>. QED
    BY <1>2, <1>4, <1>5, <1>7, <2>1, <2>2, PushFacts DEF TypeInv, SavedOrNot, x
<1>. QED
  BY <1>6, <1>7 DEF ApplyLocalEdit, x

\* A step in which a machine edits.
LEMMA AccountedEdit ==
    ASSUME TypeInv, NEW n \in Nodes, NEW c \in Configs, ApplyLocalEdit(n, c),
           UNCHANGED <<up, loaded, orphans, breaches>>,
           toml' \in [Nodes -> Configs \cup {BadFile}], fs_event' \in [Nodes -> BOOLEAN]
    PROVE  Accounted
<1> DEFINE x == ApplyLocal(versioned[n], c, n)
<1>1. /\ versioned' = [versioned EXCEPT ![n] = x] /\ x \in Versioned /\ SavedOrNot(n, x)
      /\ \A a, b \in Nodes :
            /\ \/ session'[a][b] = session[a][b]
               \/ /\ a = n /\ session'[a][b].phase = "dialing"
                  /\ session'[a][b].head = HeadHash(x)
            /\ sync_confirmed'[a][b] \in {sync_confirmed[a][b], None}
  BY EditHandler
<1>2. TypeOK'
  BY EditHandler DEF TypeInv, TypeOK
<1>3. versioned \in [Nodes -> Versioned]
  BY DEF TypeInv, TypeOK
<1> HIDE DEF x
<1>4. versioned'[n] = x /\ \A m \in Nodes : versioned'[m] \in Circulating \cup {x}
  BY <1>1, <1>3, Whereabouts DEF TypeInv
<1>5. \A o \in orphans' : o.state \in Circulating \cup {x}
  BY Whereabouts DEF TypeInv
<1>6. \A a, b \in Nodes : session'[a][b].phase \in Carrying => session'[a][b].frame \in Circulating \cup {x}
  BY <1>1, Whereabouts DEF TypeInv, Carrying
<1>7. Circulating' \subseteq Circulating \cup {x}
  BY <1>2, <1>4, <1>5, <1>6, NewCirculation, Zenon
<1>8. Edited(n)
  BY <1>1, <1>7, ZenonT(30) DEF Edited, Becomes, x
<1>9. ASSUME NEW a \in Nodes, NEW b \in Nodes
      PROVE  Exchange(a, b) /\ Notes(a, b)
  <2>1. Notes(a, b)
    BY <1>1 DEF Notes
  <2>2. CASE session'[a][b] = session[a][b]
    BY <2>1, <2>2 DEF Exchange
  <2>3. CASE a = n /\ session'[a][b].phase = "dialing" /\ session'[a][b].head = HeadHash(x)
    <3>1. HeadHash(versioned'[a]) = HeadHash(x)
      BY <1>4, <2>3
    <3>. QED
      BY <2>1, <2>3, <3>1 DEF Exchange
  <2>. QED
    BY <1>1, <2>2, <2>3
<1>. QED
  BY <1>2, <1>8, <1>9 DEF Accounted

\* A step in which a machine merges.
LEMMA AccountedMerge ==
    ASSUME TypeInv, NEW n \in Nodes, NEW w \in Circulating, HandleMerge(n, w),
           UNCHANGED <<up, peers, sync_confirmed, sync_backoff>>, orphans' \subseteq orphans,
           session' \in [Nodes -> [Nodes -> Sessions]],
           \A a, b \in Nodes : session'[a][b].phase \in Carrying =>
               session'[a][b].frame \in Circulating \cup {versioned'[n]},
           \A a, b \in Nodes : Exchange(a, b)
    PROVE  Accounted
<1>1. PICK x \in Versioned : /\ MergeOf(n, w, x) /\ SavedOrNot(n, x)
                             /\ versioned' = [versioned EXCEPT ![n] = x]
  BY MergeHandler
<1>2. TypeOK'
  BY MergeHandler DEF TypeInv, TypeOK, Breaches
<1>3. versioned \in [Nodes -> Versioned]
  BY DEF TypeInv, TypeOK
<1>4. versioned'[n] = x /\ \A m \in Nodes : versioned'[m] \in Circulating \cup {x}
  BY <1>1, <1>3, Whereabouts DEF TypeInv
<1>5. \A o \in orphans' : o.state \in Circulating \cup {x}
  BY Whereabouts DEF TypeInv
<1>6. Circulating' \subseteq Circulating \cup {x}
  BY <1>2, <1>4, <1>5, NewCirculation, Zenon
<1>7. Merged(n)
  BY <1>1, <1>6, MergeHandler, ZenonT(30) DEF Merged, Becomes
<1>. QED
  BY <1>2, <1>7 DEF Accounted, Notes

\* A step that neither edits nor merges.
LEMMA AccountedKeep ==
    ASSUME TypeInv, TypeOK', UNCHANGED <<versioned, sidecar, breaches>>,
           \A o \in orphans' : o.state \in Circulating,
           \A a, b \in Nodes :
               session'[a][b].phase \in Carrying => session'[a][b].frame \in Circulating,
           \A a, b \in Nodes : Exchange(a, b) /\ Notes(a, b)
    PROVE  Accounted
<1>1. \A n \in Nodes : versioned'[n] \in Circulating
  BY Whereabouts DEF TypeInv
<1>2. Circulating' \subseteq Circulating
  BY <1>1, NewCirculation
<1>. QED
  BY <1>2 DEF Accounted, Keeps

\* Merges left in a queue are of copies that circulate.
LEMMA LeftBehindFacts ==
    ASSUME TypeInv, NEW a \in Nodes, NEW b \in Nodes, NEW o \in LeftBehind(a, b)
    PROVE  o \in [at : Nodes, state : Versioned] /\ o.state \in Circulating
<1>1. session[a][b].phase \in Carrying => session[a][b].frame \in Circulating
  BY Whereabouts DEF TypeInv
<1>2. Circulating \subseteq Versioned
  BY Whereabouts DEF TypeInv
<1>3. CASE session[a][b].phase = "sent"
  BY <1>1, <1>2, <1>3 DEF LeftBehind, Carrying
<1>4. CASE session[a][b].phase = "replied"
  BY <1>1, <1>2, <1>4 DEF LeftBehind, Carrying
<1>5. CASE session[a][b].phase \notin Carrying
  BY <1>5 DEF LeftBehind, Carrying
<1>. QED
  BY <1>3, <1>4, <1>5 DEF Carrying

LEMMA LeaveFacts ==
    ASSUME TypeInv, NEW possible, Leave(possible),
           \A o \in possible : o \in [at : Nodes, state : Versioned] /\ o.state \in Circulating
    PROVE  orphans' \subseteq [at : Nodes, state : Versioned] /\ \A o \in orphans' : o.state \in Circulating
<1>1. orphans' \subseteq orphans \cup possible
  BY DEF Leave
<1>2. orphans \subseteq [at : Nodes, state : Versioned] /\ \A o \in orphans : o.state \in Circulating
  BY Whereabouts DEF TypeInv, TypeOK
<1>. QED
  BY <1>1, <1>2

-----------------------------------------------------------------------------
\* The steps of one session.
LEMMA AccountedSession ==
    ASSUME TypeInv, NEW a \in Nodes, NEW b \in Nodes,
           SendState(a, b) \/ ReceiveState(a, b) \/ FinishSession(a, b) \/ FailSession(a, b)
    PROVE  Accounted
<1>1. session \in [Nodes -> [Nodes -> Sessions]] /\ session[a][b] \in Sessions
  BY DEF TypeInv, TypeOK
<1>2. \A m \in Nodes : versioned[m] \in Circulating /\ versioned[m] \in Versioned
  BY Whereabouts DEF TypeInv
<1>3. \A c, d \in Nodes : session[c][d].phase \in Carrying => session[c][d].frame \in Circulating
  BY Whereabouts DEF TypeInv
<1>4. \A o \in orphans : o.state \in Circulating
  BY Whereabouts DEF TypeInv
<1>5. ASSUME NEW t \in Sessions, session' = [session EXCEPT ![a][b] = t]
      PROVE  /\ session' \in [Nodes -> [Nodes -> Sessions]] /\ session'[a][b] = t
             /\ \A c, d \in Nodes : <<c, d>> # <<a, b>> => session'[c][d] = session[c][d]
  BY <1>1, <1>5
<1>6. CASE SendState(a, b)
  <2> DEFINE t == Carry(session[a][b], "sent", versioned[a])
  <2>1. session[a][b].phase = "dialing" /\ session' = [session EXCEPT ![a][b] = t]
    BY <1>1, <1>6, Zenon DEF SendState, Carry
  <2>2. t \in Sessions /\ t.phase = "sent" /\ t.head = session[a][b].head /\ t.frame = versioned[a]
    <3>1. "sent" \in Carrying /\ session[a][b].phase # "idle" /\ versioned[a] \in Versioned
      BY <1>2, <2>1 DEF Carrying
    <3>. QED
      BY <1>1, <3>1, CarryFacts, ZenonT(30)
  <2> HIDE DEF t
  <2>3. /\ session' \in [Nodes -> [Nodes -> Sessions]] /\ session'[a][b] = t
        /\ \A c, d \in Nodes : <<c, d>> # <<a, b>> => session'[c][d] = session[c][d]
    BY <1>5, <2>1, <2>2, Zenon
  <2>4. UNCHANGED <<up, config, versioned, files, peers, sync_confirmed, sync_backoff, orphans, breaches>>
    BY <1>6 DEF SendState
  <2>5. TypeOK'
    BY <2>3, <2>4 DEF TypeInv, TypeOK, files
  <2>6. \A c, d \in Nodes : session'[c][d].phase \in Carrying => session'[c][d].frame \in Circulating
    BY <1>2, <1>3, <2>2, <2>3
  <2>7. ASSUME NEW c \in Nodes, NEW d \in Nodes
        PROVE  Exchange(c, d) /\ Notes(c, d)
    <3>1. Notes(c, d)
      BY <2>4 DEF Notes
    <3>2. CASE <<c, d>> = <<a, b>>
      BY <2>1, <2>2, <2>3, <3>1, <3>2 DEF Exchange
    <3>3. CASE <<c, d>> # <<a, b>>
      BY <2>3, <3>1, <3>3 DEF Exchange
    <3>. QED
      BY <3>2, <3>3
  <2>8. UNCHANGED <<versioned, sidecar, breaches>> /\ \A o \in orphans' : o.state \in Circulating
    BY <1>4, <2>4 DEF files
  <2>. QED
    BY <2>5, <2>6, <2>7, <2>8, AccountedKeep
<1>7. CASE ReceiveState(a, b)
  <2> DEFINE w == session[a][b].frame
             t == Carry(session[a][b], "replied", versioned'[b])
  <2>1. /\ session[a][b].phase = "sent" /\ session' = [session EXCEPT ![a][b] = t]
        /\ HandleMerge(b, w)
    BY <1>1, <1>7, Zenon DEF ReceiveState, Carry
  <2>2. w \in Circulating
    BY <1>3, <2>1 DEF Carrying
  <2>3. PICK x \in Versioned : MergeOf(b, w, x) /\ versioned' = [versioned EXCEPT ![b] = x]
    BY <2>1, <2>2, MergeHandler
  <2>4. versioned'[b] = x
    BY <2>3 DEF TypeInv, TypeOK
  <2>5. t \in Sessions /\ t.phase = "replied" /\ t.head = session[a][b].head /\ t.frame = x
    <3>1. "replied" \in Carrying /\ session[a][b].phase # "idle" /\ versioned'[b] \in Versioned
      BY <2>1, <2>4 DEF Carrying
    <3>2. t \in Sessions /\ t.phase = "replied" /\ t.head = session[a][b].head /\ t.frame = versioned'[b]
      BY <1>1, <3>1, CarryFacts, SMTT(30)
    <3>. QED
      BY <2>4, <3>2
  <2> HIDE DEF t
  <2>6. /\ session' \in [Nodes -> [Nodes -> Sessions]] /\ session'[a][b] = t
        /\ \A c, d \in Nodes : <<c, d>> # <<a, b>> => session'[c][d] = session[c][d]
    BY <1>5, <2>1, <2>5, ZenonT(30)
  <2>7. \A c, d \in Nodes : session'[c][d].phase \in Carrying =>
            session'[c][d].frame \in Circulating \cup {versioned'[b]}
    BY <1>3, <2>4, <2>5, <2>6
  <2>8. ASSUME NEW c \in Nodes, NEW d \in Nodes
        PROVE  Exchange(c, d)
    <3>1. CASE <<c, d>> = <<a, b>>
      <4>1. c = a /\ d = b
        BY <3>1
      <4>2. x.stamps = Merge(versioned[b], w).stamps
        BY <2>3 DEF MergeOf
      <4>. QED
        BY <2>1, <2>4, <2>5, <2>6, <4>1, <4>2 DEF Exchange
    <3>2. CASE <<c, d>> # <<a, b>>
      BY <2>6, <3>2 DEF Exchange
    <3>. QED
      BY <3>1, <3>2
  <2>9. UNCHANGED <<up, peers, sync_confirmed, sync_backoff>> /\ orphans' \subseteq orphans
    BY <1>7 DEF ReceiveState
  <2>. QED
    BY <2>1, <2>2, <2>6, <2>7, <2>8, <2>9, AccountedMerge
<1>8. CASE FinishSession(a, b)
  <2> DEFINE w == session[a][b].frame
             t == [session[a][b] EXCEPT !.phase = "ok", !.frame = None]
  <2>1. /\ session[a][b].phase = "replied" /\ session' = [session EXCEPT ![a][b] = t]
        /\ HandleMerge(a, w)
    BY <1>1, <1>8, Zenon DEF FinishSession
  <2>2. w \in Circulating
    BY <1>3, <2>1 DEF Carrying
  <2>3. t \in Sessions /\ t.phase = "ok" /\ t.head = session[a][b].head /\ t.frame = None
    BY <1>1, <2>1, EndFacts
  <2> HIDE DEF t
  <2>4. /\ session' \in [Nodes -> [Nodes -> Sessions]] /\ session'[a][b] = t
        /\ \A c, d \in Nodes : <<c, d>> # <<a, b>> => session'[c][d] = session[c][d]
    BY <1>5, <2>1, <2>3, Zenon
  <2>5. \A c, d \in Nodes : session'[c][d].phase \in Carrying =>
            session'[c][d].frame \in Circulating \cup {versioned'[a]}
    BY <1>3, <2>3, <2>4 DEF Carrying
  <2>6. ASSUME NEW c \in Nodes, NEW d \in Nodes
        PROVE  Exchange(c, d)
    <3>1. CASE <<c, d>> = <<a, b>>
      BY <2>1, <2>3, <2>4, <3>1 DEF Exchange
    <3>2. CASE <<c, d>> # <<a, b>>
      BY <2>4, <3>2 DEF Exchange
    <3>. QED
      BY <3>1, <3>2
  <2>7. UNCHANGED <<up, peers, sync_confirmed, sync_backoff>> /\ orphans' \subseteq orphans
    BY <1>8 DEF FinishSession
  <2>. QED
    BY <2>1, <2>2, <2>4, <2>5, <2>6, <2>7, AccountedMerge
<1>9. CASE FailSession(a, b)
  <2> DEFINE t == [session[a][b] EXCEPT !.phase = "failed", !.frame = None]
  <2>1. session[a][b].phase # "idle" /\ session' = [session EXCEPT ![a][b] = t]
    BY <1>1, <1>9, Zenon DEF FailSession, InFlight
  <2>2. t \in Sessions /\ t.phase = "failed" /\ t.frame = None
    BY <1>1, <2>1, EndFacts
  <2> HIDE DEF t
  <2>3. /\ session' \in [Nodes -> [Nodes -> Sessions]] /\ session'[a][b] = t
        /\ \A c, d \in Nodes : <<c, d>> # <<a, b>> => session'[c][d] = session[c][d]
    BY <1>5, <2>1, <2>2, Zenon
  <2>4. UNCHANGED <<up, config, versioned, files, peers, sync_confirmed, sync_backoff, breaches>>
    BY <1>9 DEF FailSession
  <2>5. /\ orphans' \subseteq [at : Nodes, state : Versioned]
        /\ \A o \in orphans' : o.state \in Circulating
    <3>1. Leave(LeftBehind(a, b))
      BY <1>9 DEF FailSession
    <3>2. \A o \in LeftBehind(a, b) : o \in [at : Nodes, state : Versioned] /\ o.state \in Circulating
      BY LeftBehindFacts
    <3>. QED
      BY <3>1, <3>2, LeaveFacts
  <2>6. TypeOK'
    BY <2>3, <2>4, <2>5 DEF TypeInv, TypeOK, files
  <2>7. \A c, d \in Nodes : session'[c][d].phase \in Carrying => session'[c][d].frame \in Circulating
    BY <1>3, <2>2, <2>3 DEF Carrying
  <2>8. \A c, d \in Nodes : Exchange(c, d) /\ Notes(c, d)
    BY <2>2, <2>3, <2>4 DEF Exchange, Notes
  <2>9. UNCHANGED <<versioned, sidecar, breaches>>
    BY <2>4 DEF files
  <2>. QED
    BY <2>5, <2>6, <2>7, <2>8, <2>9, AccountedKeep
<1>. QED
  BY <1>6, <1>7, <1>8, <1>9

\* Edits, the watcher and queued merges.
LEMMA AccountedLocal ==
    ASSUME TypeInv,
           \/ \E n \in Nodes, c \in Configs \cup {BadFile} : EditFile(n, c)
           \/ \E n \in Nodes, c \in Configs : SetConfig(n, c)
           \/ \E n \in Nodes : HandleConfigChanged(n)
           \/ \E o \in orphans : MergeOrphan(o)
    PROVE  Accounted
<1>1. \A a, b \in Nodes : session[a][b].phase \in Carrying => session[a][b].frame \in Circulating
  BY Whereabouts DEF TypeInv
<1>2. \A o \in orphans : o.state \in Circulating
  BY Whereabouts DEF TypeInv
<1>3. toml \in [Nodes -> Configs \cup {BadFile}] /\ fs_event \in [Nodes -> BOOLEAN] /\ up \in [Nodes -> BOOLEAN]
  BY DEF TypeInv, TypeOK
<1>4. ASSUME NEW n \in Nodes, NEW c \in Configs \cup {BadFile}, EditFile(n, c)
      PROVE  Accounted
  <2>1. toml' = [toml EXCEPT ![n] = c] /\ fs_event' = [fs_event EXCEPT ![n] = up[n]]
    BY <1>4 DEF EditFile
  <2>2. toml' \in [Nodes -> Configs \cup {BadFile}] /\ fs_event' \in [Nodes -> BOOLEAN]
    BY <1>3, <2>1
  <2>3. UNCHANGED <<up, config, versioned, sidecar, loaded, dialing, orphans, breaches>>
    BY <1>4 DEF EditFile
  <2>4. TypeOK'
    BY <2>2, <2>3 DEF TypeInv, TypeOK, dialing
  <2>5. \A a, b \in Nodes : Exchange(a, b) /\ Notes(a, b)
    BY <2>3 DEF Exchange, Notes, dialing
  <2>6. /\ \A a, b \in Nodes : session'[a][b].phase \in Carrying => session'[a][b].frame \in Circulating
        /\ \A o \in orphans' : o.state \in Circulating
        /\ UNCHANGED <<versioned, sidecar, breaches>>
    BY <1>1, <1>2, <2>3 DEF dialing
  <2>. QED
    BY <2>4, <2>5, <2>6, AccountedKeep
<1>5. ASSUME NEW n \in Nodes, NEW c \in Configs, SetConfig(n, c)
      PROVE  Accounted
  <2>1. toml' = [toml EXCEPT ![n] = c] /\ fs_event' = [fs_event EXCEPT ![n] = TRUE]
    BY <1>5 DEF SetConfig
  <2>2. toml' \in [Nodes -> Configs \cup {BadFile}] /\ fs_event' \in [Nodes -> BOOLEAN]
    BY <1>3, <2>1
  <2>3. ApplyLocalEdit(n, c) /\ UNCHANGED <<up, loaded, orphans, breaches>>
    BY <1>5 DEF SetConfig
  <2>. QED
    BY <2>2, <2>3, AccountedEdit
<1>6. ASSUME NEW n \in Nodes, HandleConfigChanged(n)
      PROVE  Accounted
  <2>1. UNCHANGED <<up, toml, loaded, orphans, breaches>>
    BY <1>6 DEF HandleConfigChanged
  <2>2. CASE toml[n] \in ValidConfigs[n] \ {config[n]}
    <3>1. toml[n] \in Configs
      BY <2>2, SyncAssumption
    <3>2. ApplyLocalEdit(n, toml[n]) /\ fs_event' = [fs_event EXCEPT ![n] = sidecar'[n] # sidecar[n]]
      BY <1>6, <2>2 DEF HandleConfigChanged
    <3>3. fs_event' \in [Nodes -> BOOLEAN]
      BY <1>3, <3>2
    <3>. QED
      BY <1>3, <2>1, <3>1, <3>2, <3>3, AccountedEdit
  <2>3. CASE toml[n] \notin ValidConfigs[n] \ {config[n]}
    <3>1. fs_event' = [fs_event EXCEPT ![n] = FALSE] /\ UNCHANGED <<config, versioned, sidecar, dialing>>
      BY <1>6, <2>3 DEF HandleConfigChanged
    <3>2. fs_event' \in [Nodes -> BOOLEAN]
      BY <1>3, <3>1
    <3>3. TypeOK'
      BY <2>1, <3>1, <3>2 DEF TypeInv, TypeOK, dialing
    <3>4. \A a, b \in Nodes : Exchange(a, b) /\ Notes(a, b)
      BY <3>1 DEF Exchange, Notes, dialing
    <3>5. /\ \A a, b \in Nodes : session'[a][b].phase \in Carrying => session'[a][b].frame \in Circulating
          /\ \A o \in orphans' : o.state \in Circulating
          /\ UNCHANGED <<versioned, sidecar, breaches>>
      BY <1>1, <1>2, <2>1, <3>1 DEF dialing
    <3>. QED
      BY <3>3, <3>4, <3>5, AccountedKeep
  <2>. QED
    BY <2>2, <2>3
<1>7. ASSUME NEW o \in orphans, MergeOrphan(o)
      PROVE  Accounted
  <2>1. o.at \in Nodes /\ o.state \in Circulating
    BY <1>2 DEF TypeInv, TypeOK
  <2>2. HandleMerge(o.at, o.state) /\ UNCHANGED <<up, dialing>> /\ orphans' \subseteq orphans
    BY <1>7 DEF MergeOrphan
  <2>3. session' \in [Nodes -> [Nodes -> Sessions]] /\ \A a, b \in Nodes : Exchange(a, b)
    BY <2>2 DEF TypeInv, TypeOK, dialing, Exchange
  <2>. QED
    BY <1>1, <2>1, <2>2, <2>3, AccountedMerge DEF dialing
<1>. QED
  BY <1>4, <1>5, <1>6, <1>7

\* The tick, the retry delay and discovery.
LEMMA AccountedDialling ==
    ASSUME TypeInv, NEW n \in Nodes, NEW m \in Nodes,
           \/ ReconcileSyncSessions(n) \/ BackoffExpires(n, m)
           \/ PeerFound(n, m) \/ PeerLost(n, m)
    PROVE  Accounted
<1>1. \A a, b \in Nodes : session[a][b].phase \in Carrying => session[a][b].frame \in Circulating
  BY Whereabouts DEF TypeInv
<1>2. \A o \in orphans : o.state \in Circulating
  BY Whereabouts DEF TypeInv
<1>3. versioned[n] \in Versioned
  BY DEF TypeInv, TypeOK
<1>4. /\ session \in [Nodes -> [Nodes -> Sessions]] /\ session[n] \in [Nodes -> Sessions]
      /\ sync_confirmed \in [Nodes -> [Nodes -> Heads \cup {None}]]
      /\ sync_backoff \in [Nodes -> [Nodes -> BOOLEAN]]
      /\ peers \in [Nodes -> SUBSET Nodes]
  BY DEF TypeInv, TypeOK
<1>5. CASE ReconcileSyncSessions(n)
  <2> DEFINE confirmed == [b \in Nodes |->
                 IF session[n][b].phase = "ok" THEN session[n][b].head ELSE sync_confirmed[n][b]]
             backoff == [b \in Nodes |->
                 CASE session[n][b].phase = "ok" -> FALSE
                   [] session[n][b].phase = "failed" -> TRUE
                   [] OTHER -> sync_backoff[n][b]]
             tasks == [b \in Nodes |->
                 IF session[n][b].phase \in {"ok", "failed"} THEN Idle ELSE session[n][b]]
             d == Dial(n, versioned[n], confirmed, backoff, tasks)
  <2>1. /\ sync_confirmed' = [sync_confirmed EXCEPT ![n] = confirmed]
        /\ sync_backoff' = [sync_backoff EXCEPT ![n] = backoff]
        /\ session' = [session EXCEPT ![n] = d]
        /\ UNCHANGED <<up, config, versioned, files, peers, orphans, breaches>>
    BY <1>5 DEF ReconcileSyncSessions
  <2>2. confirmed \in [Nodes -> Heads \cup {None}]
    <3>1. \A b \in Nodes : session[n][b] \in Sessions /\ sync_confirmed[n][b] \in Heads \cup {None}
      BY <1>4
    <3>2. \A b \in Nodes : session[n][b].phase = "ok" => session[n][b].head \in Heads
      BY <3>1, SessionFacts
    <3>. QED
      BY <3>1, <3>2
  <2>3. backoff \in [Nodes -> BOOLEAN]
    <3> SUFFICES ASSUME NEW b \in Nodes
                 PROVE  (CASE session[n][b].phase = "ok" -> FALSE
                           [] session[n][b].phase = "failed" -> TRUE
                           [] OTHER -> sync_backoff[n][b]) \in BOOLEAN
      BY Zenon
    <3>1. sync_backoff[n][b] \in BOOLEAN
      BY <1>4
    <3>2. CASE session[n][b].phase = "ok"
      BY <3>2
    <3>3. CASE session[n][b].phase = "failed"
      BY <3>3
    <3>4. CASE session[n][b].phase \notin {"ok", "failed"}
      BY <3>1, <3>4, ZenonT(30)
    <3>. QED
      BY <3>2, <3>3, <3>4, Zenon
  <2>4. /\ tasks \in [Nodes -> Sessions]
        /\ \A b \in Nodes : tasks[b] = session[n][b] \/ tasks[b].phase = "idle"
    BY <1>4, IdleFacts
  <2>4a. \A b \in Nodes : confirmed[b] =
              IF session[n][b].phase = "ok" THEN session[n][b].head ELSE sync_confirmed[n][b]
    OBVIOUS
  <2> HIDE DEF confirmed, backoff, tasks
  <2>5. /\ d \in [Nodes -> Sessions]
        /\ \A b \in Nodes :
              \/ d[b] = tasks[b]
              \/ d[b].phase = "dialing" /\ d[b].head = HeadHash(versioned[n])
    <3>1. tasks \in [Nodes -> Sessions]
      BY <2>4
    <3>2. /\ d \in [Nodes -> Sessions]
          /\ \A b \in Nodes :
                \/ d[b] = tasks[b]
                \/ d[b].phase = "dialing" /\ d[b].head = HeadHash(versioned[n]) /\ d[b].frame = None
      BY <1>3, <3>1, DialFacts
    <3>. QED
      BY <3>2, Zenon
  <2> HIDE DEF d
  <2>6. session' \in [Nodes -> [Nodes -> Sessions]]
    BY <1>4, <2>1, <2>5, Zenon
  <2>7. sync_confirmed' \in [Nodes -> [Nodes -> Heads \cup {None}]]
    BY <1>4, <2>1, <2>2, Zenon
  <2>8. sync_backoff' \in [Nodes -> [Nodes -> BOOLEAN]]
    BY <1>4, <2>1, <2>3, ZenonT(30)
  <2>9. TypeOK'
    BY <2>1, <2>6, <2>7, <2>8 DEF TypeInv, TypeOK, files
  <2>10. \A a, b \in Nodes :
            \/ session'[a][b] = session[a][b] \/ session'[a][b].phase = "idle"
            \/ session'[a][b].phase = "dialing" /\ session'[a][b].head = HeadHash(versioned[a])
    BY <1>4, <2>1, <2>4, <2>5
  <2>11. ASSUME NEW a \in Nodes, NEW b \in Nodes
         PROVE  Exchange(a, b)
    <3>1. versioned' = versioned
      BY <2>1
    <3>. QED
      BY <2>10, <3>1, Zenon DEF Exchange
  <2>12. \A a, b \in Nodes : Notes(a, b)
    BY <1>4, <2>1, <2>2, <2>4a DEF Notes
  <2>13. \A a, b \in Nodes : session'[a][b].phase \in Carrying => session'[a][b].frame \in Circulating
    BY <1>1, <2>10 DEF Carrying
  <2>14. UNCHANGED <<versioned, sidecar, breaches>> /\ \A o \in orphans' : o.state \in Circulating
    BY <1>2, <2>1 DEF files
  <2>. QED
    BY <2>9, <2>11, <2>12, <2>13, <2>14, AccountedKeep
<1>6. CASE BackoffExpires(n, m)
  <2>1. /\ sync_backoff' = [sync_backoff EXCEPT ![n][m] = FALSE]
        /\ UNCHANGED <<up, config, versioned, files, peers, session, sync_confirmed, orphans, breaches>>
    BY <1>6 DEF BackoffExpires
  <2>2. sync_backoff' \in [Nodes -> [Nodes -> BOOLEAN]]
    BY <1>4, <2>1
  <2>3. TypeOK'
    BY <2>1, <2>2 DEF TypeInv, TypeOK, files
  <2>4. \A a, b \in Nodes : Exchange(a, b) /\ Notes(a, b)
    BY <2>1 DEF Exchange, Notes
  <2>5. UNCHANGED <<versioned, sidecar, breaches>>
    BY <2>1 DEF files
  <2>. QED
    BY <1>1, <1>2, <2>1, <2>3, <2>4, <2>5, AccountedKeep
<1>7. CASE PeerFound(n, m) \/ PeerLost(n, m)
  <2> DEFINE new == [phase |-> "dialing", head |-> HeadHash(versioned[n]), frame |-> None]
  <2>1. new \in Sessions /\ new.phase = "dialing" /\ new.head = HeadHash(versioned[n])
    BY <1>3, HeadFacts, DialingFacts
  <2>2. Idle \in Sessions /\ Idle.phase = "idle"
    BY IdleFacts
  <2>3. \E t \in {new, Idle} : session' \in {session, [session EXCEPT ![n][m] = t]}
    BY <1>7 DEF PeerFound, PeerLost
  <2> HIDE DEF new
  <2>4. /\ session' \in [Nodes -> [Nodes -> Sessions]]
        /\ \A a, b \in Nodes : \/ session'[a][b] = session[a][b]
                                \/ session'[a][b].phase = "idle"
                                \/ /\ session'[a][b].phase = "dialing"
                                   /\ session'[a][b].head = HeadHash(versioned[a])
    <3>1. PICK t \in {new, Idle} : session' \in {session, [session EXCEPT ![n][m] = t]}
      BY <2>3
    <3>2. t \in Sessions
      BY <2>1, <2>2
    <3>3. session' \in [Nodes -> [Nodes -> Sessions]]
      <4>1. [session EXCEPT ![n][m] = t] \in [Nodes -> [Nodes -> Sessions]]
        BY <1>4, <3>2
      <4>. QED
        BY <1>4, <3>1, <4>1, Zenon
    <3>4. \A a, b \in Nodes : session'[a][b] = session[a][b] \/ (a = n /\ session'[a][b] = t)
      BY <1>4, <3>1
    <3>. QED
      BY <2>1, <2>2, <3>3, <3>4
  <2>5. /\ sync_confirmed' = [sync_confirmed EXCEPT ![n][m] = None]
        /\ sync_backoff' = [sync_backoff EXCEPT ![n][m] = FALSE]
        /\ peers' \in {[peers EXCEPT ![n] = @ \cup {m}], [peers EXCEPT ![n] = @ \ {m}]}
        /\ UNCHANGED <<up, config, versioned, files, breaches>>
    BY <1>7 DEF PeerFound, PeerLost
  <2>6. /\ sync_confirmed' \in [Nodes -> [Nodes -> Heads \cup {None}]]
        /\ \A a, b \in Nodes : sync_confirmed'[a][b] \in {sync_confirmed[a][b], None}
    BY <1>4, <2>5
  <2>7. sync_backoff' \in [Nodes -> [Nodes -> BOOLEAN]]
    BY <1>4, <2>5
  <2>8. peers' \in [Nodes -> SUBSET Nodes]
    <3>1. CASE peers' = [peers EXCEPT ![n] = @ \cup {m}]
      BY <1>4, <3>1
    <3>2. CASE peers' = [peers EXCEPT ![n] = @ \ {m}]
      BY <1>4, <3>2
    <3>. QED
      BY <2>5, <3>1, <3>2
  <2>9. /\ orphans' \subseteq [at : Nodes, state : Versioned]
        /\ \A o \in orphans' : o.state \in Circulating
    <3>1. CASE PeerFound(n, m)
      BY <1>2, <3>1 DEF PeerFound, TypeInv, TypeOK
    <3>2. CASE PeerLost(n, m)
      <4>1. Leave(LeftBehind(n, m))
        BY <3>2 DEF PeerLost
      <4>2. \A o \in LeftBehind(n, m) : o \in [at : Nodes, state : Versioned] /\ o.state \in Circulating
        BY LeftBehindFacts
      <4>. QED
        BY <4>1, <4>2, LeaveFacts
    <3>. QED
      BY <1>7, <3>1, <3>2
  <2>10. TypeOK'
    BY <2>4, <2>5, <2>6, <2>7, <2>8, <2>9 DEF TypeInv, TypeOK, files
  <2>11. ASSUME NEW a \in Nodes, NEW b \in Nodes
         PROVE  Exchange(a, b) /\ Notes(a, b)
    <3>1. Exchange(a, b)
      BY <2>4, <2>5 DEF Exchange
    <3>. QED
      BY <2>6, <3>1 DEF Notes
  <2>12. \A a, b \in Nodes : session'[a][b].phase \in Carrying => session'[a][b].frame \in Circulating
    BY <1>1, <2>4 DEF Carrying
  <2>13. UNCHANGED <<versioned, sidecar, breaches>>
    BY <2>5 DEF files
  <2>. QED
    BY <2>9, <2>10, <2>11, <2>12, <2>13, AccountedKeep
<1>. QED
  BY <1>5, <1>6, <1>7

\* The daemon's death and its next start.
LEMMA AccountedDeath ==
    ASSUME TypeInv, NEW n \in Nodes, Stop(n),
           UNCHANGED <<config, versioned, sidecar, loaded, breaches>>,
           toml' \in [Nodes -> Configs \cup {BadFile}]
    PROVE  Accounted
<1>1. \A a, b \in Nodes : session[a][b] \in Sessions
  BY DEF TypeInv, TypeOK
<1>2. \A a, b \in Nodes : session[a][b].phase \in Carrying => session[a][b].frame \in Circulating
  BY Whereabouts DEF TypeInv
<1>3. ASSUME NEW a \in Nodes, NEW b \in Nodes
      PROVE  /\ session'[a][b] \in Sessions
             /\ session'[a][b] = session[a][b] \/ session'[a][b].phase \in {"idle", "failed"}
  <2> DEFINE t == [session[a][b] EXCEPT !.phase = "failed", !.frame = None]
  <2>1. session'[a][b] = CASE a = n -> Idle
                           [] b = n /\ session[a][b].phase = "sent" -> t
                           [] OTHER -> session[a][b]
    BY DEF Stop
  <2>2. session[a][b].phase = "sent" => t \in Sessions /\ t.phase = "failed"
    BY <1>1, EndFacts
  <2> HIDE DEF t
  <2>. QED
    BY <1>1, <2>1, <2>2, IdleFacts
<1>4. session' \in [Nodes -> [Nodes -> Sessions]]
  <2> DEFINE cut(a, b) == CASE a = n -> Idle
                            [] b = n /\ session[a][b].phase = "sent" ->
                                 [session[a][b] EXCEPT !.phase = "failed", !.frame = None]
                            [] OTHER -> session[a][b]
  <2>1. session' = [a \in Nodes |-> [b \in Nodes |-> cut(a, b)]]
    BY DEF Stop
  <2> HIDE DEF cut
  <2>2. \A a, b \in Nodes : cut(a, b) = session'[a][b]
    BY <2>1
  <2>3. \A a, b \in Nodes : cut(a, b) \in Sessions
    BY <1>3, <2>2
  <2>4. \A a \in Nodes : [b \in Nodes |-> cut(a, b)] \in [Nodes -> Sessions]
    BY <2>3
  <2>. QED
    BY <2>1, <2>4
<1>5. /\ orphans' \subseteq [at : Nodes, state : Versioned]
      /\ \A o \in orphans' : o.state \in Circulating
  <2> DEFINE possible == UNION {LeftBehind(n, m) : m \in Nodes}
  <2>1. Leave(possible)
    BY DEF Stop
  <2>2. \A o \in possible : o \in [at : Nodes, state : Versioned] /\ o.state \in Circulating
    BY LeftBehindFacts
  <2> HIDE DEF possible
  <2>. QED
    BY <2>1, <2>2, LeaveFacts
<1>6. /\ sync_confirmed' = [sync_confirmed EXCEPT ![n] = NoneConfirmed]
      /\ NoneConfirmed \in [Nodes -> Heads \cup {None}] /\ \A m \in Nodes : NoneConfirmed[m] = None
      /\ sync_confirmed \in [Nodes -> [Nodes -> Heads \cup {None}]]
  BY DEF Stop, NoneConfirmed, TypeInv, TypeOK
<1>7. /\ sync_confirmed' \in [Nodes -> [Nodes -> Heads \cup {None}]]
      /\ \A a, b \in Nodes : sync_confirmed'[a][b] \in {sync_confirmed[a][b], None}
  BY <1>6
<1>8. sync_backoff' \in [Nodes -> [Nodes -> BOOLEAN]]
  <2>1. /\ sync_backoff' = [sync_backoff EXCEPT ![n] = NoBackoff] /\ NoBackoff \in [Nodes -> BOOLEAN]
        /\ sync_backoff \in [Nodes -> [Nodes -> BOOLEAN]]
    BY DEF Stop, NoBackoff, TypeInv, TypeOK
  <2>. QED
    BY <2>1
<1>9. up' \in [Nodes -> BOOLEAN] /\ fs_event' \in [Nodes -> BOOLEAN]
  BY DEF Stop, TypeInv, TypeOK
<1>10. peers' \in [Nodes -> SUBSET Nodes]
  BY DEF Stop, TypeInv, TypeOK
<1>11. TypeOK'
  BY <1>4, <1>5, <1>7, <1>8, <1>9, <1>10 DEF TypeInv, TypeOK
<1>12. \A a, b \in Nodes : Exchange(a, b) /\ Notes(a, b)
  BY <1>3, <1>7 DEF Exchange, Notes
<1>13. \A a, b \in Nodes : session'[a][b].phase \in Carrying => session'[a][b].frame \in Circulating
  BY <1>2, <1>3 DEF Carrying
<1>. QED
  BY <1>5, <1>11, <1>12, <1>13, AccountedKeep

LEMMA AccountedLoad ==
    ASSUME TypeInv, NEW n \in Nodes, LoadConfig(n)
    PROVE  Accounted
<1>1. /\ loaded' = [loaded EXCEPT ![n] = toml[n]] /\ toml[n] \in Configs
      /\ UNCHANGED <<up, config, versioned, toml, sidecar, fs_event, dialing, orphans, breaches>>
  BY SyncAssumption DEF LoadConfig
<1>2. loaded' \in [Nodes -> Configs \cup {None}]
  BY <1>1 DEF TypeInv, TypeOK
<1>3. TypeOK'
  BY <1>1, <1>2 DEF TypeInv, TypeOK, dialing
<1>4. \A a, b \in Nodes : Exchange(a, b) /\ Notes(a, b)
  BY <1>1 DEF Exchange, Notes, dialing
<1>5. /\ \A o \in orphans' : o.state \in Circulating
      /\ \A a, b \in Nodes : session'[a][b].phase \in Carrying => session'[a][b].frame \in Circulating
  BY <1>1, Whereabouts DEF dialing, TypeInv
<1>. QED
  BY <1>1, <1>3, <1>4, <1>5, AccountedKeep

LEMMA AccountedLaunch ==
    ASSUME TypeInv, NEW n \in Nodes, Launch(n)
    PROVE  Accounted
<1> DEFINE x == FromParts(loaded[n], sidecar[n])
<1>1. loaded[n] \in Configs
  BY DEF Launch, TypeInv, TypeOK
<1>2. x \in Versioned
  BY <1>1 DEF FromParts, Versioned, SideCars, TypeInv, TypeOK
<1> HIDE DEF x
<1>3. /\ up' = [up EXCEPT ![n] = TRUE]
      /\ config' = [config EXCEPT ![n] = loaded[n]]
      /\ versioned' = [versioned EXCEPT ![n] = x]
      /\ loaded' = [loaded EXCEPT ![n] = None]
      /\ UNCHANGED <<toml, sidecar, fs_event, dialing, orphans>>
  BY DEF Launch, x
<1>4. /\ breaches' = breaches
            \cup (IF loaded[n] # versioned[n].config THEN {"unstamped_edit"} ELSE {})
            \cup (IF sidecar[n].stamps # versioned[n].stamps THEN {"stamps_lost"} ELSE {})
            \cup (IF toml[n] # loaded[n] THEN {"unwatched_edit"} ELSE {})
  BY DEF Launch
<1>5. /\ breaches' \subseteq Breaches /\ breaches \subseteq breaches'
      /\ loaded[n] # versioned[n].config => "unstamped_edit" \in breaches'
      /\ sidecar[n].stamps # versioned[n].stamps => "stamps_lost" \in breaches'
  BY <1>4 DEF Breaches, TypeInv, TypeOK
<1>6. up' \in [Nodes -> BOOLEAN] /\ loaded' \in [Nodes -> Configs \cup {None}]
  BY <1>3 DEF TypeInv, TypeOK
<1>7. config' \in [Nodes -> Configs] /\ versioned' \in [Nodes -> Versioned]
  BY <1>1, <1>2, <1>3 DEF TypeInv, TypeOK
<1>8. TypeOK'
  BY <1>3, <1>5, <1>6, <1>7 DEF TypeInv, TypeOK, dialing, Breaches
<1>9. \A m \in Nodes : versioned'[m] \in Circulating \cup {x}
  BY <1>3, Whereabouts DEF TypeInv, TypeOK
<1>10. /\ \A o \in orphans' : o.state \in Circulating \cup {x}
       /\ \A a, b \in Nodes : session'[a][b].phase \in Carrying =>
             session'[a][b].frame \in Circulating \cup {x}
  BY <1>3, Whereabouts DEF TypeInv, dialing
<1>11. Circulating' \subseteq Circulating \cup {x}
  BY <1>8, <1>9, <1>10, NewCirculation, ZenonT(30)
<1>12. Restarted(n)
  BY <1>1, <1>3, <1>5, <1>11 DEF Restarted, Becomes, x
<1>13. \A a, b \in Nodes : Exchange(a, b) /\ Notes(a, b)
  BY <1>3 DEF Exchange, Notes, dialing
<1>. QED
  BY <1>8, <1>12, <1>13 DEF Accounted

\* Every step is accounted for.
LEMMA Accounting == TypeInv /\ [Next]_vars => Accounted
<1> SUFFICES ASSUME TypeInv, [Next]_vars
             PROVE  Accounted
  OBVIOUS
<1>1. CASE UNCHANGED vars
  <2>1. TypeOK' /\ UNCHANGED <<versioned, sidecar, breaches>>
    BY <1>1 DEF vars, files, dialing, TypeInv, TypeOK
  <2>2. \A a, b \in Nodes : Exchange(a, b) /\ Notes(a, b)
    BY <1>1 DEF vars, dialing, Exchange, Notes
  <2>3. /\ \A o \in orphans' : o.state \in Circulating
        /\ \A a, b \in Nodes : session'[a][b].phase \in Carrying => session'[a][b].frame \in Circulating
    BY <1>1, Whereabouts DEF vars, dialing, TypeInv
  <2>. QED
    BY <2>1, <2>2, <2>3, AccountedKeep
<1>2. ASSUME NEW n \in Nodes, Crash(n)
      PROVE  Accounted
  <2>1. Stop(n) /\ UNCHANGED <<config, versioned, sidecar, loaded, breaches>> /\ UNCHANGED toml
    BY <1>2 DEF Crash
  <2>2. toml' \in [Nodes -> Configs \cup {BadFile}]
    BY <2>1 DEF TypeInv, TypeOK
  <2>. QED
    BY <2>1, <2>2, AccountedDeath
<1>3. ASSUME NEW n \in Nodes, NEW c \in Configs, CrashBetweenSaves(n, c)
      PROVE  Accounted
  <2>1. /\ Stop(n) /\ UNCHANGED <<config, versioned, sidecar, loaded, breaches>>
        /\ toml' = [toml EXCEPT ![n] = c]
    BY <1>3 DEF CrashBetweenSaves
  <2>2. toml' \in [Nodes -> Configs \cup {BadFile}]
    BY <2>1 DEF TypeInv, TypeOK
  <2>. QED
    BY <2>1, <2>2, AccountedDeath
<1>4. ASSUME NEW n \in Nodes, Edits(n)
      PROVE  Accounted
  BY <1>3, <1>4, AccountedLocal DEF Edits
<1>5. ASSUME NEW n \in Nodes, Local(n)
      PROVE  Accounted
  BY <1>2, <1>5, AccountedLocal, AccountedDialling, AccountedLoad, AccountedLaunch DEF Local
<1>6. ASSUME NEW a \in Nodes, NEW b \in Nodes, Pairwise(a, b)
      PROVE  Accounted
  BY <1>6, AccountedSession, AccountedDialling DEF Pairwise
<1>7. ASSUME NEW o \in orphans, MergeOrphan(o)
      PROVE  Accounted
  BY <1>7, AccountedLocal
<1>. QED
  BY <1>1, <1>4, <1>5, <1>6, <1>7 DEF Next
=============================================================================
