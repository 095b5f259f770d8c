-------------------------- MODULE ConfigSyncProofs --------------------------
(* The safety properties of ConfigSync for any number of machines, fields and *)
(* values, with every fault.                                                  *)
EXTENDS ConfigSyncSteps

-----------------------------------------------------------------------------
(* Where the fields of a new copy come from.                                 *)

\* Field f of n's new copy x is what n had, what another copy had under a newer
\* stamp, or a local edit beyond n's clock.
Kept(n, x, f) ==
    /\ x.stamps[f] = versioned[n].stamps[f]
    /\ x.config[f] = versioned[n].config[f] \/ "rollback" \in breaches'

Taken(n, x, f) ==
    \E w \in Circulating : /\ x.stamps[f] = w.stamps[f]
                           /\ x.config[f] = w.config[f] \/ "rollback" \in breaches'

Fresh(n, x, f) ==
    /\ x.stamps[f].counter = versioned[n].clock + 1 /\ x.stamps[f].origin = n
    /\ x.clock = versioned[n].clock + 1

Adopts(n, x) ==
    /\ Becomes(n, x) /\ SavedOrNot(n, x)
    /\ ClockCovers(x) /\ versioned[n].clock <= x.clock
    /\ \A f \in Fields :
          \/ Kept(n, x, f)
          \/ /\ Taken(n, x, f) \/ Fresh(n, x, f)
             /\ Newer(x.stamps[f], versioned[n].stamps[f])

LEMMA EditAdopts ==
    ASSUME TypeInv, NEW n \in Nodes, Edited(n)
    PROVE  \E x \in Versioned : Adopts(n, x)
<1>1. versioned[n] \in Versioned /\ ClockCovers(versioned[n])
  BY Whereabouts DEF TypeInv, SoundCopies
<1>2. PICK c \in Configs : /\ Becomes(n, ApplyLocal(versioned[n], c, n))
                           /\ SavedOrNot(n, ApplyLocal(versioned[n], c, n))
  BY DEF Edited
<1> DEFINE x == ApplyLocal(versioned[n], c, n)
<1>3. /\ x \in Versioned /\ ClockCovers(x) /\ versioned[n].clock <= x.clock
      /\ x = versioned[n] \/ x.clock = versioned[n].clock + 1
      /\ \A f \in Fields :
            \/ x.stamps[f] = versioned[n].stamps[f] /\ x.config[f] = versioned[n].config[f]
            \/ x.stamps[f].counter = versioned[n].clock + 1 /\ x.stamps[f].origin = n /\ x # versioned[n]
  BY <1>1, EditFacts
<1> HIDE DEF x
<1>4. ASSUME NEW f \in Fields, x.stamps[f].counter = versioned[n].clock + 1
      PROVE  Newer(x.stamps[f], versioned[n].stamps[f])
  <2>1. versioned[n].stamps[f].counter <= versioned[n].clock
    BY <1>1 DEF ClockCovers
  <2>2. versioned[n].stamps[f].counter \in Nat /\ versioned[n].clock \in Nat
    BY <1>1 DEF Versioned, Stamps
  <2>. QED
    BY <1>4, <2>1, <2>2 DEF Newer
<1>5. ASSUME NEW f \in Fields
      PROVE  \/ Kept(n, x, f)
             \/ Fresh(n, x, f) /\ Newer(x.stamps[f], versioned[n].stamps[f])
  <2>1. CASE x.stamps[f] = versioned[n].stamps[f] /\ x.config[f] = versioned[n].config[f]
    BY <2>1 DEF Kept
  <2>2. CASE x.stamps[f].counter = versioned[n].clock + 1 /\ x.stamps[f].origin = n /\ x # versioned[n]
    <3>1. Fresh(n, x, f)
      BY <1>3, <2>2 DEF Fresh
    <3>2. Newer(x.stamps[f], versioned[n].stamps[f])
      BY <1>4, <2>2
    <3>. QED
      BY <3>1, <3>2
  <2>. QED
    BY <1>3, <2>1, <2>2
<1>6. Adopts(n, x)
  BY <1>2, <1>3, <1>5 DEF Adopts, x
<1>. QED
  BY <1>3, <1>6

LEMMA MergeAdopts ==
    ASSUME TypeInv, NEW n \in Nodes, Merged(n)
    PROVE  \E x \in Versioned : Adopts(n, x)
<1>1. PICK w \in Circulating, x \in Versioned : MergeOf(n, w, x) /\ Becomes(n, x) /\ SavedOrNot(n, x)
  BY DEF Merged
<1>2. versioned[n] \in Versioned /\ w \in Versioned /\ ClockCovers(versioned[n]) /\ ClockCovers(w)
  BY Whereabouts DEF TypeInv, SoundCopies
<1> DEFINE m == Merge(versioned[n], w)
           won == Overwritten(versioned[n], w)
<1>3. /\ ClockCovers(m) /\ versioned[n].clock <= m.clock
      /\ \A f \in won : /\ m.stamps[f] = w.stamps[f] /\ m.config[f] = w.config[f]
                        /\ Newer(w.stamps[f], versioned[n].stamps[f])
      /\ \A f \in Fields \ won : /\ m.stamps[f] = versioned[n].stamps[f]
                                  /\ m.config[f] = versioned[n].config[f]
  BY <1>2, MergeFacts
<1>4. /\ x.stamps = m.stamps /\ x.clock = m.clock
      /\ x.config = m.config \/ "rollback" \in breaches'
  BY <1>1 DEF MergeOf
<1> HIDE DEF m, won
<1>5. ClockCovers(x)
  BY <1>3, <1>4 DEF ClockCovers
<1>6. ASSUME NEW f \in Fields
      PROVE  \/ Kept(n, x, f)
             \/ Taken(n, x, f) /\ Newer(x.stamps[f], versioned[n].stamps[f])
  <2>1. CASE f \in won
    <3>1. /\ x.stamps[f] = w.stamps[f]
          /\ x.config[f] = w.config[f] \/ "rollback" \in breaches'
          /\ Newer(w.stamps[f], versioned[n].stamps[f])
      BY <1>3, <1>4, <2>1
    <3>2. Newer(x.stamps[f], versioned[n].stamps[f])
      BY <3>1
    <3>. QED
      BY <3>1, <3>2 DEF Taken
  <2>2. CASE f \notin won
    BY <1>3, <1>4, <2>2 DEF Kept
  <2>. QED
    BY <2>1, <2>2
<1>. QED
  BY <1>1, <1>3, <1>4, <1>5, <1>6 DEF Adopts

\* The three kinds of step.
LEMMA StepKinds ==
    ASSUME TypeInv, [Next]_vars
    PROVE  /\ TypeOK'
           /\ \/ Keeps
              \/ \E n \in Nodes : \E x \in Versioned : Adopts(n, x)
              \/ \E n \in Nodes : Restarted(n)
  BY Accounting, EditAdopts, MergeAdopts DEF Accounted

\* A machine that restarts.
LEMMA RestartFacts ==
    ASSUME TypeInv, NEW n \in Nodes, Restarted(n)
    PROVE  LET x == FromParts(loaded[n], sidecar[n])
           IN /\ x \in Versioned /\ ClockCovers(x)
              /\ x.config = loaded[n] /\ x.stamps = sidecar[n].stamps /\ x.clock = sidecar[n].clock
<1>1. sidecar[n] \in SideCars /\ ClockCovers(sidecar[n]) /\ loaded[n] \in Configs
  BY DEF TypeInv, TypeOK, SoundCopies, Restarted
<1>. QED
  BY <1>1 DEF FromParts, Versioned, SideCars, ClockCovers

LEMMA TypeInitInv == Init => TypeInv
<1> SUFFICES ASSUME Init
             PROVE  TypeInv
  OBVIOUS
<1>1. PICK first \in [Nodes -> FirstConfigs] :
        /\ \A n \in Nodes : first[n] \in ValidConfigs[n]
        /\ up = [n \in Nodes |-> TRUE]
        /\ config = first
        /\ versioned = [n \in Nodes |-> Initial(first[n], n)]
        /\ toml = first
        /\ sidecar = [n \in Nodes |-> SideCar(Initial(first[n], n))]
        /\ fs_event = [n \in Nodes |-> FALSE]
        /\ loaded = [n \in Nodes |-> None]
        /\ peers = [n \in Nodes |-> {}]
        /\ session = [a \in Nodes |-> [b \in Nodes |-> Idle]]
        /\ sync_confirmed = [n \in Nodes |-> NoneConfirmed]
        /\ sync_backoff = [n \in Nodes |-> NoBackoff]
        /\ orphans = {}
        /\ breaches = {}
  BY DEF Init
<1>2. \A n \in Nodes : first[n] \in Configs
  BY SyncAssumption
<1>3. ASSUME NEW n \in Nodes
      PROVE  /\ Initial(first[n], n) \in Versioned /\ ClockCovers(Initial(first[n], n))
             /\ SideCar(Initial(first[n], n)) \in SideCars /\ ClockCovers(SideCar(Initial(first[n], n)))
  BY <1>2 DEF Initial, SideCar, SideCars, Versioned, Stamps, ClockCovers
<1>4. /\ up \in [Nodes -> BOOLEAN] /\ fs_event \in [Nodes -> BOOLEAN]
      /\ config \in [Nodes -> Configs] /\ toml \in [Nodes -> Configs \cup {BadFile}]
      /\ loaded \in [Nodes -> Configs \cup {None}]
      /\ peers \in [Nodes -> SUBSET Nodes]
      /\ sync_confirmed \in [Nodes -> [Nodes -> Heads \cup {None}]]
      /\ sync_backoff \in [Nodes -> [Nodes -> BOOLEAN]]
  BY <1>1, <1>2 DEF NoneConfirmed, NoBackoff
<1>5. versioned \in [Nodes -> Versioned] /\ sidecar \in [Nodes -> SideCars]
  BY <1>1, <1>3
<1>6. session \in [Nodes -> [Nodes -> Sessions]] /\ \A a, b \in Nodes : session[a][b].frame = None
  BY <1>1, IdleFacts
<1>7. TypeOK
  BY <1>1, <1>4, <1>5, <1>6 DEF TypeOK
<1>8. \A v \in Circulating : \E n \in Nodes : v = versioned[n]
  BY <1>1, IdleFacts DEF Circulating
<1>. QED
  BY <1>1, <1>3, <1>7, <1>8 DEF TypeInv, SoundCopies

LEMMA TypeStepInv == TypeInv /\ [Next]_vars => TypeInv'
<1> SUFFICES ASSUME TypeInv, [Next]_vars
             PROVE  SoundCopies'
  BY StepKinds DEF TypeInv
<1>1. CASE Keeps
  BY <1>1 DEF Keeps, TypeInv, SoundCopies
<1>2. ASSUME NEW n \in Nodes, NEW x \in Versioned, Adopts(n, x)
      PROVE  SoundCopies'
  <2>1. \A v \in Circulating' : ClockCovers(v)
    BY <1>2 DEF Adopts, Becomes, TypeInv, SoundCopies
  <2>2. ClockCovers(SideCar(x))
    BY <1>2 DEF Adopts, SideCar, ClockCovers
  <2>3. \A m \in Nodes : sidecar'[m] \in {sidecar[m], SideCar(x)}
    BY <1>2 DEF Adopts, SavedOrNot, TypeInv, TypeOK
  <2>4. \A m \in Nodes : ClockCovers(sidecar'[m])
    BY <2>2, <2>3 DEF TypeInv, SoundCopies
  <2>. QED
    BY <2>1, <2>4 DEF SoundCopies
<1>3. ASSUME NEW n \in Nodes, Restarted(n)
      PROVE  SoundCopies'
  BY <1>3, RestartFacts, Zenon DEF Restarted, Becomes, TypeInv, SoundCopies
<1>. QED
  BY <1>1, <1>2, <1>3, StepKinds

\* Every variable of the sync protocol keeps its type, whatever fails.
THEOREM SyncTypeCorrect == Spec => []TypeOK
<1>1. TypeInv => TypeOK
  BY DEF TypeInv
<1>. QED
  BY <1>1, TypeInitInv, TypeStepInv, PTL DEF Spec

-----------------------------------------------------------------------------
(* Clocks: no stamp of a machine's own is ahead of its clock.                *)

NothingLost == "stamps_lost" \notin breaches

\* The sidecar on disk is never ahead of the copy in memory.
SidecarBehind ==
    \A n \in Nodes :
        /\ sidecar[n].clock <= versioned[n].clock
        /\ \A f \in Fields : ~Newer(sidecar[n].stamps[f], versioned[n].stamps[f])

\* A stamp of o's anywhere is at most o's clock, and at most the clock o would
\* restart with, when o would restart with the stamps it has.
OwnStamps ==
    \A v \in Circulating : \A f \in Fields :
        LET o == v.stamps[f].origin
        IN /\ v.stamps[f].counter <= versioned[o].clock
           /\ sidecar[o].stamps = versioned[o].stamps => v.stamps[f].counter <= sidecar[o].clock

ClockInv == TypeInv /\ (NothingLost => SidecarBehind /\ OwnStamps)

\* The components of copies and sidecars.
LEMMA Typing ==
    ASSUME TypeOK
    PROVE  /\ \A v \in Circulating : \A f \in Fields :
                 /\ v.stamps[f] \in Stamps /\ v.stamps[f].counter \in Nat
                 /\ v.stamps[f].origin \in Nodes
           /\ \A n \in Nodes : /\ versioned[n] \in Circulating /\ versioned[n].clock \in Nat
                                /\ sidecar[n].clock \in Nat
                                /\ \A f \in Fields : sidecar[n].stamps[f] \in Stamps
<1>1. Circulating \subseteq Versioned /\ \A n \in Nodes : versioned[n] \in Circulating
  BY Whereabouts
<1>2. \A v \in Circulating : \A f \in Fields : v.stamps[f] \in Stamps
  BY <1>1 DEF Versioned
<1>3. \A s \in Stamps : s.counter \in Nat /\ s.origin \in Nodes
  BY DEF Stamps
<1>4. \A n \in Nodes : sidecar[n] \in SideCars /\ versioned[n] \in Versioned
  BY DEF TypeOK
<1>. QED
  BY <1>1, <1>2, <1>3, <1>4 DEF SideCars, Versioned

\* Being no newer is transitive.
LEMMA NotNewer ==
    ASSUME NEW s \in Stamps, NEW t \in Stamps, NEW u \in Stamps, ~Newer(s, t), ~Newer(t, u)
    PROVE  ~Newer(s, u)
<1>1. Newer(s, t) \/ Newer(t, s) \/ s = t
  BY StampOrder
<1>2. Newer(t, s) /\ Newer(s, u) => Newer(t, u)
  BY StampOrder
<1>. QED
  BY <1>1, <1>2

\* A copy that is adopted has no older stamp than the one it replaces.
LEMMA AdoptsNewer ==
    ASSUME TypeInv, NEW n \in Nodes, NEW x \in Versioned, Adopts(n, x), NEW f \in Fields
    PROVE  ~Newer(versioned[n].stamps[f], x.stamps[f])
<1>1. versioned[n].stamps[f] \in Stamps /\ x.stamps[f] \in Stamps
  BY Typing DEF TypeInv, Versioned
<1>2. CASE x.stamps[f] = versioned[n].stamps[f]
  <2>1. ~Newer(x.stamps[f], x.stamps[f])
    BY <1>1, StampOrder
  <2>. QED
    BY <1>2, <2>1
<1>3. CASE Newer(x.stamps[f], versioned[n].stamps[f])
  BY <1>1, <1>3, StampOrder
<1>. QED
  BY <1>2, <1>3 DEF Adopts, Kept

\* An adoption, seen by the clocks.
LEMMA AdoptsClocks ==
    ASSUME ClockInv, NothingLost, NEW n \in Nodes, NEW x \in Versioned, Adopts(n, x), TypeOK'
    PROVE  SidecarBehind' /\ OwnStamps'
<1>1. SidecarBehind /\ OwnStamps /\ TypeInv /\ TypeOK
  BY DEF ClockInv, TypeInv
<1>2. /\ versioned'[n] = x /\ \A m \in Nodes \ {n} : versioned'[m] = versioned[m]
      /\ \A m \in Nodes \ {n} : sidecar'[m] = sidecar[m]
      /\ sidecar'[n] = sidecar[n] \/ sidecar'[n] = SideCar(x)
      /\ Circulating' \subseteq Circulating \cup {x}
      /\ versioned[n].clock <= x.clock /\ x.clock \in Nat
  BY <1>1 DEF Adopts, Becomes, SavedOrNot, TypeOK, Versioned
<1>3. SideCar(x).clock = x.clock /\ SideCar(x).stamps = x.stamps
  BY DEF SideCar
<1>4. \A f \in Fields : x.stamps[f] \in Stamps /\ x.stamps[f].counter \in Nat /\ x.stamps[f].origin \in Nodes
  BY DEF Versioned, Stamps
<1>5. SidecarBehind'
  <2> SUFFICES ASSUME NEW m \in Nodes
               PROVE  /\ sidecar'[m].clock <= versioned'[m].clock
                      /\ \A f \in Fields : ~Newer(sidecar'[m].stamps[f], versioned'[m].stamps[f])
    BY DEF SidecarBehind
  <2>1. CASE m # n
    BY <1>1, <1>2, <2>1 DEF SidecarBehind
  <2>2. CASE m = n /\ sidecar'[n] = SideCar(x)
    BY <1>2, <1>3, <1>4, <2>2, StampOrder
  <2>3. CASE m = n /\ sidecar'[n] = sidecar[n]
    <3>1. sidecar[n].clock <= x.clock
      BY <1>1, <1>2, Typing DEF SidecarBehind
    <3>2. ASSUME NEW f \in Fields
          PROVE  ~Newer(sidecar[n].stamps[f], x.stamps[f])
      <4>1. ~Newer(sidecar[n].stamps[f], versioned[n].stamps[f])
        BY <1>1 DEF SidecarBehind
      <4>2. ~Newer(versioned[n].stamps[f], x.stamps[f])
        BY <1>1, AdoptsNewer
      <4>3. sidecar[n].stamps[f] \in Stamps /\ versioned[n].stamps[f] \in Stamps
        BY <1>1, Typing
      <4>. QED
        BY <1>4, <4>1, <4>2, <4>3, NotNewer
    <3>. QED
      BY <1>2, <2>3, <3>1, <3>2
  <2>. QED
    BY <1>2, <2>1, <2>2, <2>3
\* If the sidecar is not written and has x's stamps, x has n's.
<1>6. ASSUME sidecar'[n] = sidecar[n], sidecar[n].stamps = x.stamps
      PROVE  sidecar[n].stamps = versioned[n].stamps
  <2>1. \A f \in Fields : ~Newer(x.stamps[f], versioned[n].stamps[f])
    BY <1>1, <1>6 DEF SidecarBehind
  <2>2. \A f \in Fields : x.stamps[f] = versioned[n].stamps[f]
    BY <2>1 DEF Adopts, Kept
  <2>3. x.stamps \in [Fields -> Stamps] /\ versioned[n].stamps \in [Fields -> Stamps]
    BY <1>1 DEF Versioned, TypeOK
  <2>. QED
    BY <1>6, <2>2, <2>3
\* A stamp that some copy had is still covered.
<1>7. ASSUME NEW v \in Circulating, NEW f \in Fields, NEW o \in Nodes, o = v.stamps[f].origin
      PROVE  /\ v.stamps[f].counter <= versioned'[o].clock
             /\ sidecar'[o].stamps = versioned'[o].stamps => v.stamps[f].counter <= sidecar'[o].clock
  <2>1. /\ v.stamps[f].counter <= versioned[o].clock
        /\ sidecar[o].stamps = versioned[o].stamps => v.stamps[f].counter <= sidecar[o].clock
    BY <1>1, <1>7 DEF OwnStamps
  <2>2. v.stamps[f].counter \in Nat /\ versioned[o].clock \in Nat
    BY <1>1, Typing
  <2>3. v.stamps[f].counter <= x.clock \/ o # n
    BY <1>2, <2>1, <2>2
  <2>. QED
    BY <1>2, <1>3, <1>6, <2>1, <2>3
<1>8. ASSUME NEW f \in Fields, NEW o \in Nodes, o = x.stamps[f].origin
      PROVE  /\ x.stamps[f].counter <= versioned'[o].clock
             /\ sidecar'[o].stamps = versioned'[o].stamps => x.stamps[f].counter <= sidecar'[o].clock
  <2>1. CASE Kept(n, x, f)
    <3>1. versioned[n] \in Circulating /\ x.stamps[f] = versioned[n].stamps[f]
      BY <1>1, <2>1, Typing DEF Kept
    <3>. QED
      BY <1>7, <1>8, <3>1
  <2>2. CASE Taken(n, x, f)
    BY <1>7, <1>8, <2>2 DEF Taken
  <2>3. CASE Fresh(n, x, f) /\ Newer(x.stamps[f], versioned[n].stamps[f])
    <3>1. o = n /\ x.stamps[f].counter <= x.clock
      BY <1>2, <1>8, <2>3 DEF Fresh
    <3>2. sidecar'[n].stamps = x.stamps => sidecar'[n] = SideCar(x)
      <4>1. ~Newer(sidecar[n].stamps[f], versioned[n].stamps[f])
        BY <1>1 DEF SidecarBehind
      <4>. QED
        BY <1>2, <2>3, <4>1
    <3>. QED
      BY <1>2, <1>3, <3>1, <3>2
  <2>. QED
    BY <2>1, <2>2, <2>3 DEF Adopts
<1>9. OwnStamps'
  <2> SUFFICES ASSUME NEW v \in Circulating', NEW f \in Fields, NEW o, o = v.stamps[f].origin
               PROVE  /\ v.stamps[f].counter <= versioned'[o].clock
                      /\ sidecar'[o].stamps = versioned'[o].stamps => v.stamps[f].counter <= sidecar'[o].clock
    BY DEF OwnStamps
  <2>1. CASE v = x
    BY <1>4, <1>8, <2>1
  <2>2. CASE v \in Circulating
    BY <1>1, <1>7, <2>2, Typing
  <2>. QED
    BY <1>2, <2>1, <2>2
<1>. QED
  BY <1>5, <1>9

\* A restart without loss, seen by the clocks: the machine has the copy it had,
\* but for the clock and an edit nobody stamped.
LEMMA RestartLoses ==
    ASSUME TypeInv, NEW n \in Nodes, Restarted(n), NothingLost'
    PROVE  LET x == FromParts(loaded[n], sidecar[n])
           IN /\ versioned'[n] = x /\ \A m \in Nodes \ {n} : versioned'[m] = versioned[m]
              /\ x.stamps = versioned[n].stamps /\ sidecar[n].stamps = versioned[n].stamps
              /\ x.clock = sidecar[n].clock
              /\ x.config = versioned[n].config \/ "unstamped_edit" \in breaches'
              /\ Circulating' \subseteq Circulating \cup {x} /\ UNCHANGED sidecar
<1> DEFINE x == FromParts(loaded[n], sidecar[n])
<1>1. x.config = loaded[n] /\ x.stamps = sidecar[n].stamps /\ x.clock = sidecar[n].clock
  BY RestartFacts
<1> HIDE DEF x
<1>2. /\ versioned' = [versioned EXCEPT ![n] = x] /\ Circulating' \subseteq Circulating \cup {x}
      /\ UNCHANGED sidecar
      /\ loaded[n] # versioned[n].config => "unstamped_edit" \in breaches'
      /\ sidecar[n].stamps # versioned[n].stamps => "stamps_lost" \in breaches'
  BY DEF Restarted, Becomes, x
<1>3. versioned'[n] = x /\ \A m \in Nodes \ {n} : versioned'[m] = versioned[m]
  BY <1>2 DEF TypeInv, TypeOK
<1>. QED
  BY <1>1, <1>2, <1>3 DEF NothingLost, x

LEMMA RestartClocks ==
    ASSUME ClockInv, NothingLost, NEW n \in Nodes, Restarted(n), NothingLost'
    PROVE  SidecarBehind' /\ OwnStamps'
<1> DEFINE x == FromParts(loaded[n], sidecar[n])
<1>1. SidecarBehind /\ OwnStamps /\ TypeInv /\ TypeOK
  BY DEF ClockInv, TypeInv
<1>2. /\ versioned'[n] = x /\ \A m \in Nodes \ {n} : versioned'[m] = versioned[m]
      /\ x.stamps = versioned[n].stamps /\ sidecar[n].stamps = versioned[n].stamps
      /\ x.clock = sidecar[n].clock
      /\ Circulating' \subseteq Circulating \cup {x} /\ UNCHANGED sidecar
  BY <1>1, RestartLoses
<1> HIDE DEF x
<1>3. SidecarBehind'
  <2> SUFFICES ASSUME NEW m \in Nodes
               PROVE  /\ sidecar[m].clock <= versioned'[m].clock
                      /\ \A f \in Fields : ~Newer(sidecar[m].stamps[f], versioned'[m].stamps[f])
    BY <1>2 DEF SidecarBehind
  <2>1. CASE m # n
    BY <1>1, <1>2, <2>1 DEF SidecarBehind
  <2>2. CASE m = n
    BY <1>1, <1>2, <2>2, Typing DEF SidecarBehind
  <2>. QED
    BY <2>1, <2>2
<1>4. OwnStamps'
  <2> SUFFICES ASSUME NEW v \in Circulating', NEW f \in Fields, NEW o, o = v.stamps[f].origin
               PROVE  /\ v.stamps[f].counter <= versioned'[o].clock
                      /\ sidecar[o].stamps = versioned'[o].stamps => v.stamps[f].counter <= sidecar[o].clock
    BY <1>2 DEF OwnStamps
  <2>1. PICK w \in Circulating : w.stamps[f] = v.stamps[f]
    BY <1>1, <1>2, Typing
  <2>2. /\ w.stamps[f].counter <= versioned[o].clock /\ o \in Nodes
        /\ sidecar[o].stamps = versioned[o].stamps => w.stamps[f].counter <= sidecar[o].clock
    BY <1>1, <2>1, Typing DEF OwnStamps
  <2>. QED
    BY <1>2, <2>1, <2>2
<1>. QED
  BY <1>3, <1>4

LEMMA ClockInitInv == Init => ClockInv
<1> SUFFICES ASSUME Init, TypeInv
             PROVE  SidecarBehind /\ OwnStamps
  BY TypeInitInv DEF ClockInv
<1>1. PICK first \in [Nodes -> FirstConfigs] :
        /\ versioned = [n \in Nodes |-> Initial(first[n], n)]
        /\ sidecar = [n \in Nodes |-> SideCar(Initial(first[n], n))]
        /\ session = [a \in Nodes |-> [b \in Nodes |-> Idle]]
        /\ orphans = {}
  BY DEF Init
<1>2. \A n \in Nodes : /\ versioned[n].clock = 1 /\ sidecar[n].clock = 1
                       /\ sidecar[n].stamps = versioned[n].stamps
                       /\ \A f \in Fields : /\ versioned[n].stamps[f].counter = 1
                                            /\ versioned[n].stamps[f].origin = n
  BY <1>1 DEF Initial, SideCar
<1>3. \A v \in Circulating : \E n \in Nodes : v = versioned[n]
  BY <1>1, IdleFacts DEF Circulating
<1>4. SidecarBehind
  <2>1. \A n \in Nodes : \A f \in Fields : sidecar[n].stamps[f] \in Stamps
    BY Typing DEF TypeInv
  <2>2. \A n \in Nodes : \A f \in Fields : ~Newer(sidecar[n].stamps[f], sidecar[n].stamps[f])
    BY <2>1, StampOrder
  <2>3. \A n \in Nodes : \A f \in Fields : ~Newer(sidecar[n].stamps[f], versioned[n].stamps[f])
    BY <1>2, <2>2
  <2>. QED
    BY <1>2, <2>3 DEF SidecarBehind
<1>5. OwnStamps
  <2> SUFFICES ASSUME NEW v \in Circulating, NEW f \in Fields, NEW o, o = v.stamps[f].origin
               PROVE  v.stamps[f].counter <= versioned[o].clock /\ v.stamps[f].counter <= sidecar[o].clock
    BY DEF OwnStamps
  <2>1. PICK n \in Nodes : v = versioned[n]
    BY <1>3
  <2>2. v.stamps[f].counter = 1 /\ v.stamps[f].origin = n
    BY <1>2, <2>1
  <2>. QED
    BY <1>2, <2>2
<1>. QED
  BY <1>4, <1>5

LEMMA ClockStepInv == ClockInv /\ [Next]_vars => ClockInv'
<1> SUFFICES ASSUME ClockInv, [Next]_vars, NothingLost'
             PROVE  SidecarBehind' /\ OwnStamps'
  BY TypeStepInv DEF ClockInv
<1>1. TypeInv /\ TypeOK'
  BY StepKinds DEF ClockInv
<1>2. CASE Keeps
  <2>1. SidecarBehind /\ OwnStamps
    BY <1>2 DEF ClockInv, Keeps, NothingLost
  <2>. QED
    BY <1>2, <2>1 DEF Keeps, SidecarBehind, OwnStamps
<1>3. ASSUME NEW n \in Nodes, NEW x \in Versioned, Adopts(n, x)
      PROVE  SidecarBehind' /\ OwnStamps'
  <2>1. NothingLost
    BY <1>3 DEF Adopts, Becomes, NothingLost
  <2>. QED
    BY <1>1, <1>3, <2>1, AdoptsClocks
<1>4. ASSUME NEW n \in Nodes, Restarted(n)
      PROVE  SidecarBehind' /\ OwnStamps'
  <2>1. NothingLost
    BY <1>4 DEF Restarted, Becomes, NothingLost
  <2>. QED
    BY <1>4, <2>1, RestartClocks
<1>. QED
  BY <1>1, <1>2, <1>3, <1>4, StepKinds

\* "Subsequent local edits always carry a stamp higher than anything we've ever
\* observed" (versioned.rs), for any number of machines and every fault: until a
\* sidecar save is lost, a machine's clock is at least every stamp of its own in
\* any copy anywhere, and every copy's clock is at least its stamps.
THEOREM ClocksDominate == Spec => []ClockDominates
<1>1. ClockInv => ClockDominates
  BY DEF ClockInv, TypeInv, SoundCopies, ClockCovers, OwnStamps, NothingLost, ClockDominates
<1>. QED
  BY <1>1, ClockInitInv, ClockStepInv, PTL DEF Spec

-----------------------------------------------------------------------------
(* A stamp names one value.                                                  *)

AgreeOn(v, w) == \A f \in Fields : v.stamps[f] = w.stamps[f] => v.config[f] = w.config[f]

ValueInv == ClockInv /\ (ValuesFollowStamps => \A v, w \in Circulating : AgreeOn(v, w))

LEMMA ValueStepInv == ValueInv /\ [Next]_vars => ValueInv'
<1> SUFFICES ASSUME ValueInv, [Next]_vars, ValuesFollowStamps'
             PROVE  \A v, w \in Circulating' : AgreeOn(v, w)
  BY ClockStepInv DEF ValueInv
<1>1. TypeInv /\ TypeOK
  BY DEF ValueInv, ClockInv, TypeInv
<1>2. CASE Keeps
  BY <1>2 DEF ValueInv, Keeps, ValuesFollowStamps
<1>3. ASSUME NEW n \in Nodes, NEW x \in Versioned, Adopts(n, x)
      PROVE  \A v, w \in Circulating' : AgreeOn(v, w)
  <2>1. ValuesFollowStamps /\ NothingLost /\ "rollback" \notin breaches'
    BY <1>3 DEF Adopts, Becomes, ValuesFollowStamps, NothingLost
  <2>2. OwnStamps /\ \A v, w \in Circulating : AgreeOn(v, w)
    BY <2>1 DEF ValueInv, ClockInv
  <2>3. ASSUME NEW w \in Circulating, NEW f \in Fields, x.stamps[f] = w.stamps[f]
        PROVE  x.config[f] = w.config[f]
    <3>1. CASE Kept(n, x, f)
      BY <1>1, <2>1, <2>2, <2>3, <3>1, Typing, Zenon DEF Kept, AgreeOn
    <3>2. CASE Taken(n, x, f)
      BY <2>1, <2>2, <2>3, <3>2, ZenonT(30) DEF Taken, AgreeOn
    <3>3. CASE Fresh(n, x, f)
      <4>1. w.stamps[f].counter = versioned[n].clock + 1 /\ w.stamps[f].origin = n
        BY <2>3, <3>3 DEF Fresh
      <4>2. w.stamps[f].counter <= versioned[n].clock
        BY <2>2, <4>1 DEF OwnStamps
      <4>3. versioned[n].clock \in Nat
        BY <1>1, Typing
      <4>. QED
        BY <4>1, <4>2, <4>3
    <3>. QED
      BY <1>3, <3>1, <3>2, <3>3 DEF Adopts
  <2>4. \A w \in Circulating : AgreeOn(x, w) /\ AgreeOn(w, x)
    BY <2>3 DEF AgreeOn
  <2>5. AgreeOn(x, x) /\ Circulating' \subseteq Circulating \cup {x}
    BY <1>3 DEF AgreeOn, Adopts, Becomes
  <2>. QED
    BY <2>2, <2>4, <2>5
<1>4. ASSUME NEW n \in Nodes, Restarted(n)
      PROVE  \A v, w \in Circulating' : AgreeOn(v, w)
  <2> DEFINE x == FromParts(loaded[n], sidecar[n])
  <2>1. ValuesFollowStamps /\ NothingLost' /\ "unstamped_edit" \notin breaches'
    BY <1>4 DEF Restarted, Becomes, ValuesFollowStamps, NothingLost
  <2>2. /\ x.stamps = versioned[n].stamps /\ x.config = versioned[n].config
        /\ Circulating' \subseteq Circulating \cup {x}
    BY <1>1, <1>4, <2>1, RestartLoses
  <2> HIDE DEF x
  <2>3. versioned[n] \in Circulating /\ \A v, w \in Circulating : AgreeOn(v, w)
    BY <1>1, <2>1, Typing DEF ValueInv
  <2>4. \A v \in Circulating : AgreeOn(v, x) /\ AgreeOn(x, v)
    BY <2>2, <2>3 DEF AgreeOn
  <2>5. AgreeOn(x, x)
    BY DEF AgreeOn
  <2>. QED
    BY <2>2, <2>3, <2>4, <2>5
<1>. QED
  BY <1>1, <1>2, <1>3, <1>4, StepKinds

LEMMA ValueInitInv == Init => ValueInv
<1> SUFFICES ASSUME Init, ClockInv
             PROVE  \A v, w \in Circulating : AgreeOn(v, w)
  BY ClockInitInv DEF ValueInv
<1>1. PICK first \in [Nodes -> FirstConfigs] :
        /\ versioned = [n \in Nodes |-> Initial(first[n], n)]
        /\ session = [a \in Nodes |-> [b \in Nodes |-> Idle]]
        /\ orphans = {}
  BY DEF Init
<1>2. \A n \in Nodes : \A f \in Fields : versioned[n].stamps[f].origin = n
  BY <1>1 DEF Initial
<1>3. \A v \in Circulating : \E n \in Nodes : v = versioned[n]
  BY <1>1, IdleFacts DEF Circulating
<1>. QED
  BY <1>2, <1>3 DEF AgreeOn

\* What makes last-writer-wins deterministic: two copies anywhere with the same
\* stamp on a field hold the same value, for any number of machines, fields and
\* values, until a rollback, an edit nobody stamped or a lost sidecar.
THEOREM StampsName == Spec => []StampDeterminesValue
<1>1. ValueInv => StampDeterminesValue
  BY DEF ValueInv, ValuesFollowStamps, AgreeOn, StampDeterminesValue, Fields
<1>. QED
  BY <1>1, ValueInitInv, ValueStepInv, PTL DEF Spec

-----------------------------------------------------------------------------
(* Nothing goes back, and what is confirmed has arrived.                     *)

Undiminished == \A n \in Nodes : Covers(versioned'[n], versioned[n])

LEMMA NoRegress ==
    ASSUME TypeInv, [Next]_vars, NothingLost'
    PROVE  Undiminished
<1> SUFFICES ASSUME NEW m \in Nodes, NEW f \in SharedFields
             PROVE  ~Newer(versioned[m].stamps[f], versioned'[m].stamps[f])
  BY DEF Undiminished, Covers
<1>1. f \in Fields /\ versioned[m].stamps[f] \in Stamps
  BY Typing DEF TypeInv, Fields
<1>2. ASSUME versioned'[m].stamps = versioned[m].stamps
      PROVE  ~Newer(versioned[m].stamps[f], versioned'[m].stamps[f])
  <2>1. ~Newer(versioned[m].stamps[f], versioned[m].stamps[f])
    BY <1>1, StampOrder
  <2>. QED
    BY <1>2, <2>1
<1>3. CASE Keeps
  BY <1>2, <1>3 DEF Keeps
<1>4. ASSUME NEW n \in Nodes, NEW x \in Versioned, Adopts(n, x)
      PROVE  ~Newer(versioned[m].stamps[f], versioned'[m].stamps[f])
  <2>1. versioned'[m] = IF m = n THEN x ELSE versioned[m]
    BY <1>4 DEF Adopts, Becomes, TypeInv, TypeOK
  <2>2. ~Newer(versioned[n].stamps[f], x.stamps[f])
    BY <1>1, <1>4, AdoptsNewer
  <2>. QED
    BY <1>2, <2>1, <2>2
<1>5. ASSUME NEW n \in Nodes, Restarted(n)
      PROVE  versioned'[m].stamps = versioned[m].stamps
  BY <1>5, RestartLoses
<1>. QED
  BY <1>2, <1>3, <1>4, <1>5, StepKinds

\* No machine ever goes back to an older stamp of a shared field, whatever it
\* merges and in whatever order, unless it restarts from a sidecar that missed
\* a save.
THEOREM StampsOnlyGrow == Spec => StampsNeverRegress
<1> DEFINE Step == \A n \in Nodes : "stamps_lost" \notin breaches' => Covers(versioned'[n], versioned[n])
<1>1. TypeInv /\ [Next]_vars => [Step]_vars
  BY NoRegress DEF NothingLost, Undiminished
<1>. QED
  BY <1>1, TypeInitInv, TypeStepInv, PTL DEF Spec, StampsNeverRegress

\* Covers is about stamps alone, reflexive and transitive; v may be a head.
Stamped(v) == \A f \in SharedFields : v.stamps[f] \in Stamps

LEMMA CoversChain ==
    ASSUME NEW u, NEW v, NEW w, Stamped(u), Stamped(v), Stamped(w), Covers(w, v), Covers(v, u)
    PROVE  Covers(w, u)
<1> SUFFICES ASSUME NEW f \in SharedFields
             PROVE  ~Newer(u.stamps[f], w.stamps[f])
  BY DEF Covers
<1>1. ~Newer(u.stamps[f], v.stamps[f]) /\ ~Newer(v.stamps[f], w.stamps[f])
  BY DEF Covers
<1>2. u.stamps[f] \in Stamps /\ v.stamps[f] \in Stamps /\ w.stamps[f] \in Stamps
  BY DEF Stamped
<1>. QED
  BY <1>1, <1>2, NotNewer

LEMMA HeadCovers ==
    ASSUME NEW v \in Versioned
    PROVE  /\ Stamped(v) /\ Stamped(HeadHash(v)) /\ Covers(v, HeadHash(v))
           /\ \A w : Covers(w, HeadHash(v)) => Covers(w, v)
<1>1. \A f \in SharedFields : v.stamps[f] \in Stamps /\ HeadHash(v).stamps[f] = v.stamps[f]
  BY HeadFacts, StampOf
<1>2. ASSUME NEW f \in SharedFields
      PROVE  ~Newer(HeadHash(v).stamps[f], v.stamps[f])
  <2>1. ~Newer(v.stamps[f], v.stamps[f])
    BY <1>1, StampOrder
  <2>. QED
    BY <1>1, <2>1
<1>3. ASSUME NEW w, Covers(w, HeadHash(v)), NEW f \in SharedFields
      PROVE  ~Newer(v.stamps[f], w.stamps[f])
  <2>1. ~Newer(HeadHash(v).stamps[f], w.stamps[f])
    BY <1>3 DEF Covers
  <2>. QED
    BY <1>1, <2>1
<1>. QED
  BY <1>1, <1>2, <1>3 DEF Covers, Stamped

\* Where the head of a session has arrived, by the session's phase.
Progress(a, b) ==
    LET s == session[a][b]
    IN /\ s.phase = "dialing" => Covers(versioned[a], s.head)
       /\ s.phase = "sent" => Covers(s.frame, s.head)
       /\ s.phase \in {"replied", "ok"} => Covers(versioned[b], s.head)

Confirmed(a, b) == sync_confirmed[a][b] # None => Covers(versioned[b], sync_confirmed[a][b])

DeliveryInv ==
    TypeInv /\ (NothingLost => \A a, b \in Nodes : Progress(a, b) /\ Confirmed(a, b))

LEMMA HeadStamped == \A h \in Heads : Stamped(h)
  BY DEF Heads, Stamped

LEMMA ProgressStep ==
    ASSUME TypeInv, TypeOK', Undiminished, NEW a \in Nodes, NEW b \in Nodes,
           Progress(a, b), Exchange(a, b)
    PROVE  Progress(a, b)'
<1> DEFINE s == session[a][b]
           t == session'[a][b]
<1>1. s \in Sessions /\ t \in Sessions
  BY DEF TypeInv, TypeOK
<1>2. /\ s.phase # "idle" => s.head \in Heads
      /\ s.phase \in Carrying => s.frame \in Versioned
  BY <1>1, SessionFacts
<1>3. /\ versioned[a] \in Versioned /\ versioned[b] \in Versioned
      /\ versioned'[a] \in Versioned /\ versioned'[b] \in Versioned
  BY DEF TypeInv, TypeOK
<1>4. /\ Stamped(versioned[a]) /\ Stamped(versioned[b]) /\ Stamped(versioned'[a]) /\ Stamped(versioned'[b])
      /\ s.phase # "idle" => Stamped(s.head)
      /\ s.phase \in Carrying => Stamped(s.frame)
  BY <1>2, <1>3, HeadCovers, HeadStamped
<1>5. Covers(versioned'[a], versioned[a]) /\ Covers(versioned'[b], versioned[b])
  BY DEF Undiminished
<1>6. /\ s.phase = "dialing" => Covers(versioned[a], s.head)
      /\ s.phase = "sent" => Covers(s.frame, s.head)
      /\ s.phase \in {"replied", "ok"} => Covers(versioned[b], s.head)
  BY DEF Progress
<1>7. SUFFICES /\ t.phase = "dialing" => Covers(versioned'[a], t.head)
               /\ t.phase = "sent" => Covers(t.frame, t.head)
               /\ t.phase \in {"replied", "ok"} => Covers(versioned'[b], t.head)
  BY DEF Progress
<1>8. CASE t = s
  <2>1. s.phase = "dialing" => Covers(versioned'[a], s.head)
    BY <1>4, <1>5, <1>6, CoversChain
  <2>2. s.phase \in {"replied", "ok"} => Covers(versioned'[b], s.head)
    BY <1>4, <1>5, <1>6, CoversChain
  <2>. QED
    BY <1>6, <1>8, <2>1, <2>2
<1>9. CASE t.phase \in {"idle", "failed"}
  BY <1>9
<1>10. CASE t.phase = "dialing" /\ t.head = HeadHash(versioned'[a])
  <2>1. Covers(versioned'[a], HeadHash(versioned'[a]))
    BY <1>3, HeadCovers
  <2>. QED
    BY <1>10, <2>1
<1>11. CASE /\ s.phase = "dialing" /\ t.phase = "sent"
            /\ t.head = s.head /\ t.frame = versioned[a]
  BY <1>6, <1>11
<1>12. CASE /\ s.phase = "sent" /\ t.phase = "replied" /\ t.head = s.head
            /\ versioned'[b].stamps = Merge(versioned[b], s.frame).stamps
  <2>1. s.phase \in Carrying
    BY <1>12 DEF Carrying
  <2>2. Covers(Merge(versioned[b], s.frame), s.frame)
    BY <1>2, <1>3, <2>1, MergeCoversBoth
  <2>3. Covers(versioned'[b], s.frame)
    BY <1>12, <2>2 DEF Covers
  <2>4. Covers(versioned'[b], s.head)
    BY <1>4, <1>6, <1>12, <2>1, <2>3, CoversChain
  <2>. QED
    BY <1>12, <2>4
<1>13. CASE s.phase = "replied" /\ t.phase = "ok" /\ t.head = s.head
  <2>1. Covers(versioned'[b], s.head)
    BY <1>4, <1>5, <1>6, <1>13, CoversChain
  <2>. QED
    BY <1>13, <2>1
<1>. QED
  BY <1>8, <1>9, <1>10, <1>11, <1>12, <1>13 DEF Exchange

LEMMA ConfirmedStep ==
    ASSUME TypeInv, TypeOK', Undiminished, NEW a \in Nodes, NEW b \in Nodes,
           Progress(a, b), Confirmed(a, b), Notes(a, b)
    PROVE  Confirmed(a, b)'
<1>1. SUFFICES ASSUME sync_confirmed'[a][b] # None
               PROVE  Covers(versioned'[b], sync_confirmed'[a][b])
  BY DEF Confirmed
<1>2. /\ versioned[b] \in Versioned /\ versioned'[b] \in Versioned
      /\ sync_confirmed'[a][b] \in Heads \cup {None}
  BY DEF TypeInv, TypeOK
<1>3. /\ Stamped(versioned[b]) /\ Stamped(versioned'[b]) /\ Stamped(sync_confirmed'[a][b])
      /\ Covers(versioned'[b], versioned[b])
  BY <1>1, <1>2, HeadCovers, HeadStamped DEF Undiminished
<1>4. Covers(versioned[b], sync_confirmed'[a][b])
  BY <1>1 DEF Notes, Confirmed, Progress
<1>. QED
  BY <1>3, <1>4, CoversChain

LEMMA DeliveryInitInv == Init => DeliveryInv
<1> SUFFICES ASSUME Init
             PROVE  \A a, b \in Nodes : Progress(a, b) /\ Confirmed(a, b)
  BY TypeInitInv DEF DeliveryInv
<1>1. /\ session = [a \in Nodes |-> [b \in Nodes |-> Idle]]
      /\ sync_confirmed = [n \in Nodes |-> NoneConfirmed]
  BY DEF Init
<1>2. \A a, b \in Nodes : session[a][b].phase = "idle" /\ sync_confirmed[a][b] = None
  BY <1>1, IdleFacts DEF NoneConfirmed
<1>. QED
  BY <1>2 DEF Progress, Confirmed

LEMMA DeliveryStepInv == DeliveryInv /\ [Next]_vars => DeliveryInv'
<1> SUFFICES ASSUME DeliveryInv, [Next]_vars, NothingLost', NEW a \in Nodes, NEW b \in Nodes
             PROVE  Progress(a, b)' /\ Confirmed(a, b)'
  BY TypeStepInv DEF DeliveryInv
<1>1. TypeInv /\ TypeOK' /\ Undiminished
  BY NoRegress, StepKinds DEF DeliveryInv
<1>2. breaches \subseteq breaches'
  BY <1>1, StepKinds DEF Keeps, Adopts, Restarted, Becomes
<1>3. Progress(a, b) /\ Confirmed(a, b)
  BY <1>2 DEF DeliveryInv, NothingLost
<1>4. Exchange(a, b) /\ Notes(a, b)
  BY <1>1, Accounting DEF Accounted
<1>. QED
  BY <1>1, <1>3, <1>4, ProgressStep, ConfirmedStep

\* sync_confirmed stops a machine from dialing a peer only when the peer holds every
\* shared value the machine has, or one with a newer stamp, for any number of
\* machines, sessions crossing in any order, orphaned merges, crashes and failed
\* saves.  A rollback, an unstamped edit or a lost sidecar ends that for the values;
\* for the stamps only a lost sidecar does.
THEOREM ConfirmationIsSound == Spec => []ConfirmedMeansDelivered
<1>1. DeliveryInv /\ ValueInv => ConfirmedMeansDelivered
  <2> SUFFICES ASSUME DeliveryInv, ValueInv, NEW a \in Nodes, NEW b \in Nodes,
                      sync_confirmed[a][b] = HeadHash(versioned[a])
               PROVE  /\ NothingLost => Covers(versioned[b], versioned[a])
                      /\ ValuesFollowStamps => Holds(versioned[b], versioned[a])
    BY DEF ConfirmedMeansDelivered, NothingLost
  <2>1. TypeOK /\ versioned[a] \in Versioned /\ versioned[b] \in Versioned
    BY DEF DeliveryInv, TypeInv, TypeOK
  <2>2. sync_confirmed[a][b] # None
    BY <2>1, HeadFacts, NoneAssumption
  <2>3. ASSUME NothingLost
        PROVE  Covers(versioned[b], versioned[a])
    <3>1. Covers(versioned[b], HeadHash(versioned[a]))
      BY <2>2, <2>3 DEF DeliveryInv, Confirmed
    <3>. QED
      BY <2>1, <3>1, HeadCovers
  <2>4. ASSUME ValuesFollowStamps, NEW f \in SharedFields
        PROVE  \/ Newer(versioned[b].stamps[f], versioned[a].stamps[f])
               \/ /\ versioned[b].stamps[f] = versioned[a].stamps[f]
                  /\ versioned[b].config[f] = versioned[a].config[f]
    <3>1. ~Newer(versioned[a].stamps[f], versioned[b].stamps[f])
      BY <2>3, <2>4 DEF ValuesFollowStamps, NothingLost, Covers
    <3>2. versioned[a].stamps[f] \in Stamps /\ versioned[b].stamps[f] \in Stamps
      BY <2>1, StampOf
    <3>3. versioned[a] \in Circulating /\ versioned[b] \in Circulating
      BY <2>1, Whereabouts
    <3>4. versioned[b].stamps[f] = versioned[a].stamps[f] =>
              versioned[b].config[f] = versioned[a].config[f]
      BY <2>4, <3>3 DEF ValueInv, AgreeOn, Fields
    <3>. QED
      BY <3>1, <3>2, <3>4, StampOrder
  <2>. QED
    BY <2>3, <2>4 DEF Holds
<1>. QED
  BY <1>1, DeliveryInitInv, DeliveryStepInv, ValueInitInv, ValueStepInv, PTL DEF Spec

-----------------------------------------------------------------------------
(* The config that runs and the config in the file.                          *)

Noticed(n) ==
    breaches \cap {"save_failed", "unwatched_edit"} = {} =>
        (up[n] /\ ~fs_event[n] => toml[n] \notin ValidConfigs[n] \ {config[n]})

\* A start goes on only with a config it could load.
LoadedIsValid == \A n \in Nodes : loaded[n] \in ValidConfigs[n] \cup {None}

FileInv == TypeOK /\ RunsValidConfig /\ LoadedIsValid /\ \A n \in Nodes : Noticed(n)

\* The file, the running config and the watcher of all machines but n.
OthersKept(n) ==
    /\ breaches \subseteq breaches'
    /\ \A m \in Nodes \ {n} : /\ up'[m] = up[m] /\ config'[m] = config[m]
                              /\ toml'[m] = toml[m] /\ fs_event'[m] = fs_event[m]
                              /\ loaded'[m] = loaded[m]

LEMMA FilesOf ==
    ASSUME FileInv, TypeOK', NEW n \in Nodes, OthersKept(n),
           config'[n] \in ValidConfigs[n], loaded'[n] \in ValidConfigs[n] \cup {None}, Noticed(n)'
    PROVE  FileInv'
<1>1. \A m \in Nodes \ {n} : Noticed(m)'
  BY DEF OthersKept, FileInv, Noticed
<1>2. RunsValidConfig' /\ LoadedIsValid'
  BY DEF OthersKept, FileInv, RunsValidConfig, LoadedIsValid
<1>. QED
  BY <1>1, <1>2 DEF FileInv

LEMMA FilesKept ==
    ASSUME FileInv, TypeOK', UNCHANGED <<up, config, toml, fs_event, loaded>>,
           breaches \subseteq breaches'
    PROVE  FileInv'
  BY DEF FileInv, RunsValidConfig, LoadedIsValid, Noticed

LEMMA MergeFiles ==
    ASSUME FileInv, TypeOK', NEW n \in Nodes, NEW w, HandleMerge(n, w), UNCHANGED up
    PROVE  FileInv'
<1> DEFINE v == Merge(versioned[n], w)
<1>0. /\ up \in [Nodes -> BOOLEAN] /\ config \in [Nodes -> Configs] /\ fs_event \in [Nodes -> BOOLEAN]
      /\ toml \in [Nodes -> Configs \cup {BadFile}] /\ loaded[n] \in ValidConfigs[n] \cup {None}
  BY DEF FileInv, TypeOK, LoadedIsValid
<1> HIDE DEF v
<1>1. CASE UNCHANGED <<config, files, breaches>>
  BY <1>1, FilesKept DEF files
<1>2. CASE /\ v.config \in ValidConfigs[n]
           /\ config' = [config EXCEPT ![n] = v.config]
           /\ \E failed \in SUBSET {"toml", "sidecar"} :
                /\ toml' = IF "toml" \in failed THEN toml ELSE [toml EXCEPT ![n] = v.config]
                /\ fs_event' = [fs_event EXCEPT ![n] = @ \/ failed # {"toml", "sidecar"}]
                /\ breaches' = IF failed = {"toml", "sidecar"} THEN breaches \cup {"save_failed"}
                               ELSE breaches
           /\ UNCHANGED loaded
  <2>1. PICK failed \in SUBSET {"toml", "sidecar"} :
                /\ toml' = IF "toml" \in failed THEN toml ELSE [toml EXCEPT ![n] = v.config]
                /\ fs_event' = [fs_event EXCEPT ![n] = @ \/ failed # {"toml", "sidecar"}]
                /\ breaches' = IF failed = {"toml", "sidecar"} THEN breaches \cup {"save_failed"}
                               ELSE breaches
    BY <1>2
  <2>2. OthersKept(n)
    BY <1>0, <1>2, <2>1 DEF OthersKept
  <2>3. CASE failed = {"toml", "sidecar"}
    BY <1>0, <1>2, <2>1, <2>2, <2>3, FilesOf DEF Noticed
  <2>4. CASE failed # {"toml", "sidecar"}
    <3>1. fs_event'[n] = TRUE
      BY <1>0, <2>1, <2>4, ZenonT(30)
    <3>2. config'[n] \in ValidConfigs[n]
      BY <1>0, <1>2
    <3>3. Noticed(n)'
      BY <3>1 DEF Noticed
    <3>. QED
      BY <1>0, <1>2, <2>2, <3>2, <3>3, FilesOf
  <2>. QED
    BY <2>3, <2>4
<1>3. CASE /\ toml[n] \in ValidConfigs[n]
           /\ config' = [config EXCEPT ![n] = toml[n]]
           /\ breaches' = breaches \cup {"rollback"}
           /\ UNCHANGED files
  <2>1. OthersKept(n) /\ config'[n] = toml[n] /\ toml'[n] = toml[n]
    BY <1>0, <1>3 DEF OthersKept, files
  <2>2. Noticed(n)'
    BY <2>1 DEF Noticed
  <2>. QED
    BY <1>0, <1>3, <2>1, <2>2, FilesOf DEF files
<1>4. CASE /\ breaches' = breaches \cup {"kept_invalid"}
           /\ UNCHANGED config /\ UNCHANGED files
  BY <1>4, FilesKept DEF files
<1>. QED
  BY <1>1, <1>2, <1>3, <1>4 DEF HandleMerge, v

LEMMA EditFiles ==
    ASSUME FileInv, TypeOK', NEW n \in Nodes
    PROVE  /\ \A c \in Configs : SetConfig(n, c) => FileInv'
           /\ \A c \in Configs \cup {BadFile} : EditFile(n, c) => FileInv'
           /\ \A c \in Configs : CrashBetweenSaves(n, c) => FileInv'
           /\ HandleConfigChanged(n) => FileInv'
           /\ Crash(n) => FileInv'
           /\ LoadConfig(n) => FileInv'
           /\ Launch(n) => FileInv'
<1>0. /\ up \in [Nodes -> BOOLEAN] /\ config \in [Nodes -> Configs] /\ fs_event \in [Nodes -> BOOLEAN]
      /\ toml \in [Nodes -> Configs \cup {BadFile}] /\ config[n] \in ValidConfigs[n] /\ Noticed(n)
      /\ loaded \in [Nodes -> Configs \cup {None}] /\ loaded[n] \in ValidConfigs[n] \cup {None}
  BY DEF FileInv, TypeOK, RunsValidConfig, LoadedIsValid
<1>1. ASSUME NEW c \in Configs, SetConfig(n, c)
      PROVE  FileInv'
  <2>1. /\ toml' = [toml EXCEPT ![n] = c] /\ fs_event' = [fs_event EXCEPT ![n] = TRUE]
        /\ config' = [config EXCEPT ![n] = c] /\ UNCHANGED <<up, loaded, breaches>> /\ c \in ValidConfigs[n]
    BY <1>1 DEF SetConfig, ApplyLocalEdit
  <2>2. OthersKept(n) /\ config'[n] \in ValidConfigs[n] /\ Noticed(n)'
    BY <1>0, <2>1 DEF OthersKept, Noticed
  <2>. QED
    BY <1>0, <2>1, <2>2, FilesOf
<1>2. ASSUME NEW c \in Configs \cup {BadFile}, EditFile(n, c)
      PROVE  FileInv'
  <2>1. /\ toml' = [toml EXCEPT ![n] = c] /\ fs_event' = [fs_event EXCEPT ![n] = up[n]]
        /\ UNCHANGED <<up, config, loaded, breaches>>
    BY <1>2 DEF EditFile
  <2>2. OthersKept(n) /\ config'[n] \in ValidConfigs[n]
    BY <1>0, <2>1 DEF OthersKept
  <2>3. fs_event'[n] = up'[n]
    BY <1>0, <2>1
  <2>4. Noticed(n)'
    BY <2>3 DEF Noticed
  <2>. QED
    BY <1>0, <2>1, <2>2, <2>4, FilesOf
<1>3. ASSUME Stop(n), UNCHANGED <<config, loaded, breaches>>,
             \A m \in Nodes \ {n} : toml'[m] = toml[m]
      PROVE  FileInv'
  <2>1. up' = [up EXCEPT ![n] = FALSE] /\ fs_event' = [fs_event EXCEPT ![n] = FALSE]
    BY <1>3 DEF Stop
  <2>2. OthersKept(n) /\ config'[n] \in ValidConfigs[n] /\ Noticed(n)'
    BY <1>0, <1>3, <2>1 DEF OthersKept, Noticed
  <2>. QED
    BY <1>0, <1>3, <2>2, FilesOf
<1>4. ASSUME NEW c \in Configs, CrashBetweenSaves(n, c)
      PROVE  FileInv'
  <2>1. Stop(n) /\ UNCHANGED <<config, loaded, breaches>> /\ toml' = [toml EXCEPT ![n] = c]
    BY <1>4 DEF CrashBetweenSaves
  <2>2. \A m \in Nodes \ {n} : toml'[m] = toml[m]
    BY <1>0, <2>1
  <2>. QED
    BY <1>3, <2>1, <2>2
<1>5. ASSUME Crash(n)
      PROVE  FileInv'
  <2>1. Stop(n) /\ UNCHANGED <<config, loaded, breaches, toml>>
    BY <1>5 DEF Crash
  <2>. QED
    BY <1>3, <2>1
<1>6. ASSUME HandleConfigChanged(n)
      PROVE  FileInv'
  <2>1. CASE toml[n] \in ValidConfigs[n] \ {config[n]}
    <3>1. /\ config' = [config EXCEPT ![n] = toml[n]]
          /\ fs_event' = [fs_event EXCEPT ![n] = sidecar'[n] # sidecar[n]]
          /\ UNCHANGED <<up, toml, loaded, breaches>>
      BY <1>6, <2>1 DEF HandleConfigChanged, ApplyLocalEdit
    <3>2. OthersKept(n) /\ config'[n] = toml[n] /\ toml'[n] = toml[n]
      BY <1>0, <3>1 DEF OthersKept
    <3>3. Noticed(n)'
      BY <3>2 DEF Noticed
    <3>. QED
      BY <1>0, <2>1, <3>1, <3>2, <3>3, FilesOf
  <2>2. CASE toml[n] \notin ValidConfigs[n] \ {config[n]}
    <3>1. /\ fs_event' = [fs_event EXCEPT ![n] = FALSE]
          /\ UNCHANGED <<up, config, toml, loaded, breaches>>
      BY <1>6, <2>2 DEF HandleConfigChanged
    <3>2. OthersKept(n) /\ config'[n] \in ValidConfigs[n] /\ Noticed(n)'
      BY <1>0, <2>2, <3>1 DEF OthersKept, Noticed
    <3>. QED
      BY <1>0, <3>1, <3>2, FilesOf
  <2>. QED
    BY <2>1, <2>2
<1>7. ASSUME LoadConfig(n)
      PROVE  FileInv'
  <2>1. /\ loaded' = [loaded EXCEPT ![n] = toml[n]] /\ toml[n] \in ValidConfigs[n]
        /\ UNCHANGED <<up, config, toml, fs_event, breaches>>
    BY <1>7 DEF LoadConfig
  <2>2. OthersKept(n) /\ loaded'[n] = toml[n] /\ Noticed(n)'
    BY <1>0, <2>1 DEF OthersKept, Noticed
  <2>. QED
    BY <1>0, <2>1, <2>2, FilesOf
<1>8. ASSUME Launch(n)
      PROVE  FileInv'
  <2>1. /\ up' = [up EXCEPT ![n] = TRUE] /\ config' = [config EXCEPT ![n] = loaded[n]]
        /\ loaded' = [loaded EXCEPT ![n] = None]
        /\ loaded[n] # None /\ UNCHANGED <<toml, fs_event>> /\ breaches \subseteq breaches'
        /\ toml[n] # loaded[n] => "unwatched_edit" \in breaches'
    BY <1>8 DEF Launch
  <2>2. /\ OthersKept(n) /\ config'[n] = loaded[n] /\ toml'[n] = toml[n] /\ loaded'[n] = None
        /\ loaded[n] \in ValidConfigs[n]
    BY <1>0, <2>1 DEF OthersKept
  <2>3. Noticed(n)'
    BY <2>1, <2>2 DEF Noticed
  <2>. QED
    BY <2>2, <2>3, FilesOf
<1>. QED
  BY <1>1, <1>2, <1>4, <1>5, <1>6, <1>7, <1>8

LEMMA FileInitInv == Init => FileInv
<1> SUFFICES ASSUME Init
             PROVE  RunsValidConfig /\ LoadedIsValid /\ \A n \in Nodes : Noticed(n)
  BY TypeInitInv DEF FileInv, TypeInv
<1>. QED
  BY DEF Init, RunsValidConfig, LoadedIsValid, Noticed

LEMMA FileStepInv == TypeInv /\ FileInv /\ [Next]_vars => FileInv'
<1> SUFFICES ASSUME TypeInv, FileInv, [Next]_vars
             PROVE  FileInv'
  OBVIOUS
<1>0. TypeOK'
  BY StepKinds
<1>1. CASE UNCHANGED vars
  BY <1>0, <1>1, FilesKept DEF vars, files
<1>2. ASSUME NEW n \in Nodes, Edits(n)
      PROVE  FileInv'
  BY <1>0, <1>2, EditFiles DEF Edits
<1>3. ASSUME NEW n \in Nodes, ReconcileSyncSessions(n)
      PROVE  FileInv'
  BY <1>0, <1>3, FilesKept DEF ReconcileSyncSessions, files
<1>4. ASSUME NEW n \in Nodes, Local(n)
      PROVE  FileInv'
  BY <1>0, <1>3, <1>4, EditFiles DEF Local
<1>5. ASSUME NEW a \in Nodes, NEW b \in Nodes, ReceiveState(a, b) \/ FinishSession(a, b)
      PROVE  FileInv'
  BY <1>0, <1>5, MergeFiles DEF ReceiveState, FinishSession
<1>6. ASSUME NEW a \in Nodes, NEW b \in Nodes, Pairwise(a, b), ~(ReceiveState(a, b) \/ FinishSession(a, b))
      PROVE  FileInv'
  BY <1>0, <1>6, FilesKept DEF Pairwise, SendState, FailSession, BackoffExpires, PeerFound, PeerLost, files
<1>7. ASSUME NEW o \in orphans, MergeOrphan(o)
      PROVE  FileInv'
  <2>1. o.at \in Nodes
    BY DEF TypeInv, TypeOK
  <2>. QED
    BY <1>0, <1>7, <2>1, MergeFiles DEF MergeOrphan
<1>. QED
  BY <1>1, <1>2, <1>4, <1>5, <1>6, <1>7 DEF Next

\* The config a machine runs always validates, for any number of machines and
\* whatever peers send and an editor leaves in the file: handle_sync_op and
\* handle_config_changed validate before they adopt.
THEOREM ConfigAlwaysValid == Spec => []RunsValidConfig
<1>1. FileInv => RunsValidConfig
  BY DEF FileInv
<1>. QED
  BY <1>1, TypeInitInv, TypeStepInv, FileInitInv, FileStepInv, PTL DEF Spec

\* The file differs from the running config only while the watcher has an event
\* pending or the file does not load, until both files of a merge fail to save or the
\* file is saved between the load and the watch of a start.
THEOREM DriftAlwaysNoticed == Spec => []DriftIsNoticed
<1>1. FileInv => DriftIsNoticed
  BY DEF FileInv, Noticed, DriftIsNoticed
<1>. QED
  BY <1>1, TypeInitInv, TypeStepInv, FileInitInv, FileStepInv, PTL DEF Spec
=============================================================================
