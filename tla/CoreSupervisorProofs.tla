------------------------ MODULE CoreSupervisorProofs ------------------------
(***************************************************************************)
(* Proofs about CoreSupervisor for every set of pids, configs and screens  *)
(* and every choice of delays.                                             *)
(***************************************************************************)
EXTENDS CoreSupervisor, TLAPS

-----------------------------------------------------------------------------
(***************************************************************************)
(* The delay arithmetic.                                                   *)
(***************************************************************************)
\* restart_backoff keeps the delay and the remembered backoff between
\* MIN_BACKOFF and MAX_BACKOFF, and the delay within the cap of the role.
LEMMA BackoffBounds ==
    ASSUME NEW b \in MIN_BACKOFF .. MAX_BACKOFF, NEW role \in Roles
    PROVE  /\ RestartDelay(b, role) \in MIN_BACKOFF .. BackoffCap(role)
           /\ RestartDelay(b, role) \in MIN_BACKOFF .. MAX_BACKOFF
           /\ NextBackoff(b, role) \in MIN_BACKOFF .. MAX_BACKOFF
  BY BackoffAssumption DEF RestartDelay, NextBackoff, BackoffCap, Lesser, Roles

\* circuit_breaker_delay stays between the first cooldown and the cap.
LEMMA CooldownBounds ==
    ASSUME NEW n \in Nat, n >= MAX_FAST_FAILS
    PROVE  CircuitBreakerDelay(n) \in CIRCUIT_BREAKER_MIN .. CIRCUIT_BREAKER_MAX
<1> DEFINE k == Lesser(n - MAX_FAST_FAILS, 3)
           m == Doublings[1 + k]
<1>1. k \in 0 .. 3
  BY BackoffAssumption DEF Lesser
<1>2. m \in {1, 2, 4, 8}
  BY <1>1 DEF Doublings
<1> HIDE DEF m, k
<1>3. CIRCUIT_BREAKER_MIN * m \in Nat /\ CIRCUIT_BREAKER_MIN <= CIRCUIT_BREAKER_MIN * m
  BY <1>2, BackoffAssumption
<1>4. CircuitBreakerDelay(n) = Lesser(CIRCUIT_BREAKER_MIN * m, CIRCUIT_BREAKER_MAX)
  BY DEF CircuitBreakerDelay, m, k
<1> QED
  BY <1>3, <1>4, BackoffAssumption DEF Lesser

\* The delay schedule_restart arms respects the retry budget, and is never the
\* value that stands for "no timer".
LEMMA DelayBounds ==
    ASSUME NEW n \in 0 .. U32_MAX, NEW b \in MIN_BACKOFF .. MAX_BACKOFF, NEW role \in Roles
    PROVE  /\ ScheduledDelay(n, b, role) \in Nat \ {0}
           /\ n < MAX_FAST_FAILS =>
                ScheduledDelay(n, b, role) \in MIN_BACKOFF .. BackoffCap(role)
           /\ n >= MAX_FAST_FAILS =>
                ScheduledDelay(n, b, role) \in CIRCUIT_BREAKER_MIN .. CIRCUIT_BREAKER_MAX
<1>1. CASE n < MAX_FAST_FAILS
  BY <1>1, BackoffBounds, BackoffAssumption DEF ScheduledDelay
<1>2. CASE n >= MAX_FAST_FAILS
  BY <1>2, CooldownBounds, BackoffAssumption DEF ScheduledDelay
<1> QED
  BY <1>1, <1>2, BackoffAssumption

LEMMA IncrType ==
    ASSUME NEW n \in 0 .. U32_MAX
    PROVE  SaturatingIncr(n) \in 0 .. U32_MAX
  BY BackoffAssumption DEF SaturatingIncr, Lesser

-----------------------------------------------------------------------------
(***************************************************************************)
(* Type correctness.                                                       *)
(***************************************************************************)
LEMMA InitType == Init => TypeOK
<1> SUFFICES ASSUME Init PROVE TypeOK
  OBVIOUS
<1>1. MIN_BACKOFF \in MIN_BACKOFF .. MAX_BACKOFF /\ 0 \in 0 .. U32_MAX
  BY BackoffAssumption
<1>2. <<>> \in Seq([pid : Pids, line : Lines])
  OBVIOUS
<1> QED
  BY <1>1, <1>2 DEF Init, TypeOK, ProcStates, NotArmed

\* What a queued line can be: naming a peer implies that the name is a screen.
LEMMA LineType ==
    ASSUME NEW line \in Lines, line.kind \in {"peerConnected", "peerDisconnected"}
    PROVE  line.name \in Screens
  BY DEF Lines, ClientLines, ServerLines

LEMMA LogHead ==
    ASSUME TypeOK, core_log # <<>>
    PROVE  Head(core_log).pid \in Pids /\ Head(core_log).line \in Lines
<1> DEFINE Entry == [pid : Pids, line : Lines]
<1>1. core_log \in Seq(Entry)
  BY DEF TypeOK
<1> HIDE DEF Entry
<1>2. Head(core_log) \in Entry
  BY <1>1
<1> QED
  BY <1>2 DEF Entry

LEMMA ReleaseType ==
    ASSUME TypeOK, ReleaseChild
    PROVE  /\ procs' \in [Pids -> ProcStates]
           /\ child_pid' \in Pids \cup {NoPid}
           /\ child_kill' \in BOOLEAN
           /\ launched' \in Launches \cup {NoLaunch}
           /\ core_ready_at' \in {"None", "Recent", "Healthy"}
           /\ core_connect_deadline' \in BOOLEAN
           /\ restart_at' \in Nat
<1>1. procs' \in [Pids -> ProcStates]
  BY DEF TypeOK, ReleaseChild, AwaitExit, ProcStates
<1> QED
  BY <1>1 DEF ReleaseChild, NotArmed

LEMMA KillType ==
    ASSUME TypeOK, KillChild
    PROVE  procs' \in [Pids -> ProcStates] /\ child_kill' \in BOOLEAN
  BY DEF TypeOK, KillChild, ProcStates

LEMMA RestartType ==
    ASSUME TypeOK, RestartCore, config' \in Configs, up' \in BOOLEAN,
           user_stopped' \in BOOLEAN, desired_running' \in BOOLEAN, UNCHANGED core_log
    PROVE  TypeOK'
<1>1. MIN_BACKOFF \in MIN_BACKOFF .. MAX_BACKOFF /\ 0 \in 0 .. U32_MAX
  BY BackoffAssumption
<1> QED
  BY <1>1, ReleaseType DEF TypeOK, RestartCore, BeginResolving

LEMMA StartType ==
    ASSUME TypeOK, StartCore, config' \in Configs
    PROVE  /\ restart_at' \in Nat
           /\ state' \in {"Stopped", "Starting", "Running", "Reconnecting", "Crashed"}
           /\ connected_peers' \in SUBSET Screens
           /\ core_resolving' \in Configs \cup {NoConfig}
  BY DEF TypeOK, StartCore, SetState, BeginResolving, NotArmed

\* Every step keeps the type of every variable.
LEMMA TypeStep == TypeOK /\ [Next]_vars => TypeOK'
<1> SUFFICES ASSUME TypeOK, [Next]_vars PROVE TypeOK'
  OBVIOUS
<1> USE DEF intentVars, childVars, retryVars, watchVars
<1>a. MIN_BACKOFF \in MIN_BACKOFF .. MAX_BACKOFF /\ 0 \in 0 .. U32_MAX
  BY BackoffAssumption
<1>b. config.role \in Roles
  BY CoreAssumption DEF TypeOK
<1>1. CASE RequestStart
  BY <1>1, <1>a, StartType DEF TypeOK, RequestStart, PersistUserStopped
<1>2. CASE RequestStop
  BY <1>2, <1>a, ReleaseType DEF TypeOK, RequestStop, StopCore, SetState, PersistUserStopped
<1>3. CASE RequestRestart
  <2>1. config' \in Configs /\ up' \in BOOLEAN /\ user_stopped' \in BOOLEAN
          /\ desired_running' \in BOOLEAN /\ UNCHANGED core_log /\ RestartCore
    BY <1>3 DEF TypeOK, RequestRestart, PersistUserStopped
  <2> QED
    BY <2>1, RestartType
<1>4. ASSUME NEW c \in Configs, ChangeConfig(c) PROVE TypeOK'
  <2>1. CASE RestartCore
    <3>1. config' \in Configs /\ up' \in BOOLEAN /\ user_stopped' \in BOOLEAN
            /\ desired_running' \in BOOLEAN /\ UNCHANGED core_log
      BY <1>4 DEF TypeOK, ChangeConfig
    <3> QED
      BY <3>1, <2>1, RestartType
  <2>2. CASE ~RestartCore
    BY <1>4, <2>2 DEF TypeOK, ChangeConfig
  <2> QED
    BY <2>1, <2>2
<1>5. ASSUME NEW c \in Configs, RollbackAdoptsEdit(c) PROVE TypeOK'
  BY <1>5 DEF TypeOK, RollbackAdoptsEdit
<1>6. CASE RestartDue
  BY <1>6, StartType DEF TypeOK, RestartDue, NotArmed
<1>7. CASE ResolutionUnwanted
  BY <1>7 DEF TypeOK, ResolutionUnwanted
<1>8. CASE ResolutionFailed
  <2> DEFINE n == SaturatingIncr(fast_fail_count)
  <2>1. n \in 0 .. U32_MAX
    BY IncrType DEF TypeOK
  <2>2. restart_at' \in Nat /\ backoff' \in MIN_BACKOFF .. MAX_BACKOFF
    BY <1>8, <2>1, <1>b, DelayBounds, BackoffBounds DEF TypeOK, ResolutionFailed, ScheduleRestart
  <2> QED
    BY <1>8, <2>1, <2>2 DEF TypeOK, ResolutionFailed, SetState
<1>9. ASSUME NEW p \in Pids, SpawnChild(p) PROVE TypeOK'
  <2>1. launched' \in Launches
    BY <1>9 DEF TypeOK, SpawnChild, ResolutionWanted, Launches
  <2> QED
    BY <1>9, <2>1 DEF TypeOK, SpawnChild, SetState, ProcStates
<1>10. CASE CoreStalled
  BY <1>10, KillType DEF TypeOK, CoreStalled
<1>11. ASSUME NEW p \in Pids, IgnoreExit(p) PROVE TypeOK'
  BY <1>11 DEF TypeOK, IgnoreExit, ProcStates
<1>12. ASSUME NEW p \in Pids, HandleExit(p) PROVE TypeOK'
  <2> DEFINE n    == IF core_ready_at = "Healthy" THEN 0 ELSE SaturatingIncr(fast_fail_count)
             kept == IF core_ready_at = "Healthy" THEN MIN_BACKOFF ELSE backoff
  <2>1. n \in 0 .. U32_MAX /\ kept \in MIN_BACKOFF .. MAX_BACKOFF
    BY <1>a, IncrType DEF TypeOK
  <2>2. fast_fail_count' = n
    BY <1>12 DEF HandleExit
  <2> HIDE DEF n, kept
  <2>3. restart_at' \in Nat /\ backoff' \in MIN_BACKOFF .. MAX_BACKOFF
    BY <1>12, <2>1, <2>2, <1>b, DelayBounds, BackoffBounds, ZenonT(30)
    DEF TypeOK, HandleExit, kept
  <2> QED
    BY <1>12, <2>1, <2>2, <2>3 DEF TypeOK, HandleExit, SetState, ProcStates
<1>13. CASE HandleLogLine
  <2>1. core_log' \in Seq([pid : Pids, line : Lines])
    BY <1>13 DEF TypeOK, HandleLogLine
  <2>2. CASE Head(core_log).pid # child_pid
    BY <1>13, <2>1, <2>2 DEF TypeOK, HandleLogLine
  <2>3. CASE Head(core_log).pid = child_pid
    <3> DEFINE line == Head(core_log).line
    <3>1. line \in Lines
      BY <1>13, LogHead DEF HandleLogLine
    <3>2. HandleOwnLine(line)
      BY <1>13, <2>3 DEF HandleLogLine
    <3> HIDE DEF line
    <3>3. connected_peers' \in SUBSET Screens
      BY <3>1, <3>2, LineType DEF TypeOK, HandleOwnLine
    <3>4. procs' \in [Pids -> ProcStates] /\ child_kill' \in BOOLEAN
      BY <3>2, KillType DEF TypeOK, HandleOwnLine
    <3>5. core_ready_at' \in {"None", "Recent", "Healthy"} /\ core_connect_deadline' \in BOOLEAN
      BY <3>2 DEF TypeOK, HandleOwnLine
    <3> QED
      BY <1>13, <2>1, <3>3, <3>4, <3>5 DEF TypeOK, HandleLogLine
  <2> QED
    BY <2>2, <2>3
<1>14. ASSUME NEW line \in Lines, CorePrints(line) PROVE TypeOK'
  BY <1>14 DEF TypeOK, CorePrints
<1>15. ASSUME NEW p \in Pids, CoreExits(p) PROVE TypeOK'
  BY <1>15 DEF TypeOK, CoreExits, ProcStates
<1>16. CASE HealthyWindowPasses
  BY <1>16 DEF TypeOK, HealthyWindowPasses
<1>17. CASE DaemonStops \/ DaemonCrashes
  <2>1. procs' \in [Pids -> ProcStates]
    <3>1. ProcsAfterStop \in [Pids -> ProcStates]
      BY DEF ProcsAfterStop, ProcStates, TypeOK
    <3>2. ASSUME NEW unkilled PROVE ProcsAfterCrash(unkilled) \in [Pids -> ProcStates]
      BY DEF ProcsAfterCrash, ProcStates, TypeOK
    <3> QED
      BY <1>17, <3>1, <3>2 DEF DaemonStops, DaemonCrashes
  <2>2. DaemonGone
    BY <1>17 DEF DaemonStops, DaemonCrashes
  <2>3. core_log' \in Seq([pid : Pids, line : Lines])
    <3>1. core_log' = <<>>
      BY <2>2 DEF DaemonGone
    <3> QED
      BY <3>1
  <2> QED
    BY <2>1, <2>2, <2>3 DEF TypeOK, DaemonGone, SetState, NotArmed
<1>18. CASE Launch
  BY <1>18, <1>a, StartType DEF TypeOK, Launch
<1>19. CASE UNCHANGED vars
  BY <1>19 DEF TypeOK, vars
<1> QED
  BY <1>1, <1>2, <1>3, <1>4, <1>5, <1>6, <1>7, <1>8, <1>9, <1>10, <1>11, <1>12, <1>13,
     <1>14, <1>15, <1>16, <1>17, <1>18, <1>19 DEF Next, User, Loop, Environment

\* The supervisor's variables always have the types the Rust struct gives them.
THEOREM TypeCorrect == Spec => []TypeOK
  BY InitType, TypeStep, PTL DEF Spec

-----------------------------------------------------------------------------
(***************************************************************************)
(* The bookkeeping of the supervisor.  None of its three parts is          *)
(* inductive alone: that exactly one thing is pending needs the state to   *)
(* be honest (the early return of start_core looks at it), and both need   *)
(* the handles to belong to an owned child.                                *)
(***************************************************************************)
Bookkeeping == ExactlyOnePending /\ StateIsHonest /\ OwnChildAccountedFor

\* After restart_core a wanted start is in flight and nothing else is pending.
LEMMA RestartPending ==
    ASSUME TypeOK, Bookkeeping, RestartCore, up', desired_running', config' \in Configs
    PROVE  Bookkeeping'
<1>1. core_resolving' # NoConfig
  BY CoreAssumption DEF TypeOK, RestartCore, BeginResolving
<1>2. ~HasChild' /\ ~Waiting' /\ state' = "Starting" /\ ~child_kill' /\ launched' = NoLaunch
        /\ core_ready_at' = "None" /\ ~core_connect_deadline'
  BY DEF RestartCore, ReleaseChild, HasChild, Waiting
<1> QED
  BY <1>1, <1>2 DEF Bookkeeping, ExactlyOnePending, StateIsHonest, OwnChildAccountedFor, Resolving,
                    HasChild

\* The same for start_core when it finds no child.
LEMMA StartPending ==
    ASSUME TypeOK, Bookkeeping, StartCore, up', desired_running', config' \in Configs,
           UNCHANGED <<childVars, procs, watchVars>>
    PROVE  Bookkeeping'
<1> USE DEF childVars, watchVars, Bookkeeping, ExactlyOnePending, StateIsHonest,
            OwnChildAccountedFor, HasChild, Resolving, Waiting
<1>1. CASE HasChild
  BY <1>1 DEF StartCore
<1>2. CASE ~HasChild
  <2>1. state' = "Starting" /\ restart_at' = NotArmed
    BY <1>2 DEF StartCore, SetState
  <2>2. core_resolving' # NoConfig
    BY <1>2, CoreAssumption DEF TypeOK, StartCore, BeginResolving
  <2> QED
    BY <1>2, <2>1, <2>2
<1> QED
  BY <1>1, <1>2

\* Every step keeps the books.
LEMMA BookkeepingStep == TypeOK /\ Bookkeeping /\ [Next]_vars => Bookkeeping'
<1> SUFFICES ASSUME TypeOK, Bookkeeping, [Next]_vars PROVE Bookkeeping'
  OBVIOUS
<1> USE DEF intentVars, childVars, retryVars, watchVars
<1>b. config.role \in Roles
  BY CoreAssumption DEF TypeOK
<1>c. MIN_BACKOFF \in MIN_BACKOFF .. MAX_BACKOFF /\ 0 \in 0 .. U32_MAX
  BY BackoffAssumption
<1>1. CASE RequestStart
  BY <1>1, StartPending DEF RequestStart, TypeOK
<1>2. CASE RequestStop
  BY <1>2 DEF RequestStop, StopCore, SetState, ReleaseChild, Bookkeeping, ExactlyOnePending,
              StateIsHonest, OwnChildAccountedFor, HasChild, Waiting
<1>3. CASE RequestRestart
  BY <1>3, RestartPending DEF RequestRestart, TypeOK
<1>4. ASSUME NEW c \in Configs, ChangeConfig(c) PROVE Bookkeeping'
  <2>1. CASE desired_running /\ RestartCore
    BY <1>4, <2>1, RestartPending DEF ChangeConfig
  <2>2. CASE ~(desired_running /\ RestartCore)
    BY <1>4, <2>2 DEF ChangeConfig, Bookkeeping, ExactlyOnePending, StateIsHonest,
                      OwnChildAccountedFor, HasChild, Resolving, Waiting
  <2> QED
    BY <2>1, <2>2
<1>5. ASSUME NEW c \in Configs, RollbackAdoptsEdit(c) PROVE Bookkeeping'
  BY <1>5 DEF RollbackAdoptsEdit, Bookkeeping, ExactlyOnePending, StateIsHonest,
              OwnChildAccountedFor, HasChild, Resolving, Waiting
<1>6. CASE RestartDue
  <2>1. desired_running
    BY <1>6 DEF RestartDue, Bookkeeping, ExactlyOnePending, Waiting
  <2> QED
    BY <1>6, <2>1, StartPending DEF RestartDue, TypeOK
<1>7. CASE ResolutionUnwanted
  BY <1>7 DEF ResolutionUnwanted, Bookkeeping, ExactlyOnePending, StateIsHonest,
              OwnChildAccountedFor, HasChild, Resolving, Waiting
<1>8. CASE ResolutionFailed
  <2>1. restart_at' # NotArmed
    BY <1>8, <1>b, IncrType, DelayBounds DEF TypeOK, ResolutionFailed, ScheduleRestart, NotArmed
  <2> QED
    BY <1>8, <2>1 DEF ResolutionFailed, ResolutionWanted, SetState, Bookkeeping,
                      ExactlyOnePending, StateIsHonest, OwnChildAccountedFor, HasChild, Resolving,
                      Waiting
<1>9. ASSUME NEW p \in Pids, SpawnChild(p) PROVE Bookkeeping'
  <2>1. launched' # NoLaunch /\ p # NoPid
    <3>1. config \in Configs /\ core_resolving \in Configs
      BY <1>9, CoreAssumption DEF TypeOK, SpawnChild, ResolutionWanted
    <3>2. launched' = [args |-> CoreView(config), core |-> core_resolving.core]
      BY <1>9 DEF SpawnChild
    <3>. QED
      BY <1>9, <3>1, <3>2, NoLaunchAssumption, CoreAssumption DEF Launches
  <2>2. ~Waiting
    BY <1>9 DEF SpawnChild, ResolutionWanted, Bookkeeping, ExactlyOnePending, Resolving
  <2> QED
    BY <1>9, <2>1, <2>2 DEF TypeOK, SpawnChild, ResolutionWanted, SetState, Bookkeeping,
         ExactlyOnePending, StateIsHonest, OwnChildAccountedFor, HasChild, Resolving, Waiting
<1>10. CASE CoreStalled
  BY <1>10 DEF TypeOK, CoreStalled, KillChild, Bookkeeping, ExactlyOnePending, StateIsHonest,
               OwnChildAccountedFor, HasChild, Resolving, Waiting
<1>11. ASSUME NEW p \in Pids, IgnoreExit(p) PROVE Bookkeeping'
  BY <1>11 DEF TypeOK, IgnoreExit, Bookkeeping, ExactlyOnePending, StateIsHonest,
               OwnChildAccountedFor, HasChild, Resolving, Waiting
<1>12. ASSUME NEW p \in Pids, HandleExit(p) PROVE Bookkeeping'
  <2>1. up /\ desired_running /\ HasChild
    BY <1>12, CoreAssumption DEF HandleExit, Bookkeeping, ExactlyOnePending, HasChild
  <2> DEFINE kept == IF core_ready_at = "Healthy" THEN MIN_BACKOFF ELSE backoff
  <2>2. fast_fail_count' \in 0 .. U32_MAX /\ kept \in MIN_BACKOFF .. MAX_BACKOFF
    BY <1>12, <1>c, IncrType DEF TypeOK, HandleExit
  <2> HIDE DEF kept
  <2>3. restart_at' # NotArmed
    BY <1>12, <1>b, <2>1, <2>2, DelayBounds DEF HandleExit, NotArmed, kept
  <2> QED
    BY <1>12, <2>1, <2>3 DEF HandleExit, SetState, Bookkeeping,
         ExactlyOnePending, StateIsHonest, OwnChildAccountedFor, HasChild, Resolving, Waiting
<1>13. CASE HandleLogLine
  <2>1. CASE Head(core_log).pid # child_pid
    BY <1>13, <2>1 DEF HandleLogLine, Bookkeeping, ExactlyOnePending, StateIsHonest,
                       OwnChildAccountedFor, HasChild, Resolving, Waiting
  <2>2. CASE Head(core_log).pid = child_pid
    <3> DEFINE line == Head(core_log).line
    <3>1. HandleOwnLine(line)
      BY <1>13, <2>2 DEF HandleLogLine
    <3>2. HasChild
      BY <1>13, <2>2, LogHead, CoreAssumption DEF HandleLogLine, HasChild
    <3> HIDE DEF line
    <3>3. procs'[child_pid] \notin {"free", "orphan"}
      BY <3>1, <3>2 DEF HandleOwnLine, KillChild, TypeOK, HasChild, Bookkeeping,
                        OwnChildAccountedFor
    <3> QED
      BY <1>13, <3>2, <3>3 DEF HandleLogLine, Bookkeeping, ExactlyOnePending, StateIsHonest,
                               OwnChildAccountedFor, HasChild, Resolving, Waiting
  <2> QED
    BY <2>1, <2>2
<1>14. ASSUME NEW line \in Lines, CorePrints(line) PROVE Bookkeeping'
  BY <1>14 DEF CorePrints, Bookkeeping, ExactlyOnePending, StateIsHonest,
               OwnChildAccountedFor, HasChild, Resolving, Waiting
<1>15. ASSUME NEW p \in Pids, CoreExits(p) PROVE Bookkeeping'
  <2>1. ASSUME HasChild PROVE procs'[child_pid] \notin {"free", "orphan"}
    <3>1. up /\ child_pid \in Pids /\ procs[child_pid] # "free"
      BY <2>1 DEF TypeOK, HasChild, Bookkeeping, ExactlyOnePending, OwnChildAccountedFor
    <3>2. procs[child_pid] # "orphan"
      BY <2>1, <3>1 DEF HasChild, Bookkeeping, OwnChildAccountedFor
    <3> QED
      BY <1>15, <3>1, <3>2 DEF TypeOK, CoreExits
  <2> QED
    BY <1>15, <2>1 DEF CoreExits, Bookkeeping, ExactlyOnePending, StateIsHonest,
                       OwnChildAccountedFor, HasChild, Resolving, Waiting
<1>16. CASE HealthyWindowPasses
  BY <1>16 DEF HealthyWindowPasses, Bookkeeping, ExactlyOnePending, StateIsHonest,
               OwnChildAccountedFor, HasChild, Resolving, Waiting
<1>17. CASE DaemonStops \/ DaemonCrashes
  BY <1>17 DEF DaemonStops, DaemonCrashes, DaemonGone, SetState, Bookkeeping, ExactlyOnePending,
               StateIsHonest, OwnChildAccountedFor, HasChild, Resolving, Waiting
<1>18. CASE Launch
  <2>1. CASE user_stopped
    BY <1>18, <2>1 DEF Launch, Bookkeeping, ExactlyOnePending, StateIsHonest,
                       OwnChildAccountedFor, HasChild, Resolving, Waiting
  <2>2. CASE ~user_stopped
    BY <1>18, <2>2, StartPending DEF Launch, TypeOK
  <2> QED
    BY <2>1, <2>2
<1>19. CASE UNCHANGED vars
  BY <1>19 DEF vars, Bookkeeping, ExactlyOnePending, StateIsHonest,
               OwnChildAccountedFor, HasChild, Resolving, Waiting
<1> QED
  BY <1>1, <1>2, <1>3, <1>4, <1>5, <1>6, <1>7, <1>8, <1>9, <1>10, <1>11, <1>12, <1>13,
     <1>14, <1>15, <1>16, <1>17, <1>18, <1>19 DEF Next, User, Loop, Environment

-----------------------------------------------------------------------------
(***************************************************************************)
(* The safety properties that rest on the bookkeeping.                     *)
(***************************************************************************)
\* Nobody but the owned child is alive after stop_core has waited.
LEMMA ReleaseLeaksNothing ==
    ASSUME TypeOK, Bookkeeping, NoLeakedCore, ReleaseChild
    PROVE  \A p \in Pids : /\ procs'[p] # "alive"
                           /\ ParentDeathSignal => procs'[p] # "orphan"
<1> SUFFICES ASSUME NEW p \in Pids
             PROVE  procs'[p] # "alive" /\ (ParentDeathSignal => procs'[p] # "orphan")
  OBVIOUS
<1>1. /\ procs[p] = "alive" => p = child_pid /\ child_kill
      /\ ParentDeathSignal => procs[p] # "orphan"
  BY DEF NoLeakedCore
<1> QED
  BY <1>1 DEF ReleaseChild, AwaitExit, TypeOK

\* No step leaks a Core.
LEMMA NoLeakStep ==
    TypeOK /\ Bookkeeping /\ NoLeakedCore /\ [Next]_vars => NoLeakedCore'
<1> SUFFICES ASSUME TypeOK, Bookkeeping, NoLeakedCore, [Next]_vars PROVE NoLeakedCore'
  OBVIOUS
<1> USE DEF intentVars, childVars, retryVars, watchVars
<1>k. ASSUME KillChild, UNCHANGED child_pid PROVE NoLeakedCore'
  BY <1>k DEF KillChild, NoLeakedCore, TypeOK, Bookkeeping, OwnChildAccountedFor, HasChild
<1>1. CASE RequestStop \/ RequestRestart \/ \E c \in Configs : ChangeConfig(c)
  <2>1. CASE ReleaseChild
    BY <2>1, ReleaseLeaksNothing DEF NoLeakedCore
  <2>2. CASE UNCHANGED <<childVars, procs>>
    BY <2>2 DEF NoLeakedCore
  <2> QED
    BY <1>1, <2>1, <2>2 DEF RequestStop, StopCore, RequestRestart, RestartCore, ChangeConfig
<1>2. ASSUME NEW p \in Pids, SpawnChild(p) PROVE NoLeakedCore'
  BY <1>2 DEF SpawnChild, ResolutionWanted, NoLeakedCore, TypeOK
<1>3. ASSUME NEW p \in Pids, IgnoreExit(p) \/ HandleExit(p) PROVE NoLeakedCore'
  BY <1>3 DEF IgnoreExit, HandleExit, NoLeakedCore, TypeOK
<1>4. CASE CoreStalled
  BY <1>4, <1>k DEF CoreStalled
<1>5. CASE HandleLogLine
  <2>1. KillChild \/ UNCHANGED <<child_kill, procs>>
    BY <1>5 DEF HandleLogLine, HandleOwnLine
  <2> QED
    BY <1>5, <2>1, <1>k DEF HandleLogLine, NoLeakedCore
<1>6. ASSUME NEW p \in Pids, CoreExits(p) PROVE NoLeakedCore'
  BY <1>6 DEF CoreExits, NoLeakedCore, TypeOK
<1>7. CASE DaemonStops
  BY <1>7 DEF DaemonStops, ProcsAfterStop, NoLeakedCore, TypeOK, ProcStates
<1>9. CASE DaemonCrashes
  <2> PICK unkilled \in SUBSET Pids : procs' = ProcsAfterCrash(unkilled)
    BY <1>9 DEF DaemonCrashes
  <2> QED
    BY DEF ProcsAfterCrash, NoLeakedCore, TypeOK, ProcStates
<1>8. CASE UNCHANGED <<childVars, procs>>
  BY <1>8 DEF NoLeakedCore
<1> QED
  BY <1>1, <1>2, <1>3, <1>4, <1>5, <1>6, <1>7, <1>8, <1>9
  DEF Next, User, Loop, Environment, vars, RequestStart, RollbackAdoptsEdit, RestartDue,
      ResolutionUnwanted, ResolutionFailed, CorePrints, HealthyWindowPasses, Launch

\* No step leaves an unready child without its watchdog.
LEMMA WatchStep ==
    TypeOK /\ Bookkeeping /\ UnreadyCoreIsWatched /\ [Next]_vars => UnreadyCoreIsWatched'
<1> SUFFICES ASSUME TypeOK, Bookkeeping, UnreadyCoreIsWatched, [Next]_vars
             PROVE  UnreadyCoreIsWatched'
  OBVIOUS
<1> USE DEF intentVars, childVars, retryVars, watchVars, HasChild
<1>1. CASE ~HasChild'
  BY <1>1 DEF UnreadyCoreIsWatched
<1>2. ASSUME NEW p \in Pids, SpawnChild(p) PROVE UnreadyCoreIsWatched'
  BY <1>2 DEF SpawnChild, UnreadyCoreIsWatched
<1>3. CASE CoreStalled
  BY <1>3 DEF CoreStalled, KillChild, UnreadyCoreIsWatched
<1>4. CASE HandleLogLine
  BY <1>4 DEF HandleLogLine, HandleOwnLine, KillChild, Ready, DisarmsWatchdog,
           UnreadyCoreIsWatched
<1>5. CASE HealthyWindowPasses
  BY <1>5 DEF HealthyWindowPasses, UnreadyCoreIsWatched
<1>6. CASE UNCHANGED <<childVars, watchVars>>
  BY <1>6 DEF UnreadyCoreIsWatched
<1> QED
  BY <1>1, <1>2, <1>3, <1>4, <1>5, <1>6
  DEF Next, User, Loop, Environment, vars, RequestStart, RequestStop, StopCore, ReleaseChild,
      RequestRestart, RestartCore, ChangeConfig, RollbackAdoptsEdit, RestartDue,
      ResolutionUnwanted, ResolutionFailed, IgnoreExit, HandleExit, CorePrints, CoreExits,
      DaemonStops, DaemonCrashes, DaemonGone, Launch

\* No step shows peers without a running Core.
LEMMA PeersStep ==
    TypeOK /\ Bookkeeping /\ PeersOnlyWhileRunning /\ [Next]_vars => PeersOnlyWhileRunning'
<1> SUFFICES ASSUME TypeOK, Bookkeeping, PeersOnlyWhileRunning, [Next]_vars
             PROVE  PeersOnlyWhileRunning'
  OBVIOUS
<1> USE DEF intentVars, childVars, retryVars, watchVars
<1>1. ASSUME NEW s, SetState(s) PROVE PeersOnlyWhileRunning'
  BY <1>1 DEF SetState, PeersOnlyWhileRunning
<1>2. CASE UNCHANGED <<state, connected_peers>>
  BY <1>2 DEF PeersOnlyWhileRunning
<1>3. CASE RestartCore
  BY <1>3 DEF RestartCore, PeersOnlyWhileRunning
<1>4. CASE HandleLogLine
  <2>1. CASE Head(core_log).pid = child_pid
    <3>1. HasChild
      BY <1>4, <2>1, LogHead, CoreAssumption DEF HandleLogLine, HasChild
    <3> QED
      BY <1>4, <3>1 DEF HandleLogLine, PeersOnlyWhileRunning, Bookkeeping, StateIsHonest
  <2>2. CASE Head(core_log).pid # child_pid
    BY <1>4, <2>2, <1>2 DEF HandleLogLine
  <2> QED
    BY <2>1, <2>2
<1> QED
  BY <1>1, <1>2, <1>3, <1>4
  DEF Next, User, Loop, Environment, vars, RequestStart, StartCore, RequestStop, StopCore,
      RequestRestart, ChangeConfig, RollbackAdoptsEdit, RestartDue, ResolutionUnwanted,
      ResolutionFailed, SpawnChild, CoreStalled, IgnoreExit, HandleExit, CorePrints, CoreExits,
      HealthyWindowPasses, DaemonStops, DaemonCrashes, DaemonGone, Launch

\* No step arms, or leaves armed, a delay outside the budget of its failure count.
RetryBudget == ~EditMayRace => RetryDelayWithinBudget

LEMMA RetryStep ==
    TypeOK /\ Bookkeeping /\ RetryBudget /\ [Next]_vars => RetryBudget'
<1> SUFFICES ASSUME TypeOK, Bookkeeping, ~EditMayRace, RetryDelayWithinBudget, [Next]_vars
             PROVE  RetryDelayWithinBudget'
  BY DEF RetryBudget
<1> USE DEF intentVars, childVars, retryVars, watchVars
<1>a. config.role \in Roles
  BY CoreAssumption DEF TypeOK
<1>b. ASSUME NEW n \in 0 .. U32_MAX, NEW b \in MIN_BACKOFF .. MAX_BACKOFF,
             fast_fail_count' = n, restart_at' = ScheduledDelay(n, b, config.role),
             UNCHANGED config
      PROVE  RetryDelayWithinBudget'
  <2>1. BackoffCap(config.role) \in Nat
    BY BackoffAssumption DEF BackoffCap
  <2> QED
    BY <1>a, <1>b, <2>1, DelayBounds, BackoffAssumption DEF RetryDelayWithinBudget, BackoffCap
<1>1. CASE restart_at' = NotArmed
  BY <1>1 DEF RetryDelayWithinBudget, Waiting
<1>2. CASE ResolutionFailed
  <2>1. SaturatingIncr(fast_fail_count) \in 0 .. U32_MAX
    BY IncrType DEF TypeOK
  <2> QED
    BY <1>2, <2>1, <1>b DEF ResolutionFailed, ScheduleRestart, TypeOK
<1>3. ASSUME NEW p \in Pids, HandleExit(p) PROVE RetryDelayWithinBudget'
  <2>1. desired_running
    BY <1>3, CoreAssumption DEF HandleExit, Bookkeeping, ExactlyOnePending, HasChild
  <2> DEFINE kept == IF core_ready_at = "Healthy" THEN MIN_BACKOFF ELSE backoff
  <2>2. fast_fail_count' \in 0 .. U32_MAX /\ kept \in MIN_BACKOFF .. MAX_BACKOFF
    BY <1>3, IncrType, BackoffAssumption DEF HandleExit, TypeOK
  <2>3. restart_at' = ScheduledDelay(fast_fail_count', kept, config.role)
    BY <1>3, <2>1 DEF HandleExit
  <2> QED
    BY <1>3, <2>2, <2>3, <1>b DEF HandleExit
<1>4. CASE Launch
  BY <1>4 DEF Launch, StartCore, Bookkeeping, ExactlyOnePending, Waiting, RetryDelayWithinBudget
<1>5. CASE UNCHANGED <<restart_at, fast_fail_count, config>>
  BY <1>5 DEF RetryDelayWithinBudget, Waiting
<1>6. ASSUME NEW c \in Configs, ChangeConfig(c), restart_at' # NotArmed
      PROVE  RetryDelayWithinBudget'
  <2>1. UNCHANGED <<restart_at, fast_fail_count>> /\ ~RestartCore
    BY <1>6 DEF ChangeConfig, RestartCore, ReleaseChild
  <2>2. desired_running
    BY <1>6, <2>1 DEF Bookkeeping, ExactlyOnePending, Waiting
  <2>3. config'.role = config.role
    BY <1>6, <2>1, <2>2 DEF ChangeConfig, CoreInputsDiffer, CoreView
  <2> QED
    BY <2>1, <2>3 DEF RetryDelayWithinBudget, Waiting
<1> QED
  BY <1>1, <1>2, <1>3, <1>4, <1>5, <1>6
  DEF Next, User, Loop, Environment, vars, RequestStart, StartCore, RequestStop, StopCore,
      ReleaseChild, RequestRestart, RestartCore, RollbackAdoptsEdit, RestartDue,
      ResolutionUnwanted, SpawnChild, CoreStalled, IgnoreExit, HandleLogLine, CorePrints,
      CoreExits, HealthyWindowPasses, DaemonStops, DaemonCrashes, DaemonGone

\* Unless a rejected merge adopts an edit, no step parts the running Core from
\* the config in force.
FilesFollowConfig == ~EditMayRace => LaunchedFromLiveConfig

LEMMA FilesStep ==
    TypeOK /\ Bookkeeping /\ FilesFollowConfig /\ [Next]_vars => FilesFollowConfig'
<1> SUFFICES ASSUME TypeOK, Bookkeeping, ~EditMayRace, LaunchedFromLiveConfig, [Next]_vars
             PROVE  LaunchedFromLiveConfig'
  BY DEF FilesFollowConfig
<1> USE DEF intentVars, childVars, retryVars, watchVars
<1>1. CASE ~HasChild'
  BY <1>1 DEF LaunchedFromLiveConfig
<1>2. ASSUME NEW p \in Pids, SpawnChild(p) PROVE LaunchedFromLiveConfig'
  BY <1>2 DEF SpawnChild, LaunchedFromLiveConfig
<1>3. ASSUME NEW c \in Configs, ChangeConfig(c), HasChild' PROVE LaunchedFromLiveConfig'
  <2>1. UNCHANGED <<child_pid, launched>>
    BY <1>3 DEF ChangeConfig, RestartCore, ReleaseChild, HasChild
  <2>2. desired_running
    BY <1>3, <2>1 DEF Bookkeeping, ExactlyOnePending, HasChild
  <2>3. CoreView(config) = CoreView(c)
    BY <1>3, <2>2 DEF ChangeConfig, CoreInputsDiffer, RestartCore, ReleaseChild, HasChild
  <2> QED
    BY <1>3, <2>1, <2>3 DEF ChangeConfig, LaunchedFromLiveConfig, HasChild
<1>4. CASE UNCHANGED <<config, child_pid, launched>>
  BY <1>4 DEF LaunchedFromLiveConfig, HasChild
<1> QED
  BY <1>1, <1>2, <1>3, <1>4
  DEF Next, User, Loop, Environment, vars, RequestStart, RequestStop, StopCore,
      ReleaseChild, RequestRestart, RestartCore, RollbackAdoptsEdit, RestartDue, HasChild,
      ResolutionUnwanted, ResolutionFailed, CoreStalled, IgnoreExit, HandleExit, HandleLogLine,
      CorePrints, CoreExits, HealthyWindowPasses, DaemonStops, DaemonCrashes, DaemonGone, Launch

-----------------------------------------------------------------------------
(***************************************************************************)
(* The invariants, together.                                               *)
(***************************************************************************)
IInv ==
    /\ TypeOK
    /\ Bookkeeping
    /\ NoLeakedCore
    /\ UnreadyCoreIsWatched
    /\ PeersOnlyWhileRunning
    /\ RetryBudget
    /\ FilesFollowConfig

LEMMA InitIInv == Init => IInv
<1> SUFFICES ASSUME Init PROVE IInv
  OBVIOUS
<1>1. core_resolving # NoConfig
  BY CoreAssumption DEF Init
<1> QED
  BY <1>1, InitType
  DEF Init, IInv, Bookkeeping, ExactlyOnePending, StateIsHonest, OwnChildAccountedFor,
      NoLeakedCore, UnreadyCoreIsWatched, PeersOnlyWhileRunning, RetryBudget,
      RetryDelayWithinBudget, FilesFollowConfig, LaunchedFromLiveConfig, HasChild, Resolving, Waiting

LEMMA IInvStep == IInv /\ [Next]_vars => IInv'
  BY TypeStep, BookkeepingStep, NoLeakStep, WatchStep, PeersStep, RetryStep, FilesStep DEF IInv

LEMMA IInvAlways == Spec => []IInv
  BY InitIInv, IInvStep, PTL DEF Spec

\* While sharing is wanted exactly one of a child, a resolution and a restart
\* timer exists; otherwise neither child nor timer: start_core, stop_core and
\* the exit handler never strand the supervisor and never start twice.
THEOREM NeverStranded == Spec => []ExactlyOnePending
<1>1. IInv => ExactlyOnePending
  BY DEF IInv, Bookkeeping
<1> QED
  BY <1>1, IInvAlways, PTL

\* The state that set_state reports is what is going on.
THEOREM StateHonest == Spec => []StateIsHonest
<1>1. IInv => StateIsHonest
  BY DEF IInv, Bookkeeping
<1> QED
  BY <1>1, IInvAlways, PTL

\* The exit report of the owned child is never lost, and handles, timers and
\* readiness never outlive it.
THEOREM ChildAccountedFor == Spec => []OwnChildAccountedFor
<1>1. IInv => OwnChildAccountedFor
  BY DEF IInv, Bookkeeping
<1> QED
  BY <1>1, IInvAlways, PTL

\* Superseding, stopping and restarting never leak a Core that nobody can kill any
\* more, and neither does a crash of the daemon where the kernel delivers the
\* parent-death signal (ParentDeathSignal, Linux); elsewhere only a crash does.
THEOREM NoLeak == Spec => []NoLeakedCore
<1>1. IInv => NoLeakedCore
  BY DEF IInv
<1> QED
  BY <1>1, IInvAlways, PTL

\* A child that has not reported readiness is guarded by the connect watchdog.
THEOREM Watched == Spec => []UnreadyCoreIsWatched
<1>1. IInv => UnreadyCoreIsWatched
  BY DEF IInv
<1> QED
  BY <1>1, IInvAlways, PTL

\* No late line of a replaced Core shows a peer while none is running.
THEOREM PeersHonest == Spec => []PeersOnlyWhileRunning
<1>1. IInv => PeersOnlyWhileRunning
  BY DEF IInv
<1> QED
  BY <1>1, IInvAlways, PTL

\* Unless a rejected merge adopts an edit, every armed delay lies in the budget of
\* its failure count and of the role in force, for every choice of the backoff
\* constants.
THEOREM DelayWithinBudget ==
    ASSUME ~EditMayRace
    PROVE  Spec => []RetryDelayWithinBudget
<1>1. IInv => RetryDelayWithinBudget
  BY DEF IInv, RetryBudget
<1> QED
  BY <1>1, IInvAlways, PTL

\* Unless a rejected merge adopts an edit that the file watcher has not
\* delivered, the running Core was launched from the config in force.
THEOREM FilesLive ==
    ASSUME ~EditMayRace
    PROVE  Spec => []LaunchedFromLiveConfig
<1>1. IInv => LaunchedFromLiveConfig
  BY DEF IInv, FilesFollowConfig
<1> QED
  BY <1>1, IInvAlways, PTL
-----------------------------------------------------------------------------
(***************************************************************************)
(* The user's intent across launches.                                      *)
(***************************************************************************)
\* As long as writing the marker does not fail, it records the last request.
IntentRecorded == ~MarkerMayFail => user_stopped = ~desired_running

LEMMA IntentStep == TypeOK /\ IntentRecorded /\ [Next]_vars => IntentRecorded'
<1> SUFFICES ASSUME TypeOK, ~MarkerMayFail, user_stopped = ~desired_running, [Next]_vars
             PROVE  user_stopped' = ~desired_running'
  BY DEF IntentRecorded
<1> USE DEF intentVars
<1>1. CASE RequestStart \/ RequestStop \/ RequestRestart
  BY <1>1 DEF RequestStart, RequestStop, RequestRestart, PersistUserStopped
<1>2. CASE Launch
  BY <1>2 DEF Launch, TypeOK
<1>3. CASE UNCHANGED intentVars
  BY <1>3
<1> QED
  BY <1>1, <1>2, <1>3
  DEF Next, User, Loop, Environment, vars, ChangeConfig, RollbackAdoptsEdit, RestartDue,
      ResolutionUnwanted, ResolutionFailed, SpawnChild, CoreStalled, IgnoreExit, HandleExit,
      HandleLogLine, CorePrints, CoreExits, HealthyWindowPasses, DaemonStops, DaemonCrashes,
      DaemonGone

\* A launch resumes what the user last asked for, provided the marker file could
\* be written and removed (persist_user_stopped, Supervisor::new).
THEOREM IntentHonoured ==
    ASSUME ~MarkerMayFail
    PROVE  Spec => LaunchHonoursIntent
<1>1. Init => IntentRecorded
  BY DEF Init, IntentRecorded
<1>2. TypeOK /\ IntentRecorded /\ [Next]_vars
        => [~up /\ up' => desired_running' = desired_running]_vars
  BY DEF IntentRecorded, TypeOK, Next, User, Loop, Environment, RequestStart, RequestStop,
         RequestRestart, ChangeConfig, RollbackAdoptsEdit, RestartDue, ResolutionUnwanted,
         ResolutionFailed, ResolutionWanted, SpawnChild, CoreStalled, IgnoreExit, HandleExit,
         HandleLogLine, CorePrints, CoreExits, HealthyWindowPasses, DaemonStops, DaemonCrashes,
         DaemonGone, Launch
<1> QED
  BY <1>1, <1>2, IntentStep, TypeCorrect, PTL DEF Spec, LaunchHonoursIntent

-----------------------------------------------------------------------------
(***************************************************************************)
(* Refinement: the supervisor implements CoreSlot.                         *)
(***************************************************************************)
LEMMA SlotInit == Init => Slot!Init
<1> SUFFICES ASSUME Init PROVE Slot!Init
  OBVIOUS
<1>1. core_resolving # NoConfig
  BY CoreAssumption DEF Init
<1> QED
  BY <1>1 DEF Init, Slot!Init, SlotPhase, HasChild, Resolving, Waiting

\* What the phase is, given the bookkeeping.
LEMMA PhaseOfPending ==
    ASSUME Bookkeeping
    PROVE  /\ HasChild => SlotPhase = "filled"
           /\ ~HasChild /\ up /\ desired_running => SlotPhase = "pending"
           /\ ~(up /\ desired_running) => SlotPhase = "off"
  BY DEF Bookkeeping, ExactlyOnePending, SlotPhase

LEMMA PhaseOfPendingNext ==
    ASSUME Bookkeeping'
    PROVE  /\ HasChild' => SlotPhase' = "filled"
           /\ ~HasChild' /\ up' /\ desired_running' => SlotPhase' = "pending"
           /\ ~(up' /\ desired_running') => SlotPhase' = "off"
  BY DEF Bookkeeping, ExactlyOnePending, SlotPhase

LEMMA SlotStep ==
    TypeOK /\ Bookkeeping /\ Bookkeeping' /\ [Next]_vars => [Slot!Next]_(Slot!slotVars)
<1> SUFFICES ASSUME TypeOK, Bookkeeping, Bookkeeping', [Next]_vars
             PROVE  [Slot!Next]_(Slot!slotVars)
  OBVIOUS
<1> USE DEF intentVars, childVars, retryVars, watchVars, HasChild
<1> USE PhaseOfPending, PhaseOfPendingNext
<1>a. HasChild => up /\ desired_running
  BY DEF Bookkeeping, ExactlyOnePending
<1>1. CASE RequestStart
  <2>1. up /\ up' /\ desired_running' /\ UNCHANGED child_pid
    BY <1>1 DEF RequestStart, TypeOK
  <2>2. SlotPhase # "off" => UNCHANGED SlotPhase
    BY <2>1, <1>a
  <2>3. SlotPhase = "off" => SlotPhase' = "pending" /\ child_pid' = NoPid
    BY <2>1, <1>a
  <2>4. Slot!Want
    BY <1>1, <2>1, <2>2, <2>3 DEF Slot!Want, Slot!Empty, RequestStart
  <2> QED
    BY <2>4 DEF Slot!Next
<1>2. CASE RequestStop
  <2>1. Slot!Unwant
    BY <1>2 DEF RequestStop, StopCore, ReleaseChild, Slot!Unwant, Slot!Empty
  <2> QED
    BY <2>1 DEF Slot!Next
<1>3. CASE RequestRestart
  <2>1. Slot!Bounce
    BY <1>3 DEF RequestRestart, RestartCore, ReleaseChild, Slot!Bounce, Slot!Empty
  <2> QED
    BY <2>1 DEF Slot!Next
<1>4. ASSUME NEW c \in Configs, ChangeConfig(c) PROVE [Slot!Next]_(Slot!slotVars)
  <2>1. CASE desired_running /\ RestartCore
    <3>1. Slot!Bounce
      BY <1>4, <2>1 DEF ChangeConfig, RestartCore, ReleaseChild, Slot!Bounce, Slot!Empty, TypeOK
    <3> QED
      BY <3>1 DEF Slot!Next
  <2>2. CASE ~(desired_running /\ RestartCore)
    BY <1>4, <2>2 DEF ChangeConfig, Slot!slotVars, SlotPhase, Resolving, Waiting
  <2> QED
    BY <2>1, <2>2
<1>5. ASSUME NEW p \in Pids, SpawnChild(p) PROVE [Slot!Next]_(Slot!slotVars)
  <2>1. up /\ desired_running /\ ~HasChild
    BY <1>5 DEF SpawnChild, ResolutionWanted, Bookkeeping, StateIsHonest
  <2>2. p # NoPid
    BY CoreAssumption
  <2>3. Slot!Fill(p)
    BY <1>5, <2>1, <2>2 DEF SpawnChild, Slot!Fill
  <2> QED
    BY <2>3 DEF Slot!Next
<1>6. ASSUME NEW p \in Pids, HandleExit(p) PROVE [Slot!Next]_(Slot!slotVars)
  <2>1. HasChild
    BY <1>6, CoreAssumption DEF HandleExit
  <2>2. Slot!Vacate
    BY <1>6, <1>a, <2>1 DEF HandleExit, Slot!Vacate, Slot!Empty
  <2> QED
    BY <2>2 DEF Slot!Next
<1>7. CASE DaemonStops \/ DaemonCrashes
  <2>1. Slot!Exit
    BY <1>7 DEF DaemonStops, DaemonCrashes, DaemonGone, Slot!Exit, Slot!Empty
  <2> QED
    BY <2>1 DEF Slot!Next
<1>8. CASE Launch
  <2>1. child_pid' = NoPid /\ desired_running' \in BOOLEAN
    BY <1>8, <1>a DEF Launch, TypeOK
  <2>2. Slot!Launch
    BY <1>8, <2>1 DEF Launch, Slot!Launch, Slot!Empty
  <2> QED
    BY <2>2 DEF Slot!Next
<1>9. CASE UNCHANGED <<up, desired_running, child_pid>>
  BY <1>9 DEF Slot!slotVars
<1> QED
  BY <1>1, <1>2, <1>3, <1>4, <1>5, <1>6, <1>7, <1>8, <1>9
  DEF Next, User, Loop, Environment, vars, RollbackAdoptsEdit, RestartDue,
      ResolutionUnwanted, ResolutionFailed, CoreStalled, IgnoreExit,
      HandleLogLine, CorePrints, CoreExits, HealthyWindowPasses

\* The supervisor implements the one-slot abstraction: while sharing is wanted
\* the slot is filled or a start is pending, only a pending start fills it, and
\* one Core never takes it straight from another.
THEOREM Refinement == Spec => ImplementsCoreSlot
<1>1. IInv => TypeOK /\ Bookkeeping
  BY DEF IInv
<1> QED
  BY <1>1, IInvAlways, SlotInit, SlotStep, PTL DEF Spec, ImplementsCoreSlot, Slot!Spec
=============================================================================
