------------------------------ MODULE ConfigSync ------------------------------
(***************************************************************************)
(* Paired machines keep their shared config fields equal: local edits      *)
(* (supervisor/config_edit.rs), sync sessions (sync.rs), the bookkeeping    *)
(* that decides whom to dial (supervisor/mod.rs) and the two files a        *)
(* machine restarts from, the config TOML and the stamps sidecar.          *)
(*                                                                         *)
(* A supervisor handles one event at a time, so a handler is one action.   *)
(* A session a -> b has two awaits where other handlers run: between       *)
(* sending a's state and b's merge, and between b's reply and a's merge.   *)
(* A daemon that starts reads the config before it watches the file.       *)
(* The transport delivers a frame intact or fails the session.             *)
(***************************************************************************)
EXTENDS VersionedConfig

CONSTANTS
    ValidConfigs,  \* Config::validate, per machine: it reads server_name and role
    FirstConfigs,  \* configs a machine may be installed with
    Discovers,     \* whom mDNS can show to each machine; it may work one way
    Faults,        \* which of AllFaults can happen
    Faulty,        \* machines that crash, fail to save or have their file edited
    MaxClock,      \* bound: no edit and no failed save on a clock this high
    MaxOrphans,    \* bound: merges left behind by dead sessions
    BadFile,       \* a TOML file that Config::load rejects
    None

\* A daemon dies; a file is not written; somebody edits the file; a session
\* fails; discovery loses a peer or reports it again.
AllFaults == {"crash", "save", "editor", "loss", "flap"}

ASSUME SyncAssumption ==
    /\ ValidConfigs \in [Nodes -> SUBSET Configs]
    /\ FirstConfigs \subseteq Configs
    /\ Discovers \in [Nodes -> SUBSET Nodes]
    /\ \A n \in Nodes : n \notin Discovers[n]
    /\ Faults \subseteq AllFaults /\ Faulty \subseteq Nodes
    /\ MaxClock \in Nat /\ MaxOrphans \in Nat
    /\ BadFile \notin Configs

VARIABLES
    up,              \* the daemon runs
    config,          \* Supervisor.config
    versioned,       \* Supervisor.versioned
    toml,            \* the config file
    sidecar,         \* the stamps file
    fs_event,        \* the watcher has something for handle_config_changed
    loaded,          \* the config a daemon that starts has read, not watching yet
    peers,           \* machines discovery shows
    session,         \* sync_tasks and the state of the task
    sync_confirmed,  \* head at the dial of the last session that succeeded
    sync_backoff,    \* the retry delay after a failure is running
    orphans,         \* Merge ops in a supervisor's queue whose session is gone
    breaches         \* history: how values and stamps came apart, if ever

files    == <<toml, sidecar, fs_event, loaded>>
dialing  == <<peers, session, sync_confirmed, sync_backoff>>
vars == <<up, config, versioned, files, dialing, orphans, breaches>>

Heads == [config : [SharedFields -> Values], stamps : [SharedFields -> Stamps]]

ASSUME NoneAssumption == None \notin Heads \cup Versioned \cup Configs

\* sync_tasks has no entry.
Idle == [phase |-> "idle", head |-> None, frame |-> None]
InFlight == {"dialing", "sent", "replied"}
Sessions ==
    {Idle} \cup [phase : {"dialing", "ok", "failed"}, head : Heads, frame : {None}]
           \cup [phase : {"sent", "replied"}, head : Heads, frame : Versioned]

-----------------------------------------------------------------------------
\* maybe_pull_from for every visible peer, on the tables it reads.
Dial(n, v, confirmed, backoff, tasks) ==
    [m \in Nodes |->
        IF /\ m \in peers[n]
           /\ tasks[m] = Idle
           /\ confirmed[m] # HeadHash(v)
           /\ ~backoff[m]
        THEN [phase |-> "dialing", head |-> HeadHash(v), frame |-> None]
        ELSE tasks[m]]

NoneConfirmed == [m \in Nodes |-> None]
NoBackoff     == [m \in Nodes |-> FALSE]

\* push_to_trusted_peers, after n's state became v.
PushToTrustedPeers(n, v) ==
    /\ sync_confirmed' = [sync_confirmed EXCEPT ![n] = NoneConfirmed]
    /\ sync_backoff' = [sync_backoff EXCEPT ![n] = NoBackoff]
    /\ session' = [session EXCEPT ![n] = Dial(n, v, NoneConfirmed, NoBackoff, @)]
    /\ UNCHANGED peers

\* The files n fails to write; they keep their old content.
MayFail(n, failed) == failed # {} => "save" \in Faults /\ n \in Faulty /\ versioned[n].clock < MaxClock

\* apply_local_edit: stamp, persist the sidecar, gossip.
ApplyLocalEdit(n, c) ==
    LET v == ApplyLocal(versioned[n], c, n)
    IN /\ versioned' = [versioned EXCEPT ![n] = v]
       /\ config' = [config EXCEPT ![n] = c]
       /\ IF v = versioned[n]
          THEN UNCHANGED <<sidecar, dialing>>
          ELSE /\ \E failed \in SUBSET {"sidecar"} :
                     /\ MayFail(n, failed)
                     /\ sidecar' = IF failed = {} THEN [sidecar EXCEPT ![n] = SideCar(v)] ELSE sidecar
               /\ PushToTrustedPeers(n, v)

\* set_config, a valid config from the GUI.  Writing the files wakes the watcher.
\* When the TOML cannot be written the request fails and nothing changes.
SetConfig(n, c) ==
    /\ up[n] /\ c \in ValidConfigs[n] /\ c # config[n]
    /\ versioned[n].clock < MaxClock
    /\ toml' = [toml EXCEPT ![n] = c]
    /\ fs_event' = [fs_event EXCEPT ![n] = TRUE]
    /\ ApplyLocalEdit(n, c)
    /\ UNCHANGED <<up, loaded, orphans, breaches>>

\* Somebody saves the file in an editor, the daemon running or not.
EditFile(n, c) ==
    /\ "editor" \in Faults /\ n \in Faulty
    /\ versioned[n].clock < MaxClock \/ toml[n] \notin ValidConfigs[n]
    /\ toml[n] \notin ValidConfigs[n] \ {config[n]} /\ c # toml[n]
    /\ toml' = [toml EXCEPT ![n] = c]
    /\ fs_event' = [fs_event EXCEPT ![n] = up[n]]
    /\ UNCHANGED <<up, config, versioned, sidecar, loaded, dialing, orphans, breaches>>

\* Mutant of HandleConfigChanged: a change is dropped while a session runs.
ReloadOnlyWhenIdle(n) ==
    /\ up[n] /\ fs_event[n]
    /\ IF /\ toml[n] \in ValidConfigs[n] \ {config[n]}
          /\ \A m \in Nodes : session[m][n] = Idle
       THEN /\ ApplyLocalEdit(n, toml[n])
            /\ fs_event' = [fs_event EXCEPT ![n] = sidecar'[n] # sidecar[n]]
       ELSE /\ fs_event' = [fs_event EXCEPT ![n] = FALSE]
            /\ UNCHANGED <<config, versioned, sidecar, dialing>>
    /\ UNCHANGED <<up, toml, loaded, orphans, breaches>>

\* handle_config_changed.
HandleConfigChanged(n) ==
    /\ up[n] /\ fs_event[n]
    /\ IF toml[n] \in ValidConfigs[n] \ {config[n]}
       THEN /\ ApplyLocalEdit(n, toml[n])
            /\ fs_event' = [fs_event EXCEPT ![n] = sidecar'[n] # sidecar[n]]
       ELSE /\ fs_event' = [fs_event EXCEPT ![n] = FALSE]
            /\ UNCHANGED <<config, versioned, sidecar, dialing>>
    /\ UNCHANGED <<up, toml, loaded, orphans, breaches>>

-----------------------------------------------------------------------------
\* Mutant of HandleMerge: the merged config is not validated.
MergeUnvalidated(n, w) ==
    LET v == Merge(versioned[n], w)
    IN /\ versioned' = [versioned EXCEPT ![n] = v]
       /\ config' = [config EXCEPT ![n] = v.config]
       /\ toml' = [toml EXCEPT ![n] = v.config]
       /\ sidecar' = [sidecar EXCEPT ![n] = SideCar(v)]
       /\ UNCHANGED <<fs_event, loaded, breaches>>

\* handle_sync_op, Merge: merge w into n's state; a merge that changed
\* something is validated and persisted, or taken back.
HandleMerge(n, w) ==
    LET v == Merge(versioned[n], w)
    IN \/ /\ Overwritten(versioned[n], w) = {}
          /\ versioned' = [versioned EXCEPT ![n] = v]
          /\ UNCHANGED <<config, files, breaches>>
       \/ /\ Overwritten(versioned[n], w) # {}
          /\ v.config \in ValidConfigs[n]
          /\ versioned' = [versioned EXCEPT ![n] = v]
          /\ config' = [config EXCEPT ![n] = v.config]
          /\ \E failed \in SUBSET {"toml", "sidecar"} :
                /\ MayFail(n, failed)
                /\ toml' = IF "toml" \in failed THEN toml ELSE [toml EXCEPT ![n] = v.config]
                /\ sidecar' = IF "sidecar" \in failed THEN sidecar
                              ELSE [sidecar EXCEPT ![n] = SideCar(v)]
                /\ fs_event' = [fs_event EXCEPT ![n] = @ \/ failed # {"toml", "sidecar"}]
                /\ breaches' = IF failed = {"toml", "sidecar"} THEN breaches \cup {"save_failed"}
                               ELSE breaches
          /\ UNCHANGED loaded
       \/ /\ Overwritten(versioned[n], w) # {}
          /\ v.config \notin ValidConfigs[n]
          /\ \/ /\ toml[n] \in ValidConfigs[n]
                /\ versioned' = [versioned EXCEPT ![n] = [v EXCEPT !.config = toml[n]]]
                /\ config' = [config EXCEPT ![n] = toml[n]]
                /\ breaches' = breaches \cup {"rollback"}
             \/ /\ toml[n] \notin ValidConfigs[n]
                /\ versioned' = [versioned EXCEPT ![n] = v]
                /\ breaches' = breaches \cup {"kept_invalid"}
                /\ UNCHANGED config
          /\ UNCHANGED files

\* run_outbound of a: connect, snapshot, send.
SendState(a, b) ==
    /\ session[a][b].phase = "dialing" /\ up[b]
    /\ session' = [session EXCEPT ![a][b].phase = "sent", ![a][b].frame = versioned[a]]
    /\ UNCHANGED <<up, config, versioned, files, peers, sync_confirmed, sync_backoff, orphans, breaches>>

\* run_inbound_inner of b: merge first, then reply with the state after it.
ReceiveState(a, b) ==
    /\ session[a][b].phase = "sent" /\ up[b]
    /\ HandleMerge(b, session[a][b].frame)
    /\ session' = [session EXCEPT ![a][b].phase = "replied", ![a][b].frame = versioned'[b]]
    /\ UNCHANGED <<up, peers, sync_confirmed, sync_backoff, orphans>>

\* outbound_inner of a after the reply.
FinishSession(a, b) ==
    /\ session[a][b].phase = "replied"
    /\ HandleMerge(a, session[a][b].frame)
    /\ session' = [session EXCEPT ![a][b].phase = "ok", ![a][b].frame = None]
    /\ UNCHANGED <<up, peers, sync_confirmed, sync_backoff, orphans>>

\* The Merge op a session that ends now may have left in a queue: b's when a's
\* frame was on its way, a's when the reply was.
LeftBehind(a, b) ==
    CASE session[a][b].phase = "sent" -> {[at |-> b, state |-> session[a][b].frame]}
      [] session[a][b].phase = "replied" -> {[at |-> a, state |-> session[a][b].frame]}
      [] OTHER -> {}

\* Some of them, of machines that run.
Leave(possible) ==
    \E left \in SUBSET {o \in possible : up'[o.at]} :
        /\ Cardinality(orphans \cup left) <= MaxOrphans
        /\ orphans' = {o \in orphans : up'[o.at]} \cup left

\* Connection refused, a broken stream, the handshake or the session timeout.
FailSession(a, b) ==
    /\ "loss" \in Faults \/ ~up[b]
    /\ session[a][b].phase \in InFlight
    /\ session' = [session EXCEPT ![a][b].phase = "failed", ![a][b].frame = None]
    /\ UNCHANGED up
    /\ Leave(LeftBehind(a, b))
    /\ UNCHANGED <<config, versioned, files, peers, sync_confirmed, sync_backoff, breaches>>

\* The supervisor reaches a Merge op nobody waits for.
MergeOrphan(o) ==
    /\ o \in orphans /\ up[o.at]
    /\ HandleMerge(o.at, o.state)
    /\ orphans' = orphans \ {o}
    /\ UNCHANGED <<up, dialing>>

-----------------------------------------------------------------------------
\* Mutant of ReconcileSyncSessions: it confirms the head of now, not of the dial.
ConfirmsCurrentHead(n) ==
    LET confirmed == [m \in Nodes |->
            IF session[n][m].phase = "ok" THEN HeadHash(versioned[n]) ELSE sync_confirmed[n][m]]
        backoff == [m \in Nodes |->
            CASE session[n][m].phase = "ok" -> FALSE
              [] session[n][m].phase = "failed" -> TRUE
              [] OTHER -> sync_backoff[n][m]]
        tasks == [m \in Nodes |->
            IF session[n][m].phase \in {"ok", "failed"} THEN Idle ELSE session[n][m]]
    IN /\ up[n]
       /\ sync_confirmed' = [sync_confirmed EXCEPT ![n] = confirmed]
       /\ sync_backoff' = [sync_backoff EXCEPT ![n] = backoff]
       /\ session' = [session EXCEPT ![n] = Dial(n, versioned[n], confirmed, backoff, tasks)]
       /\ UNCHANGED <<up, config, versioned, files, peers, orphans, breaches>>

\* Mutant of ReconcileSyncSessions: a failed session is never reaped.
FailedNotReaped(n) ==
    LET confirmed == [m \in Nodes |->
            IF session[n][m].phase = "ok" THEN session[n][m].head ELSE sync_confirmed[n][m]]
        backoff == [m \in Nodes |->
            CASE session[n][m].phase = "ok" -> FALSE
              [] session[n][m].phase = "failed" -> TRUE
              [] OTHER -> sync_backoff[n][m]]
        tasks == [m \in Nodes |->
            IF session[n][m].phase = "ok" THEN Idle ELSE session[n][m]]
    IN /\ up[n]
       /\ sync_confirmed' = [sync_confirmed EXCEPT ![n] = confirmed]
       /\ sync_backoff' = [sync_backoff EXCEPT ![n] = backoff]
       /\ session' = [session EXCEPT ![n] = Dial(n, versioned[n], confirmed, backoff, tasks)]
       /\ UNCHANGED <<up, config, versioned, files, peers, orphans, breaches>>

\* reconcile_sync_sessions: reap what finished, then dial.
ReconcileSyncSessions(n) ==
    LET confirmed == [m \in Nodes |->
            IF session[n][m].phase = "ok" THEN session[n][m].head ELSE sync_confirmed[n][m]]
        backoff == [m \in Nodes |->
            CASE session[n][m].phase = "ok" -> FALSE
              [] session[n][m].phase = "failed" -> TRUE
              [] OTHER -> sync_backoff[n][m]]
        tasks == [m \in Nodes |->
            IF session[n][m].phase \in {"ok", "failed"} THEN Idle ELSE session[n][m]]
    IN /\ up[n]
       /\ sync_confirmed' = [sync_confirmed EXCEPT ![n] = confirmed]
       /\ sync_backoff' = [sync_backoff EXCEPT ![n] = backoff]
       /\ session' = [session EXCEPT ![n] = Dial(n, versioned[n], confirmed, backoff, tasks)]
       /\ UNCHANGED <<up, config, versioned, files, peers, orphans, breaches>>

BackoffExpires(n, m) ==
    /\ sync_backoff[n][m]
    /\ sync_backoff' = [sync_backoff EXCEPT ![n][m] = FALSE]
    /\ UNCHANGED <<up, config, versioned, files, peers, session, sync_confirmed, orphans, breaches>>

\* handle_discovery, Found: a new peer, or one that changed its advertisement.
PeerFound(n, m) ==
    /\ up[n] /\ up[m] /\ m \in Discovers[n]
    /\ m \notin peers[n] \/ "flap" \in Faults
    /\ peers' = [peers EXCEPT ![n] = @ \cup {m}]
    /\ sync_confirmed' = [sync_confirmed EXCEPT ![n][m] = None]
    /\ sync_backoff' = [sync_backoff EXCEPT ![n][m] = FALSE]
    /\ session' = IF session[n][m] = Idle
                  THEN [session EXCEPT ![n][m] = [phase |-> "dialing",
                                                  head  |-> HeadHash(versioned[n]),
                                                  frame |-> None]]
                  ELSE session
    /\ UNCHANGED <<up, config, versioned, files, orphans, breaches>>

\* handle_discovery, Lost: forget the peer and abort its session.
PeerLost(n, m) ==
    /\ "flap" \in Faults \/ ~up[m]
    /\ m \in peers[n]
    /\ peers' = [peers EXCEPT ![n] = @ \ {m}]
    /\ sync_confirmed' = [sync_confirmed EXCEPT ![n][m] = None]
    /\ sync_backoff' = [sync_backoff EXCEPT ![n][m] = FALSE]
    /\ session' = [session EXCEPT ![n][m] = Idle]
    /\ UNCHANGED up
    /\ Leave(LeftBehind(n, m))
    /\ UNCHANGED <<config, versioned, files, breaches>>

-----------------------------------------------------------------------------
\* The daemon dies.  What was in memory stays in the model as history; its own
\* sessions vanish and those it was answering break.
Stop(n) ==
    /\ "crash" \in Faults /\ n \in Faulty /\ up[n]
    /\ up' = [up EXCEPT ![n] = FALSE]
    /\ fs_event' = [fs_event EXCEPT ![n] = FALSE]
    /\ peers' = [peers EXCEPT ![n] = {}]
    /\ sync_confirmed' = [sync_confirmed EXCEPT ![n] = NoneConfirmed]
    /\ sync_backoff' = [sync_backoff EXCEPT ![n] = NoBackoff]
    /\ session' = [a \in Nodes |-> [b \in Nodes |->
            CASE a = n -> Idle
              [] b = n /\ session[a][b].phase = "sent" ->
                     [session[a][b] EXCEPT !.phase = "failed", !.frame = None]
              [] OTHER -> session[a][b]]]
    /\ Leave(UNION {LeftBehind(n, m) : m \in Nodes})

Crash(n) ==
    /\ Stop(n)
    /\ UNCHANGED <<config, versioned, toml, sidecar, loaded, breaches>>

\* It dies between writing the TOML and writing the sidecar, in set_config or
\* in a merge.
CrashBetweenSaves(n, c) ==
    /\ c \in ValidConfigs[n] \ {toml[n]}
    /\ versioned[n].clock < MaxClock
    /\ Stop(n)
    /\ toml' = [toml EXCEPT ![n] = c]
    /\ UNCHANGED <<config, versioned, sidecar, loaded, breaches>>

\* Supervisor::new reads the config; it may have died at this point before.
LoadConfig(n) ==
    /\ ~up[n] /\ toml[n] \in ValidConfigs[n] /\ loaded[n] # toml[n]
    /\ loaded' = [loaded EXCEPT ![n] = toml[n]]
    /\ UNCHANGED <<up, config, versioned, toml, sidecar, fs_event, dialing, orphans, breaches>>

\* It watches the directory, reads the sidecar and runs on the config it has read;
\* whoever saved the file since then goes unnoticed.  No sidecar at all, because
\* every save of it failed, bootstraps the state that the first one records (Initial).
Launch(n) ==
    LET c == loaded[n]
    IN /\ ~up[n] /\ c # None
       /\ up' = [up EXCEPT ![n] = TRUE]
       /\ config' = [config EXCEPT ![n] = c]
       /\ versioned' = [versioned EXCEPT ![n] = FromParts(c, sidecar[n])]
       /\ breaches' = breaches
            \cup (IF c # versioned[n].config THEN {"unstamped_edit"} ELSE {})
            \cup (IF sidecar[n].stamps # versioned[n].stamps THEN {"stamps_lost"} ELSE {})
            \cup (IF toml[n] # c THEN {"unwatched_edit"} ELSE {})
       /\ loaded' = [loaded EXCEPT ![n] = None]
       /\ UNCHANGED <<toml, sidecar, fs_event, dialing, orphans>>

-----------------------------------------------------------------------------
Init ==
    \E first \in [Nodes -> FirstConfigs] :
        /\ \A n \in Nodes : first[n] \in ValidConfigs[n]
        /\ up = [n \in Nodes |-> TRUE]
        /\ config = first
        /\ versioned = [n \in Nodes |-> Initial(first[n], n)]
        /\ toml = first
        /\ sidecar = [n \in Nodes |-> SideCar(Initial(first[n], n))]
        /\ fs_event = [n \in Nodes |-> FALSE]
        /\ loaded = [n \in Nodes |-> None]
        /\ peers = [n \in Nodes |-> {}]
        /\ session = [a \in Nodes |-> [b \in Nodes |-> Idle]]
        /\ sync_confirmed = [n \in Nodes |-> NoneConfirmed]
        /\ sync_backoff = [n \in Nodes |-> NoBackoff]
        /\ orphans = {}
        /\ breaches = {}

Edits(n) ==
    \/ \E c \in Configs : SetConfig(n, c) \/ CrashBetweenSaves(n, c)
    \/ \E c \in Configs \cup {BadFile} : EditFile(n, c)

Local(n) ==
    HandleConfigChanged(n) \/ ReconcileSyncSessions(n) \/ Crash(n) \/ LoadConfig(n) \/ Launch(n)

Pairwise(a, b) ==
    \/ SendState(a, b) \/ ReceiveState(a, b) \/ FinishSession(a, b) \/ FailSession(a, b)
    \/ BackoffExpires(a, b) \/ PeerFound(a, b) \/ PeerLost(a, b)

Next ==
    \/ \E n \in Nodes : Edits(n) \/ Local(n)
    \/ \E a, b \in Nodes : Pairwise(a, b)
    \/ \E o \in orphans : MergeOrphan(o)

Spec == Init /\ [][Next]_vars

\* The select! loop serves every timer and channel; a session is not lost for ever.
FairSpec ==
    /\ Spec
    /\ \A n \in Nodes : WF_vars(ReconcileSyncSessions(n)) /\ WF_vars(HandleConfigChanged(n))
    /\ WF_vars(\E o \in orphans : MergeOrphan(o))
    /\ \A a \in Nodes : \A b \in Discovers[a] :
          /\ WF_vars(BackoffExpires(a, b))
          /\ SF_vars(SendState(a, b))
          /\ SF_vars(ReceiveState(a, b))
          /\ SF_vars(FinishSession(a, b))

-----------------------------------------------------------------------------
\* Every variable has its type.
TypeOK ==
    /\ up \in [Nodes -> BOOLEAN]
    /\ config \in [Nodes -> Configs]
    /\ versioned \in [Nodes -> Versioned]
    /\ toml \in [Nodes -> Configs \cup {BadFile}]
    /\ sidecar \in [Nodes -> SideCars]
    /\ fs_event \in [Nodes -> BOOLEAN]
    /\ loaded \in [Nodes -> Configs \cup {None}]
    /\ peers \in [Nodes -> SUBSET Nodes]
    /\ session \in [Nodes -> [Nodes -> Sessions]]
    /\ sync_confirmed \in [Nodes -> [Nodes -> Heads \cup {None}]]
    /\ sync_backoff \in [Nodes -> [Nodes -> BOOLEAN]]
    /\ orphans \subseteq [at : Nodes, state : Versioned]
    /\ breaches \subseteq {"rollback", "kept_invalid", "unstamped_edit", "unwatched_edit", "stamps_lost",
                          "save_failed"}

\* Every versioned config anywhere: on a machine, in a session, in a queue.
Circulating ==
    {versioned[n] : n \in Nodes}
        \cup {o.state : o \in orphans}
        \cup ({session[a][b].frame : a, b \in Nodes} \ {None})

\* No machine took a value under a stamp it was not written with: by a rollback, an
\* edit of the file nobody stamped, or a sidecar that missed a save.
ValuesFollowStamps == breaches \cap {"rollback", "unstamped_edit", "stamps_lost"} = {}

\* A stamp names one value: two copies with the same stamp on a shared field
\* agree on the field, which is what makes last-writer-wins deterministic
\* (LamportTime: "Two peers can't legitimately share both a counter and a
\* machine_id").  It holds until a rollback, an edit nobody stamped or a lost
\* sidecar.
StampDeterminesValue ==
    ValuesFollowStamps =>
        \A v, w \in Circulating : \A f \in SharedFields :
            v.stamps[f] = w.stamps[f] => v.config[f] = w.config[f]

\* "Subsequent local edits always carry a stamp higher than anything we've ever
\* observed": the clock of a copy is at least each of its stamps, and no stamp
\* of n's own is ahead of n's clock, across crashes too.
ClockDominates ==
    /\ \A v \in Circulating : \A f \in Fields : v.stamps[f].counter <= v.clock
    /\ "stamps_lost" \notin breaches =>
          \A v \in Circulating : \A f \in Fields :
              v.stamps[f].counter <= versioned[v.stamps[f].origin].clock

\* sync_confirmed stops a from dialing b only when b already has what a has, value
\* by value, or something newer: an edit, a merge or an orphaned merge during the
\* session is never taken as delivered.  After a rollback or an unstamped edit b
\* still has a's stamps, or newer ones, but no longer a's values.
ConfirmedMeansDelivered ==
    \A a, b \in Nodes : sync_confirmed[a][b] = HeadHash(versioned[a]) =>
        /\ "stamps_lost" \notin breaches => Covers(versioned[b], versioned[a])
        /\ ValuesFollowStamps => Holds(versioned[b], versioned[a])

\* The file and the running config differ only while the watcher has an event
\* pending, or the file does not load, unless a merge could not be saved or somebody
\* saved the file between a start's load and its watch.
DriftIsNoticed ==
    breaches \cap {"save_failed", "unwatched_edit"} = {} =>
        \A n \in Nodes : up[n] /\ ~fs_event[n] => toml[n] \notin ValidConfigs[n] \ {config[n]}

\* The same without the proviso on a start, which the window of Supervisor::new
\* between Config::load and the watch refutes.
EveryEditIsNoticed ==
    "save_failed" \notin breaches =>
        \A n \in Nodes : up[n] /\ ~fs_event[n] => toml[n] \notin ValidConfigs[n] \ {config[n]}

\* The config a machine runs is always one that validates, whatever the peers
\* send and whatever an editor leaves in the file.
RunsValidConfig == \A n \in Nodes : config[n] \in ValidConfigs[n]

\* No machine ever goes back to an older stamp of a shared field, unless it
\* restarts from a sidecar that missed a save.
StampsNeverRegress ==
    [][\A n \in Nodes : "stamps_lost" \notin breaches' => Covers(versioned'[n], versioned[n])]_vars

AllVisible == \A n \in Nodes : up[n] /\ peers[n] = Discovers[n]
SameConfig == \A a, b \in Nodes : HeadHash(versioned[a]).config = HeadHash(versioned[b]).config

\* Once the machines stay up and see each other they end with the same shared
\* config, provided no value was ever adopted without its stamp.
Converges ==
    (<>[]AllVisible /\ [](breaches = {})) => <>[]SameConfig

\* docs/CONFIG-SYNC.md, Goal: "A change made on any trusted peer (...) converges
\* to an identical config on all trusted peers", without the proviso.
EveryChangeConverges == <>[]AllVisible => <>[]SameConfig
=============================================================================
