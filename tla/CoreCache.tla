----------------------------- MODULE CoreCache -----------------------------
(* The resolver of the Core binaries (synbadd/src/binaries.rs) and the        *)
(* directory it keeps them in.  A resolution downloads the archive of the     *)
(* pinned release, checks it, extracts it into `<tag>.partial` and renames    *)
(* that directory to `<tag>`, which every later start trusts on sight.  On    *)
(* macOS it is the patched Core of the daemon's own release, resolved the     *)
(* same way but without a release to query.                                   *)
(*                                                                            *)
(* The extraction runs on a blocking thread.  A daemon that is killed leaves  *)
(* the files as they are; a daemon that shuts down has released its socket    *)
(* and lock while the thread still writes, so the next daemon can meet it.    *)
EXTENDS Naturals, FiniteSets

CONSTANTS
    Files,       \* the binaries the release's layout needs
    CacheFaults, \* which of "network", "corrupt", "disk", "kill", "shutdown" occur
    MaxMishaps   \* bound: mishaps in a behaviour

ASSUME CacheAssumption == IsFiniteSet(Files) /\ Files # {} /\ MaxMishaps \in Nat

VARIABLES
    platform,    \* "linux", "macos", or one the pinned release has "no_asset" for
    dirs,        \* what is on disk under `<tag>` ("dest") and `<tag>.partial` ("staging")
    made,        \* does `<tag>.partial` exist?
    resolve,     \* the daemon's resolution: its stage, its archive, its files to write
    linger,      \* the extraction thread of a daemon that has shut down
    resolved,    \* the path the supervisor was handed is in use
    inherited,   \* history: an older build left `<tag>` with a file cut short and none missing
    overlapped,  \* history: a resolution ran beside a lingering thread
    mishaps      \* count of mishaps

cacheVars == <<platform, dirs, made, resolve, linger, resolved, inherited, overlapped, mishaps>>
setting == <<platform, inherited>>

\* A file is missing, cut short, being written by the daemon's thread
\* ("live") or by a lingering one ("linger"), whole, or whole with the bytes
\* of a corrupt archive.
FileStates == {"missing", "cut", "live", "linger", "whole", "corrupt"}
Dirs == {"dest", "staging"}
Empty == [f \in Files |-> "missing"]

Stages == {"down", "idle", "query", "sum", "download", "stage", "mkdir", "extract", "move"}

\* An extraction thread: the targets not yet found in the archive, the target
\* it is writing and the directory that file is in now.
NoThread == [todo |-> {}, file |-> {}, where |-> "gone", bytes |-> "whole"]
Finished(t) == t.todo = {} /\ t.file = {}
Threads == [todo : SUBSET Files, file : SUBSET Files, where : {"staging", "dest", "gone"},
            bytes : {"whole", "corrupt"}]

Idle == [at |-> "idle", thread |-> NoThread]
Down == [Idle EXCEPT !.at = "down"]
At(stage) == [resolve EXCEPT !.at = stage]

Mishap(kind) ==
    /\ kind \in CacheFaults
    /\ mishaps < MaxMishaps
    /\ mishaps' = mishaps + 1

\* A failed resolution: the supervisor schedules another start.
Fail == resolve' = Idle

TryCached(d) == \A f \in Files : d[f] # "missing"

-----------------------------------------------------------------------------
(* ensure_upstream_core and ensure_macos_core, one action between two awaits. *)

\* start_core: a cache hit needs no network.  macOS has no release to query.
StartResolve ==
    /\ resolve.at = "idle"
    /\ ~resolved
    /\ IF TryCached(dirs.dest)
       THEN resolved' = TRUE /\ UNCHANGED resolve
       ELSE /\ resolve' = At(IF platform = "macos" THEN "sum" ELSE "query")
            /\ UNCHANGED resolved
    /\ overlapped' = (overlapped \/ linger # NoThread)
    /\ UNCHANGED <<setting, dirs, made, linger, mishaps>>

\* pick_asset: has the pinned release an archive for this platform?
PickAsset == platform # "no_asset"

\* The release query answers; the cache may have been filled meanwhile.
QueryRelease ==
    /\ resolve.at = "query"
    /\ IF TryCached(dirs.dest)
       THEN resolved' = TRUE /\ Fail
       ELSE /\ resolve' = IF PickAsset THEN At("sum") ELSE Idle
            /\ UNCHANGED resolved
    /\ UNCHANGED <<setting, dirs, made, linger, overlapped, mishaps>>

\* fetch_expected_sha: sums.txt, or the hash built into the daemon; on macOS the
\* checksum published beside the archive.
FetchExpectedSha ==
    /\ resolve.at = "sum"
    /\ resolve' = At("download")
    /\ UNCHANGED <<setting, dirs, made, linger, resolved, overlapped, mishaps>>

\* Any of the requests fails.
NetworkFails ==
    /\ resolve.at \in {"query", "sum", "download"}
    /\ Mishap("network")
    /\ Fail
    /\ UNCHANGED <<setting, dirs, made, linger, resolved, overlapped>>

\* Mutant of VerifySha: the digest is not compared.
AnyBytes(bytes) == bytes \in {"whole", "corrupt"}

VerifySha(bytes) == bytes = "whole"

\* download_with_progress and verify_sha.
Download(bytes) ==
    /\ resolve.at = "download"
    /\ IF bytes = "corrupt" THEN Mishap("corrupt") ELSE UNCHANGED mishaps
    /\ IF VerifySha(bytes)
       THEN resolve' = [at |-> "stage", thread |-> [NoThread EXCEPT !.bytes = bytes]]
       ELSE Fail
    /\ UNCHANGED <<setting, dirs, made, linger, resolved, overlapped>>

\* remove_dir_all, its error ignored: the files of `kept` are still there.  It
\* takes a lingering thread's open file out of the directory.
Removed(dir, kept) ==
    [dirs EXCEPT ![dir] = [f \in Files |-> IF f \in kept THEN @[f] ELSE "missing"]]
Forget(dir, kept) ==
    [linger EXCEPT !.where = IF @ = dir /\ linger.file \cap kept = {} THEN "gone" ELSE @]
MayKeep(kept) == IF kept # {} THEN Mishap("disk") ELSE UNCHANGED mishaps

\* What an earlier attempt left in `<tag>.partial` goes first.
ClearStaging(kept) ==
    /\ resolve.at = "stage"
    /\ MayKeep(kept)
    /\ dirs' = Removed("staging", kept)
    /\ made' = (kept # {})
    /\ linger' = Forget("staging", kept)
    /\ resolve' = At("mkdir")
    /\ UNCHANGED <<setting, resolved, overlapped>>

CreateStaging ==
    /\ resolve.at = "mkdir"
    /\ made' = TRUE
    /\ resolve' = [resolve EXCEPT !.at = "extract", !.thread.todo = Files]
    /\ UNCHANGED <<setting, dirs, linger, resolved, overlapped, mishaps>>

\* tar_extract_named, for the thread `t` of writer `who`: create a target, which
\* cuts what is there, and copy the entry into it.  A file two threads write
\* is whole once the one that cut it last has finished.
Begins(t, f) == [t EXCEPT !.todo = @ \ {f}, !.file = {f}, !.where = "staging"]
Ends(t) == [t EXCEPT !.file = {}]
CutBy(who, f) == [dirs EXCEPT !.staging[f] = who]
FilledBy(who, t) ==
    [d \in Dirs |-> [f \in Files |->
        IF d = t.where /\ f \in t.file /\ dirs[d][f] = who THEN t.bytes ELSE dirs[d][f]]]

ExtractFile ==
    /\ resolve.at = "extract"
    /\ \/ /\ resolve.thread.file = {}
          /\ \E f \in resolve.thread.todo :
                /\ resolve' = [resolve EXCEPT !.thread = Begins(@, f)]
                /\ dirs' = CutBy("live", f)
       \/ /\ resolve.thread.file # {}
          /\ resolve' = [resolve EXCEPT !.thread = Ends(@)]
          /\ dirs' = FilledBy("live", resolve.thread)
    /\ UNCHANGED <<setting, made, linger, resolved, overlapped, mishaps>>

\* A thread whose directory is gone cannot create its next target, and fails.
LingeringWrites ==
    /\ \/ /\ linger # NoThread /\ linger.file = {} /\ ~made
          /\ linger' = NoThread
          /\ UNCHANGED dirs
       \/ /\ linger.file = {} /\ made
          /\ \E f \in linger.todo : linger' = Begins(linger, f) /\ dirs' = CutBy("linger", f)
       \/ /\ linger.file # {}
          /\ linger' = IF linger.todo = {} THEN NoThread ELSE Ends(linger)
          /\ dirs' = FilledBy("linger", linger)
    /\ UNCHANGED <<setting, made, resolve, resolved, overlapped, mishaps>>

\* What the files of a thread that stops writing are from then on.
LeftBy(who) ==
    [d \in Dirs |-> [f \in Files |-> IF dirs[d][f] = who THEN "cut" ELSE dirs[d][f]]]

\* A full disk, a directory that cannot be created or renamed, or an archive
\* without one of the targets.
DiskFails ==
    /\ resolve.at \in {"mkdir", "extract", "move"}
    /\ Mishap("disk")
    /\ Fail
    /\ dirs' = LeftBy("live")
    /\ UNCHANGED <<setting, made, linger, resolved, overlapped>>

\* Mutant of RemoveIncomplete: what sits under `<tag>` stays.
LeaveIncomplete(kept) ==
    /\ resolve.at = "extract" /\ Finished(resolve.thread)
    /\ resolve' = At("move")
    /\ kept = {}
    /\ UNCHANGED <<setting, dirs, made, linger, resolved, overlapped, mishaps>>

\* The extraction is joined; what sits under `<tag>` was incomplete and goes.
\* (On macOS after a look at the staging directory, which has every target.)
RemoveIncomplete(kept) ==
    /\ resolve.at = "extract" /\ Finished(resolve.thread)
    /\ MayKeep(kept)
    /\ dirs' = Removed("dest", kept)
    /\ linger' = Forget("dest", kept)
    /\ resolve' = At("move")
    /\ UNCHANGED <<setting, made, resolved, overlapped>>

\* The rename (refused onto a directory that is not empty) and the last look.
MoveIntoPlace ==
    /\ resolve.at = "move"
    /\ Fail
    /\ IF dirs.dest = Empty
       THEN /\ dirs' = [dirs EXCEPT !.dest = dirs.staging, !.staging = Empty]
            /\ made' = FALSE
            /\ linger' = [linger EXCEPT !.where = IF @ = "staging" THEN "dest" ELSE @]
            /\ resolved' = TryCached(dirs'.dest)
       ELSE UNCHANGED <<dirs, made, linger, resolved>>
    /\ UNCHANGED <<setting, overlapped, mishaps>>

-----------------------------------------------------------------------------
(* The daemon around it.                                                     *)

\* The daemon is killed, and the thread with it.
KillDaemon ==
    /\ resolve.at # "down"
    /\ Mishap("kill")
    /\ resolve' = Down
    /\ resolved' = FALSE
    /\ dirs' = LeftBy("live")
    /\ UNCHANGED <<setting, made, linger, overlapped>>

\* The run loop ends: the listener and its lock are dropped first, then the
\* runtime waits for the blocking thread.  (Bound: one thread lingers at a time.)
EndDaemon ==
    /\ resolve.at # "down"
    /\ resolve.at = "extract" => linger = NoThread
    /\ resolve' = Down
    /\ resolved' = FALSE
    /\ IF resolve.at = "extract" /\ ~Finished(resolve.thread)
       THEN /\ linger' = resolve.thread
            /\ dirs' = [d \in Dirs |-> [f \in Files |->
                          IF dirs[d][f] = "live" THEN "linger" ELSE dirs[d][f]]]
       ELSE UNCHANGED <<linger, dirs>>
    /\ UNCHANGED <<setting, made, overlapped>>

ShutdownDaemon == Mishap("shutdown") /\ EndDaemon

\* The process that waits for its thread is killed.
KillLingering ==
    /\ linger # NoThread
    /\ Mishap("kill")
    /\ linger' = NoThread
    /\ dirs' = LeftBy("linger")
    /\ UNCHANGED <<setting, made, resolve, resolved, overlapped>>

StartDaemon ==
    /\ resolve.at = "down"
    /\ resolve' = Idle
    /\ UNCHANGED <<setting, dirs, made, linger, resolved, overlapped, mishaps>>

\* An older build on Linux extracted straight into `<tag>`, one file after the
\* other: a crash of it left the file it was at cut short.
Leftovers == {old \in [Files -> {"missing", "cut", "whole"}] :
                 \A f, g \in Files : old[f] = "cut" /\ old[g] = "cut" => f = g}

CacheInit ==
    /\ platform \in {"linux", "macos", "no_asset"}
    /\ \E old \in Leftovers :
          /\ platform # "linux" => old = Empty
          /\ dirs = [d \in Dirs |-> IF d = "dest" THEN old ELSE Empty]
          /\ inherited = (TryCached(old) /\ \E f \in Files : old[f] = "cut")
    /\ made = FALSE
    /\ resolve = Idle
    /\ linger = NoThread
    /\ resolved = FALSE
    /\ overlapped = FALSE
    /\ mishaps = 0

ResolverStep ==
    \/ StartResolve \/ QueryRelease \/ FetchExpectedSha \/ NetworkFails
    \/ \E bytes \in {"whole", "corrupt"} : Download(bytes)
    \/ \E kept \in SUBSET Files : ClearStaging(kept) \/ RemoveIncomplete(kept)
    \/ CreateStaging \/ ExtractFile \/ DiskFails \/ MoveIntoPlace

CacheNext ==
    \/ ResolverStep \/ LingeringWrites \/ KillLingering
    \/ KillDaemon \/ ShutdownDaemon \/ StartDaemon

\* The resolution task and a failed start's retry run; nothing else must happen.
CacheFairness == WF_cacheVars(ResolverStep)

CacheSpec == CacheInit /\ [][CacheNext]_cacheVars /\ CacheFairness
-----------------------------------------------------------------------------
\* Every variable has its type.
CacheTypeOK ==
    /\ platform \in {"linux", "macos", "no_asset"}
    /\ dirs \in [Dirs -> [Files -> FileStates]]
    /\ made \in BOOLEAN
    /\ resolve \in [at : Stages, thread : Threads]
    /\ linger \in Threads
    /\ resolved \in BOOLEAN
    /\ inherited \in BOOLEAN
    /\ overlapped \in BOOLEAN
    /\ mishaps \in 0..MaxMishaps

\* `<tag>` is trusted on sight, so whatever is there with every file present
\* was downloaded whole, checked and fully written, whenever the daemon was
\* killed or failed on the way.  Two things are excepted: a resolution beside a
\* thread that outlived its daemon, and a `<tag>` that an older build left with
\* no file missing and one cut short, which is never looked into again.
CachedCoreIsWhole ==
    ~overlapped /\ ~inherited /\ TryCached(dirs.dest) => \A f \in Files : dirs.dest[f] = "whole"

\* No sequence of failures, kills and leftovers wedges the cache: on a platform
\* the release has an asset for, a daemon that stays up is handed a Core.
CoreIsResolved == platform # "no_asset" /\ <>[](resolve.at # "down") => <>[]resolved
-----------------------------------------------------------------------------
(* What comments say and the code does not do; each is refuted by a config.   *)

\* "rename it into place only once every file is written": without the exception
\* of a thread that outlived its daemon.
MovedOnlyWhenWritten ==
    ~inherited /\ TryCached(dirs.dest) => \A f \in Files : dirs.dest[f] = "whole"

\* The truncated binary of an older build's crash "was reused forever": a Core
\* handed to the supervisor now is whole.
TruncatedIsNotReused ==
    ~overlapped /\ resolved => \A f \in Files : dirs.dest[f] = "whole"
=============================================================================
