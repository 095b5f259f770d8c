-------------------------- MODULE CoreCacheProofs --------------------------
(* What CachedCoreIsWhole rests on, for every set of files and any number of   *)
(* mishaps: nothing but checked bytes is extracted, the daemon's own thread is *)
(* the only writer of the staging directory while no resolution runs beside a  *)
(* lingering one, and the rename happens when that thread is done.             *)
EXTENDS CoreCache, TLAPS

CheckedBytes == resolve.thread.bytes = "whole" /\ linger.bytes = "whole"

OneWriter ==
    /\ resolve.at \notin {"down", "idle"} => linger = NoThread
    /\ resolve.thread.where # "dest" /\ linger.where # "dest"

StagingGrows ==
    /\ resolve.at \in {"stage", "mkdir"} => resolve.thread.file = {}
    /\ resolve.at = "extract" =>
         /\ resolve.thread.file # {} => resolve.thread.where = "staging"
         /\ \A f \in resolve.thread.file : dirs["staging"][f] = "live"
         /\ \A f \in Files : f \notin resolve.thread.todo \cup resolve.thread.file
                                => dirs["staging"][f] = "whole"
    /\ resolve.at = "move" => \A f \in Files : dirs["staging"][f] = "whole"

\* What an older build left is incomplete, or all of it is whole.
DestIsClean ==
    ~inherited =>
        /\ \A f \in Files : dirs["dest"][f] \in {"missing", "cut", "whole"}
        /\ \/ \E f \in Files : dirs["dest"][f] = "missing"
           \/ \A f \in Files : dirs["dest"][f] = "whole"

\* CachedCoreIsWhole is not inductive: it needs who writes where, and what.
CacheInv ==
    /\ CacheTypeOK
    /\ CheckedBytes
    /\ ~overlapped => OneWriter /\ StagingGrows /\ DestIsClean

LEMMA NoThreadType == NoThread \in Threads /\ Idle \in [at : Stages, thread : Threads]
BY DEF NoThread, Threads, Idle, Stages

LEMMA DownFacts ==
    /\ Down \in [at : Stages, thread : Threads]
    /\ Down.at = "down"
    /\ Down.thread = NoThread
BY DEF NoThread, Threads, Idle, Down, Stages

LEMMA CacheInitInv == CacheInit => CacheInv
<1> SUFFICES ASSUME CacheInit PROVE CacheInv
  OBVIOUS
<1>0. PICK old \in Leftovers :
         /\ dirs = [d \in Dirs |-> IF d = "dest" THEN old ELSE Empty]
         /\ inherited = (TryCached(old) /\ \E f \in Files : old[f] = "cut")
  BY DEF CacheInit
<1>1. dirs \in [Dirs -> [Files -> FileStates]]
  BY <1>0 DEF Leftovers, Dirs, Empty, FileStates
<1>1a. DestIsClean
  <2>1. dirs["dest"] = old /\ old \in [Files -> {"missing", "cut", "whole"}]
    BY <1>0 DEF Leftovers, Dirs
  <2>. QED
    BY <1>0, <2>1 DEF DestIsClean, TryCached
<1>2. CacheTypeOK
  <2>1. 0 \in 0..MaxMishaps
    BY CacheAssumption
  <2>2. inherited \in BOOLEAN
    BY <1>0
  <2> QED
    BY <1>1, <2>1, <2>2, NoThreadType DEF CacheTypeOK, CacheInit
<1>3. CheckedBytes /\ OneWriter /\ StagingGrows
  BY DEF CheckedBytes, OneWriter, StagingGrows, CacheInit, NoThread, Idle
<1> QED
  BY <1>1a, <1>2, <1>3 DEF CacheInv

LEMMA BeginsFacts ==
    ASSUME NEW t \in Threads, NEW f \in Files
    PROVE  /\ Begins(t, f) \in Threads
           /\ Begins(t, f).todo = t.todo \ {f}
           /\ Begins(t, f).file = {f}
           /\ Begins(t, f).where = "staging"
           /\ Begins(t, f).bytes = t.bytes
BY DEF Begins, Threads

LEMMA EndsFacts ==
    ASSUME NEW t \in Threads
    PROVE  /\ Ends(t) \in Threads
           /\ Ends(t).file = {}
           /\ Ends(t).todo = t.todo
           /\ Ends(t).where = t.where
           /\ Ends(t).bytes = t.bytes
BY DEF Ends, Threads

LEMMA ForgetFacts ==
    ASSUME linger \in Threads, NEW dir, NEW kept
    PROVE  /\ Forget(dir, kept) \in Threads
           /\ Forget(dir, kept).bytes = linger.bytes
           /\ linger.where # "dest" => Forget(dir, kept).where # "dest"
           /\ linger = NoThread => Forget(dir, kept) = NoThread
BY DEF Forget, Threads, NoThread

DirsType == [Dirs -> [Files -> FileStates]]

LEMMA RemovedFacts ==
    ASSUME dirs \in DirsType, NEW dir \in Dirs, NEW kept
    PROVE  /\ Removed(dir, kept) \in DirsType
           /\ \A d \in Dirs, g \in Files : Removed(dir, kept)[d][g] =
                IF d = dir /\ g \notin kept THEN "missing" ELSE dirs[d][g]
BY DEF Removed, DirsType, FileStates

LEMMA MayKeepType ==
    ASSUME mishaps \in 0..MaxMishaps, NEW kept, MayKeep(kept)
    PROVE  mishaps' \in 0..MaxMishaps
BY CacheAssumption DEF MayKeep, Mishap

LEMMA CutByFacts ==
    ASSUME dirs \in DirsType, NEW who \in {"live", "linger"}, NEW f \in Files
    PROVE  /\ CutBy(who, f) \in DirsType
           /\ CutBy(who, f)["dest"] = dirs["dest"]
           /\ \A g \in Files : CutBy(who, f)["staging"][g] =
                                 IF g = f THEN who ELSE dirs["staging"][g]
BY DEF CutBy, DirsType, Dirs, FileStates

LEMMA FilledByFacts ==
    ASSUME dirs \in DirsType, NEW who, NEW t \in Threads
    PROVE  /\ FilledBy(who, t) \in DirsType
           /\ \A d \in Dirs, g \in Files : FilledBy(who, t)[d][g] =
                IF d = t.where /\ g \in t.file /\ dirs[d][g] = who THEN t.bytes ELSE dirs[d][g]
BY DEF FilledBy, DirsType, Dirs, FileStates, Threads

LEMMA LeftByFacts ==
    ASSUME dirs \in DirsType, NEW who
    PROVE  /\ LeftBy(who) \in DirsType
           /\ \A d \in Dirs, g \in Files : LeftBy(who)[d][g] =
                IF dirs[d][g] = who THEN "cut" ELSE dirs[d][g]
BY DEF LeftBy, DirsType, Dirs, FileStates

LEMMA CacheStepInv == CacheInv /\ [CacheNext]_cacheVars => CacheInv'
<1> SUFFICES ASSUME CacheInv, [CacheNext]_cacheVars PROVE CacheInv'
  OBVIOUS
<1>0. CacheTypeOK /\ CheckedBytes
  BY DEF CacheInv
<1>1. ~overlapped => OneWriter /\ StagingGrows /\ DestIsClean
  BY DEF CacheInv
<1>a. CASE StartResolve
  <2>1. CacheTypeOK'
    BY <1>0, <1>a, CacheAssumption
       DEF StartResolve, setting, At, NoThread, Threads, CacheTypeOK, DirsType, Stages, Dirs
  <2>2. CheckedBytes'
    BY <1>0, <1>a
       DEF StartResolve, setting, At, NoThread, Threads, CheckedBytes, CacheTypeOK, DirsType,
           Dirs
  <2>3. ASSUME ~overlapped' PROVE OneWriter' /\ StagingGrows' /\ DestIsClean'
    BY <1>0, <1>1, <1>a, <2>3, ZenonT(30)
       DEF StartResolve, setting, At, NoThread, Threads, OneWriter, StagingGrows, DestIsClean,
           CacheTypeOK, DirsType, Dirs
  <2> QED
    BY <2>1, <2>2, <2>3 DEF CacheInv
<1>b. CASE QueryRelease
  <2>1. CacheTypeOK'
    BY <1>0, <1>b, NoThreadType, CacheAssumption
       DEF QueryRelease, setting, At, Fail, Idle, NoThread, CacheTypeOK, DirsType, Stages, Dirs
  <2>2. CheckedBytes'
    BY <1>0, <1>b, NoThreadType
       DEF QueryRelease, setting, At, Fail, Idle, NoThread, CheckedBytes, CacheTypeOK,
           DirsType, Dirs
  <2>3. ASSUME ~overlapped' PROVE OneWriter' /\ StagingGrows' /\ DestIsClean'
    BY <1>0, <1>1, <1>b, <2>3, NoThreadType
       DEF QueryRelease, setting, At, Fail, Idle, NoThread, OneWriter, StagingGrows,
           DestIsClean, CacheTypeOK, DirsType, Dirs
  <2> QED
    BY <2>1, <2>2, <2>3 DEF CacheInv
<1>c. CASE FetchExpectedSha
  <2>1. CacheTypeOK'
    BY <1>0, <1>c, CacheAssumption
       DEF FetchExpectedSha, setting, At, CacheTypeOK, DirsType, Stages, Dirs
  <2>2. CheckedBytes'
    BY <1>0, <1>c DEF FetchExpectedSha, setting, At, CheckedBytes, CacheTypeOK, DirsType, Dirs
  <2>3. ASSUME ~overlapped' PROVE OneWriter' /\ StagingGrows' /\ DestIsClean'
    BY <1>0, <1>1, <1>c, <2>3
       DEF FetchExpectedSha, setting, At, OneWriter, StagingGrows, DestIsClean, CacheTypeOK,
           DirsType, Dirs
  <2> QED
    BY <2>1, <2>2, <2>3 DEF CacheInv
<1>d. CASE NetworkFails
  <2>1. CacheTypeOK'
    BY <1>0, <1>d, NoThreadType, CacheAssumption
       DEF NetworkFails, setting, Fail, Idle, NoThread, Mishap, CacheTypeOK, DirsType, Stages,
           Dirs
  <2>2. CheckedBytes'
    BY <1>0, <1>d, NoThreadType
       DEF NetworkFails, setting, Fail, Idle, NoThread, Mishap, CheckedBytes, CacheTypeOK,
           DirsType, Dirs
  <2>3. ASSUME ~overlapped' PROVE OneWriter' /\ StagingGrows' /\ DestIsClean'
    BY <1>0, <1>1, <1>d, <2>3, NoThreadType
       DEF NetworkFails, setting, Fail, Idle, NoThread, Mishap, OneWriter, StagingGrows,
           DestIsClean, CacheTypeOK, DirsType, Dirs
  <2> QED
    BY <2>1, <2>2, <2>3 DEF CacheInv
<1>e. ASSUME NEW bytes \in {"whole", "corrupt"}, Download(bytes) PROVE CacheInv'
  <2>1. CacheTypeOK'
    BY <1>0, <1>e, NoThreadType, CacheAssumption
       DEF Download, setting, VerifySha, Fail, Idle, NoThread, Mishap, Threads, CacheTypeOK,
           DirsType, Stages, Dirs
  <2>2. CheckedBytes'
    BY <1>0, <1>e, NoThreadType
       DEF Download, setting, VerifySha, Fail, Idle, NoThread, Mishap, Threads, CheckedBytes,
           CacheTypeOK, DirsType, Dirs
  <2>3. ASSUME ~overlapped' PROVE OneWriter' /\ StagingGrows' /\ DestIsClean'
    BY <1>0, <1>1, <1>e, <2>3, NoThreadType
       DEF Download, setting, VerifySha, Fail, Idle, NoThread, Mishap, Threads, OneWriter,
           StagingGrows, DestIsClean, CacheTypeOK, DirsType, Dirs
  <2> QED
    BY <2>1, <2>2, <2>3 DEF CacheInv
<1>f0. ASSUME NEW kept \in SUBSET Files, ClearStaging(kept) PROVE CacheInv'
  <2>1. /\ dirs' = Removed("staging", kept) /\ "staging" \in Dirs /\ "dest" \in Dirs
        /\ linger' = Forget("staging", kept) /\ MayKeep(kept) /\ made' \in BOOLEAN
        /\ UNCHANGED <<setting, resolved, overlapped>>
    BY <1>f0 DEF ClearStaging, Dirs
  <2>2. /\ resolve.at = "stage" /\ resolve'.at = "mkdir" /\ resolve'.thread = resolve.thread
        /\ resolve' \in [at : Stages, thread : Threads]
    BY <1>0, <1>f0 DEF ClearStaging, At, CacheTypeOK, Stages
  <2>3. CacheTypeOK' /\ CheckedBytes'
    BY <1>0, <2>1, <2>2, RemovedFacts, ForgetFacts, MayKeepType
       DEF CacheTypeOK, CheckedBytes, DirsType, setting
  <2>4. ASSUME ~overlapped' PROVE OneWriter' /\ StagingGrows' /\ DestIsClean'
    BY <1>0, <1>1, <2>1, <2>2, <2>4, RemovedFacts, ForgetFacts
       DEF OneWriter, StagingGrows, DestIsClean, CacheTypeOK, DirsType, setting
  <2> QED
    BY <2>3, <2>4 DEF CacheInv
<1>f. CASE CreateStaging
  <2>a. /\ resolve.at = "mkdir" /\ resolve'.at = "extract"
        /\ resolve'.thread.todo = Files
        /\ resolve'.thread.file = resolve.thread.file
        /\ resolve'.thread.where = resolve.thread.where
        /\ resolve'.thread.bytes = resolve.thread.bytes
        /\ resolve' \in [at : Stages, thread : Threads]
    BY <1>0, <1>f DEF CreateStaging, CacheTypeOK, Threads, Stages
  <2>1. CacheTypeOK' /\ CheckedBytes'
    BY <1>0, <1>f, <2>a DEF CreateStaging, CacheTypeOK, CheckedBytes, setting
  <2>3. ASSUME ~overlapped' PROVE OneWriter' /\ StagingGrows' /\ DestIsClean'
    BY <1>0, <1>1, <1>f, <2>3, <2>a
       DEF CreateStaging, OneWriter, StagingGrows, DestIsClean, setting
  <2> QED
    BY <2>1, <2>3 DEF CacheInv
<1>g. CASE ExtractFile
  <2>0. /\ resolve.at = "extract" /\ resolve'.at = "extract"
        /\ UNCHANGED <<platform, inherited, made, linger, resolved, overlapped, mishaps>>
    BY <1>0, <1>g DEF ExtractFile, CacheTypeOK, setting
  <2>a. CASE resolve.thread.file = {}
    <3>1. PICK f \in resolve.thread.todo :
             resolve' = [resolve EXCEPT !.thread = Begins(@, f)] /\ dirs' = CutBy("live", f)
      BY <1>g, <2>a DEF ExtractFile
    <3>2. f \in Files /\ resolve.thread \in Threads
      BY <1>0 DEF CacheTypeOK, Threads
    <3>3. resolve'.thread = Begins(resolve.thread, f) /\ resolve' \in [at : Stages, thread : Threads]
      BY <1>0, <3>1, <3>2, BeginsFacts DEF CacheTypeOK
    <3>4. CacheTypeOK' /\ CheckedBytes'
      BY <1>0, <2>0, <3>1, <3>2, <3>3, BeginsFacts, CutByFacts
         DEF CacheTypeOK, CheckedBytes, DirsType
    <3>5. ASSUME ~overlapped' PROVE OneWriter' /\ DestIsClean'
      BY <1>0, <1>1, <2>0, <3>1, <3>2, <3>3, <3>5, BeginsFacts, CutByFacts
         DEF CacheTypeOK, OneWriter, DestIsClean, DirsType
    <3>6. ASSUME ~overlapped' PROVE StagingGrows'
      <4>1. /\ resolve'.thread.todo = resolve.thread.todo \ {f}
            /\ resolve'.thread.file = {f} /\ resolve'.thread.where = "staging"
        BY <3>2, <3>3, BeginsFacts
      <4>2. \A g \in Files : dirs'["staging"][g] = IF g = f THEN "live" ELSE dirs["staging"][g]
        BY <1>0, <3>1, <3>2, CutByFacts DEF CacheTypeOK, DirsType
      <4>3. \A g \in Files : g \notin resolve.thread.todo => dirs["staging"][g] = "whole"
        BY <1>1, <2>0, <2>a, <3>6 DEF StagingGrows
      <4> QED
        BY <2>0, <3>2, <4>1, <4>2, <4>3 DEF StagingGrows
    <3> QED
      BY <3>4, <3>5, <3>6 DEF CacheInv
  <2>b. CASE resolve.thread.file # {}
    <3>1. resolve' = [resolve EXCEPT !.thread = Ends(@)] /\ dirs' = FilledBy("live", resolve.thread)
      BY <1>g, <2>b DEF ExtractFile
    <3>2. resolve.thread \in Threads
      BY <1>0 DEF CacheTypeOK
    <3>3. resolve'.thread = Ends(resolve.thread) /\ resolve' \in [at : Stages, thread : Threads]
      BY <1>0, <3>1, <3>2, EndsFacts DEF CacheTypeOK
    <3>4. CacheTypeOK' /\ CheckedBytes'
      BY <1>0, <2>0, <3>1, <3>2, <3>3, EndsFacts, FilledByFacts
         DEF CacheTypeOK, CheckedBytes, DirsType
    <3>5. ASSUME ~overlapped' PROVE OneWriter' /\ DestIsClean'
      BY <1>0, <1>1, <2>0, <3>1, <3>2, <3>3, <3>5, EndsFacts, FilledByFacts
         DEF CacheTypeOK, OneWriter, DestIsClean, DirsType, Dirs
    <3>6. ASSUME ~overlapped' PROVE StagingGrows'
      BY <1>0, <1>1, <2>0, <2>b, <3>1, <3>2, <3>3, <3>6, EndsFacts, FilledByFacts
         DEF CacheTypeOK, StagingGrows, DirsType, Dirs, CheckedBytes
    <3> QED
      BY <3>4, <3>5, <3>6 DEF CacheInv
  <2> QED
    BY <2>a, <2>b
<1>h. CASE DiskFails
  <2>1. CacheTypeOK'
    BY <1>0, <1>h, NoThreadType, LeftByFacts, CacheAssumption
       DEF DiskFails, setting, Fail, Idle, NoThread, Mishap, CacheTypeOK, DirsType, Stages,
           Dirs
  <2>2. CheckedBytes'
    BY <1>0, <1>h, NoThreadType, LeftByFacts
       DEF DiskFails, setting, Fail, Idle, NoThread, Mishap, CheckedBytes, CacheTypeOK,
           DirsType, Dirs
  <2>3. ASSUME ~overlapped' PROVE OneWriter' /\ StagingGrows' /\ DestIsClean'
    BY <1>0, <1>1, <1>h, <2>3, NoThreadType, LeftByFacts
       DEF DiskFails, setting, Fail, Idle, NoThread, Mishap, OneWriter, StagingGrows,
           DestIsClean, CacheTypeOK, DirsType, Dirs
  <2> QED
    BY <2>1, <2>2, <2>3 DEF CacheInv
<1>i. ASSUME NEW kept \in SUBSET Files, RemoveIncomplete(kept) PROVE CacheInv'
  <2>1. /\ dirs' = Removed("dest", kept) /\ "staging" \in Dirs /\ "dest" \in Dirs
        /\ linger' = Forget("dest", kept) /\ MayKeep(kept)
        /\ UNCHANGED <<setting, made, resolved, overlapped>>
    BY <1>i DEF RemoveIncomplete, Dirs
  <2>2. /\ resolve.at = "extract" /\ resolve'.at = "move" /\ resolve'.thread = resolve.thread
        /\ resolve' \in [at : Stages, thread : Threads]
        /\ resolve.thread.todo = {} /\ resolve.thread.file = {}
    BY <1>0, <1>i DEF RemoveIncomplete, Finished, At, CacheTypeOK, Stages
  <2>3. CacheTypeOK' /\ CheckedBytes'
    BY <1>0, <2>1, <2>2, RemovedFacts, ForgetFacts, MayKeepType
       DEF CacheTypeOK, CheckedBytes, DirsType, setting
  <2>4. ASSUME ~overlapped' PROVE OneWriter' /\ StagingGrows'
    BY <1>0, <1>1, <2>1, <2>2, <2>4, RemovedFacts, ForgetFacts
       DEF OneWriter, StagingGrows, CacheTypeOK, DirsType
  <2>5. ASSUME ~overlapped' PROVE DestIsClean'
    <3>1. \A g \in Files : dirs'["dest"][g] = IF g \notin kept THEN "missing" ELSE dirs["dest"][g]
      BY <1>0, <2>1, RemovedFacts DEF CacheTypeOK, DirsType
    <3>. QED
      BY <1>1, <2>1, <2>5, <3>1 DEF DestIsClean, setting
  <2> QED
    BY <2>3, <2>4, <2>5 DEF CacheInv
<1>j. CASE MoveIntoPlace
  <2>0. resolve.at = "move" /\ resolve' = Idle /\ UNCHANGED <<setting, overlapped, mishaps>> /\ made' \in BOOLEAN
    BY <1>0, <1>j DEF MoveIntoPlace, Fail, CacheTypeOK
  <2>1. /\ dirs' \in DirsType /\ resolved' \in BOOLEAN
        /\ linger' \in Threads /\ linger'.bytes = linger.bytes
    BY <1>0, <1>j, ZenonT(30)
       DEF MoveIntoPlace, CacheTypeOK, Threads, DirsType, Dirs, FileStates, Empty,
           TryCached
  <2>2. CacheTypeOK' /\ CheckedBytes'
    BY <1>0, <2>0, <2>1, NoThreadType
       DEF CacheTypeOK, CheckedBytes, DirsType, Idle, NoThread, setting
  <2>3. ASSUME ~overlapped' PROVE OneWriter' /\ StagingGrows'
    BY <1>0, <1>1, <1>j, <2>0, <2>3
       DEF MoveIntoPlace, OneWriter, StagingGrows, Idle, NoThread
  <2>4. \/ \A f \in Files : dirs'["dest"][f] = dirs["dest"][f]
        \/ \A f \in Files : dirs'["dest"][f] = dirs["staging"][f]
    BY <1>0, <1>j DEF MoveIntoPlace, CacheTypeOK, DirsType, Dirs
  <2>5. ASSUME ~overlapped' PROVE DestIsClean'
    BY <1>1, <2>0, <2>4, <2>5 DEF StagingGrows, DestIsClean, setting
  <2> QED
    BY <2>2, <2>3, <2>5 DEF CacheInv
<1>k. CASE LingeringWrites
  <2>0. linger # NoThread /\ UNCHANGED <<platform, inherited, made, resolve, resolved, overlapped, mishaps>>
    BY <1>k DEF LingeringWrites, NoThread, setting
  <2>1. /\ linger' \in Threads /\ dirs' \in DirsType /\ linger'.bytes = "whole"
        /\ linger.where # "dest" =>
             linger'.where # "dest" /\ \A f \in Files : dirs'["dest"][f] = dirs["dest"][f]
    <3>1. linger \in Threads /\ dirs \in DirsType /\ linger.bytes = "whole"
      BY <1>0 DEF CacheTypeOK, CheckedBytes, DirsType
    <3>a. CASE linger' = NoThread /\ UNCHANGED dirs
      BY <3>1, <3>a, NoThreadType DEF NoThread
    <3>2. CASE linger.file = {} /\ made
      <4>1. PICK f \in linger.todo : linger' = Begins(linger, f) /\ dirs' = CutBy("linger", f)
        BY <1>k, <3>2 DEF LingeringWrites
      <4>2. f \in Files
        BY <3>1 DEF Threads
      <4> QED
        BY <3>1, <4>1, <4>2, BeginsFacts, CutByFacts
    <3>3. CASE linger.file # {}
      <4>1. linger' \in {NoThread, Ends(linger)} /\ dirs' = FilledBy("linger", linger)
        BY <1>k, <3>3 DEF LingeringWrites
      <4>2. linger' \in Threads /\ linger'.bytes = "whole"
        BY <3>1, <4>1, EndsFacts, NoThreadType DEF NoThread
      <4>3. linger.where # "dest" => linger'.where # "dest"
        BY <3>1, <4>1, EndsFacts DEF NoThread
      <4> QED
        BY <3>1, <4>1, <4>2, <4>3, FilledByFacts DEF Dirs
    <3> QED
      BY <1>k, <3>a, <3>2, <3>3 DEF LingeringWrites
  <2>2. CacheTypeOK' /\ CheckedBytes'
    BY <1>0, <2>0, <2>1 DEF CacheTypeOK, CheckedBytes, DirsType
  <2>3. ASSUME ~overlapped' PROVE OneWriter' /\ DestIsClean' /\ StagingGrows'
    BY <1>1, <2>0, <2>1, <2>3 DEF OneWriter, DestIsClean, StagingGrows
  <2> QED
    BY <2>2, <2>3 DEF CacheInv
<1>l. CASE KillLingering
  <2>1. CacheTypeOK'
    BY <1>0, <1>l, NoThreadType, LeftByFacts, CacheAssumption
       DEF KillLingering, setting, NoThread, Mishap, CacheTypeOK, DirsType, Stages, Dirs
  <2>2. CheckedBytes'
    BY <1>0, <1>l, NoThreadType, LeftByFacts
       DEF KillLingering, setting, NoThread, Mishap, CheckedBytes, CacheTypeOK, DirsType, Dirs
  <2>3. ASSUME ~overlapped' PROVE OneWriter' /\ StagingGrows' /\ DestIsClean'
    BY <1>0, <1>1, <1>l, <2>3, NoThreadType, LeftByFacts
       DEF KillLingering, setting, NoThread, Mishap, OneWriter, StagingGrows, DestIsClean,
           CacheTypeOK, DirsType, Dirs
  <2> QED
    BY <2>1, <2>2, <2>3 DEF CacheInv
<1>m. CASE KillDaemon
  <2>1. CacheTypeOK'
    <3>1. dirs' \in DirsType /\ linger' \in Threads
      BY <1>0, <1>m, LeftByFacts DEF KillDaemon, setting, CacheTypeOK, DirsType
    <3>2. resolve' \in [at : Stages, thread : Threads] /\ UNCHANGED <<platform, inherited, made, overlapped>>
      BY <1>m, DownFacts DEF KillDaemon, setting
    <3>3. resolved' \in BOOLEAN
      BY <1>m DEF KillDaemon, setting
    <3>4. mishaps' \in 0..MaxMishaps
      BY <1>0, <1>m, CacheAssumption DEF KillDaemon, setting, Mishap, CacheTypeOK
    <3> QED
      BY <1>0, <3>1, <3>2, <3>3, <3>4 DEF CacheTypeOK, DirsType
  <2>2. CheckedBytes'
    BY <1>0, <1>m, DownFacts, LeftByFacts
       DEF KillDaemon, setting, NoThread, Mishap, CheckedBytes, CacheTypeOK, DirsType, Dirs
  <2>3. ASSUME ~overlapped' PROVE OneWriter' /\ StagingGrows' /\ DestIsClean'
    BY <1>0, <1>1, <1>m, <2>3, DownFacts, LeftByFacts
       DEF KillDaemon, setting, NoThread, Mishap, OneWriter, StagingGrows, DestIsClean,
           CacheTypeOK, DirsType, Dirs
  <2> QED
    BY <2>1, <2>2, <2>3 DEF CacheInv
<1>n. CASE ShutdownDaemon
  <2>1. CacheTypeOK'
    <3>1. dirs' \in DirsType /\ linger' \in Threads
      BY <1>0, <1>n DEF ShutdownDaemon, setting, EndDaemon, Dirs, FileStates, CacheTypeOK, DirsType
    <3>2. resolve' \in [at : Stages, thread : Threads] /\ UNCHANGED <<platform, inherited, made, overlapped>>
      BY <1>n, DownFacts DEF ShutdownDaemon, setting, EndDaemon, Dirs, FileStates
    <3>3. resolved' \in BOOLEAN
      BY <1>n DEF ShutdownDaemon, setting, EndDaemon, Dirs, FileStates
    <3>4. mishaps' \in 0..MaxMishaps
      BY <1>0, <1>n, CacheAssumption
         DEF ShutdownDaemon, setting, EndDaemon, Dirs, FileStates, Mishap, CacheTypeOK
    <3> QED
      BY <1>0, <3>1, <3>2, <3>3, <3>4 DEF CacheTypeOK, DirsType
  <2>2. CheckedBytes'
    BY <1>0, <1>n, DownFacts
       DEF ShutdownDaemon, setting, EndDaemon, NoThread, Mishap, FileStates, CheckedBytes,
           CacheTypeOK, DirsType, Dirs
  <2>3. ASSUME ~overlapped' PROVE OneWriter' /\ StagingGrows' /\ DestIsClean'
    BY <1>0, <1>1, <1>n, <2>3, DownFacts
       DEF ShutdownDaemon, setting, EndDaemon, NoThread, Mishap, FileStates, OneWriter,
           StagingGrows, DestIsClean, CacheTypeOK, DirsType, Dirs
  <2> QED
    BY <2>1, <2>2, <2>3 DEF CacheInv
<1>o. CASE StartDaemon
  <2>1. CacheTypeOK'
    BY <1>0, <1>o, NoThreadType, CacheAssumption
       DEF StartDaemon, setting, Idle, NoThread, CacheTypeOK, DirsType, Stages, Dirs
  <2>2. CheckedBytes'
    BY <1>0, <1>o, NoThreadType
       DEF StartDaemon, setting, Idle, NoThread, CheckedBytes, CacheTypeOK, DirsType, Dirs
  <2>3. ASSUME ~overlapped' PROVE OneWriter' /\ StagingGrows' /\ DestIsClean'
    BY <1>0, <1>1, <1>o, <2>3, NoThreadType
       DEF StartDaemon, setting, Idle, NoThread, OneWriter, StagingGrows, DestIsClean,
           CacheTypeOK, DirsType, Dirs
  <2> QED
    BY <2>1, <2>2, <2>3 DEF CacheInv
<1>p. CASE UNCHANGED cacheVars
  BY <1>p
     DEF CacheInv, cacheVars, CacheTypeOK, CheckedBytes, OneWriter, StagingGrows,
         DestIsClean
<1> QED
  BY <1>a, <1>b, <1>c, <1>d, <1>e, <1>f0, <1>f, <1>g, <1>h, <1>i, <1>j, <1>k, <1>l, <1>m, <1>n, <1>o,
     <1>p DEF CacheNext, ResolverStep

\* Whatever is trusted on sight in `<tag>` is whole, for any set of binaries and
\* any number of failed requests, corrupt archives, full disks, kills and
\* shutdowns, as long as no resolution meets the thread of an earlier daemon and
\* no older build left a `<tag>` with a file cut short and none missing.
THEOREM CacheIsSound == CacheSpec => []CachedCoreIsWhole
<1>1. CacheInv => CachedCoreIsWhole
  <2>1. dirs.dest = dirs["dest"]
    OBVIOUS
  <2>. QED
    BY <2>1 DEF CacheInv, DestIsClean, CachedCoreIsWhole, TryCached
<1> QED
  BY CacheInitInv, CacheStepInv, <1>1, PTL DEF CacheSpec
=============================================================================
