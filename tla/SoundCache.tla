----------------------------- MODULE SoundCache -----------------------------
(***************************************************************************)
(* SoundCache (include/soundcache.hpp, src/soundcache.cpp): sounds are     *)
(* converted once to a .wav in the cache directory and kept in memory as   *)
(* long as they are needed.  The work is done by jobs of the job system:   *)
(* CacheAllSoundEffectsJob, which first synchronises the directory with    *)
(* the version of the program (Sync) and then starts one job per resident  *)
(* sound, and SoundAddToCacheJob, one per sound.  The process may be       *)
(* killed between any two steps, and started again as a newer version.     *)
(*                                                                         *)
(* A file is what was written to it: "cut" short, "stale" (whole, by an    *)
(* older version), "whole", or the job that opened it last and is still    *)
(* writing it.  An open file follows its name when it is renamed.          *)
(***************************************************************************)
EXTENDS Integers, FiniteSets

CONSTANTS Names,       \* the sounds
          Resident,    \* those with mIsCacheResident
          Locatable,   \* those LocateSound finds
          Jobs,        \* SoundAddToCacheJob objects
          NameOf,      \* NameOf[j]: the sound job j caches
          MaxRunning   \* the workers of the job system

ASSUME SoundCacheAssumption ==
  /\ Resident \subseteq Names /\ Locatable \subseteq Names
  /\ NameOf \in [Jobs -> Names]
  /\ \A n \in Resident : \E j \in Jobs : NameOf[j] = n
  /\ MaxRunning \in Nat \ {0}
  /\ Jobs \cap {"none", "cut", "stale", "whole"} = {}

VARIABLES
  wav, tmp,     \* the .wav and .tmp file of every sound
  version,      \* CacheVersion.txt: "other", "empty" or "current"
  mSoundDataCache,
  mSyncDone,
  pc,           \* where every SoundAddToCacheJob is
  file,         \* the name under which a job's output file is known
  data,         \* what a job read back
  cancelled,    \* the jobs whose cancel flag is set
  allPc,        \* where the CacheAllSoundEffectsJob is
  allCancelled,
  todo,         \* the resident sounds it has still to start a job for
  mStopWork     \* the job system is being stopped

disk    == <<wav, tmp, version>>
memory  == <<mSoundDataCache, mSyncDone>>
jobVars == <<pc, file, data, cancelled>>
allVars == <<allPc, allCancelled, todo>>
vars    == <<disk, memory, jobVars, allVars, mStopWork>>

Contents == {"none", "cut", "stale", "whole"}
JobLabels ==
  {"none", "queued", "exists", "disk", "locate", "load", "open", "convert",
   "converted", "rename", "read", "check", "store", "done"}
AllLabels ==
  {"none", "queued", "sync", "deleteWav", "truncate", "write", "deleteTmp",
   "start", "done"}

\* Labels of a job on a worker.
Executing(l) == l \notin {"none", "queued", "done"}
RunningJobs  == Cardinality({j \in Jobs : Executing(pc[j])})
                  + (IF Executing(allPc) THEN 1 ELSE 0)
IsBusy       == allPc # "none" \/ \E j \in Jobs : pc[j] # "none"
IsCancelled(j) == mStopWork \/ j \in cancelled

Nowhere == [n \in Names |-> "none"]

Init ==
  /\ wav \in [Names -> {"none", "stale"}] /\ tmp \in [Names -> {"none", "cut"}]
  /\ version \in {"other", "empty"}
  /\ mSoundDataCache = Nowhere /\ mSyncDone = FALSE
  /\ pc = [j \in Jobs |-> "none"] /\ file = [j \in Jobs |-> "none"]
  /\ data = [j \in Jobs |-> "none"] /\ cancelled = {}
  /\ allPc = "none" /\ allCancelled = FALSE /\ todo = {}
  /\ mStopWork = FALSE

-----------------------------------------------------------------------------
(* What the owner calls, on the main thread.                               *)

CacheAllSoundEffects ==
  /\ allPc = "none"
  /\ allPc' = "queued" /\ allCancelled' = FALSE
  /\ UNCHANGED <<disk, memory, jobVars, todo, mStopWork>>

\* CacheSound, from the main thread or from CacheAllSoundEffectsImp.
CacheSound(j) ==
  /\ pc[j] = "none"
  /\ pc' = [pc EXCEPT ![j] = "queued"]
  /\ cancelled' = cancelled \ {j}
  /\ UNCHANGED <<file, data>>

RemoveFromMemoryCache(n) ==
  /\ mSoundDataCache' = [mSoundDataCache EXCEPT ![n] = "none"]
  /\ UNCHANGED <<disk, mSyncDone, jobVars, allVars, mStopWork>>

\* Every job that is outstanding now; not those started later.
Cancel ==
  /\ cancelled' = {j \in Jobs : pc[j] # "none"}
  /\ allCancelled' = (allPc # "none")
  /\ UNCHANGED <<disk, memory, pc, file, data, allPc, todo, mStopWork>>

\* OnFinished of the wrappers, inside JobSystem::Update.
JobFinished(j) ==
  /\ pc[j] = "done"
  /\ pc' = [pc EXCEPT ![j] = "none"]
  /\ data' = [data EXCEPT ![j] = "none"]
  /\ UNCHANGED <<disk, memory, file, cancelled, allVars, mStopWork>>

AllFinished ==
  /\ allPc = "done"
  /\ allPc' = "none"
  /\ UNCHANGED <<disk, memory, jobVars, allCancelled, todo, mStopWork>>

-----------------------------------------------------------------------------
(* CacheAllSoundEffectsJob: Sync, under mCacheMutex, then CacheSound for   *)
(* every resident sound.                                                   *)

AllBegin ==
  /\ allPc = "queued" /\ ~mStopWork
  /\ RunningJobs < MaxRunning
  /\ allPc' = "sync"
  /\ UNCHANGED <<disk, memory, jobVars, allCancelled, todo, mStopWork>>

\* Mutant: a version file that is there is taken for this version's.
SyncCheckExists ==
  /\ allPc = "sync"
  /\ IF mSyncDone
     THEN /\ allPc' = "start" /\ todo' = Resident
          /\ UNCHANGED mSoundDataCache
     ELSE /\ mSoundDataCache' = Nowhere
          /\ allPc' = IF version # "other" THEN "deleteTmp" ELSE "deleteWav"
          /\ UNCHANGED todo
  /\ UNCHANGED <<disk, mSyncDone, jobVars, allCancelled, mStopWork>>

\* Mutant: the version file is written before the old files are deleted.
SyncCheckMarksFirst ==
  /\ allPc = "sync" /\ ~mSyncDone
  /\ mSoundDataCache' = Nowhere
  /\ version' = "current"
  /\ allPc' = IF version = "current" THEN "deleteTmp" ELSE "deleteWav"
  /\ UNCHANGED <<wav, tmp, todo, mSyncDone, jobVars, allCancelled, mStopWork>>

SyncCheck ==
  /\ allPc = "sync"
  /\ IF mSyncDone
     THEN /\ allPc' = "start" /\ todo' = Resident
          /\ UNCHANGED mSoundDataCache
     ELSE /\ mSoundDataCache' = Nowhere
          /\ allPc' = IF version = "current" THEN "deleteTmp" ELSE "deleteWav"
          /\ UNCHANGED todo
  /\ UNCHANGED <<disk, mSyncDone, jobVars, allCancelled, mStopWork>>

\* DeleteFromDiskCache("*.wav"), file by file.
SyncDeleteWav ==
  /\ allPc = "deleteWav"
  /\ \/ /\ wav = Nowhere
        /\ allPc' = "truncate"
        /\ UNCHANGED wav
     \/ \E n \in Names :
          /\ wav[n] # "none"
          /\ wav' = [wav EXCEPT ![n] = "none"]
          /\ UNCHANGED allPc
  /\ UNCHANGED <<tmp, version, memory, jobVars, allCancelled, todo, mStopWork>>

\* The version file is opened with trunc, then written.
SyncTruncateVersion ==
  /\ allPc = "truncate"
  /\ version' = "empty"
  /\ mSoundDataCache' = Nowhere
  /\ allPc' = "write"
  /\ UNCHANGED <<wav, tmp, mSyncDone, jobVars, allCancelled, todo, mStopWork>>

SyncWriteVersion ==
  /\ allPc = "write"
  /\ version' = "current"
  /\ allPc' = "deleteTmp"
  /\ UNCHANGED <<wav, tmp, memory, jobVars, allCancelled, todo, mStopWork>>

\* DeleteFromDiskCache("*.tmp"), file by file, then mSyncDone.
SyncDeleteTmp ==
  /\ allPc = "deleteTmp"
  /\ \/ /\ tmp = Nowhere
        /\ mSyncDone' = TRUE
        /\ allPc' = "start" /\ todo' = Resident
        /\ UNCHANGED tmp
     \/ \E n \in Names :
          /\ tmp[n] # "none"
          /\ tmp' = [tmp EXCEPT ![n] = "none"]
          /\ UNCHANGED <<mSyncDone, allPc, todo>>
  /\ UNCHANGED <<wav, version, mSoundDataCache, jobVars, allCancelled,
                 mStopWork>>

AllStart ==
  /\ allPc = "start"
  /\ \/ /\ mStopWork \/ allCancelled \/ todo = {}
        /\ allPc' = "done" /\ todo' = {}
        /\ UNCHANGED jobVars
     \/ /\ ~mStopWork /\ ~allCancelled
        /\ \E j \in Jobs :
             /\ NameOf[j] \in todo
             /\ todo' = todo \ {NameOf[j]}
             /\ CacheSound(j)
        /\ UNCHANGED allPc
  /\ UNCHANGED <<disk, memory, allCancelled, mStopWork>>

AllStep == \/ AllBegin \/ SyncCheck \/ SyncDeleteWav \/ SyncTruncateVersion
           \/ SyncWriteVersion \/ SyncDeleteTmp \/ AllStart

-----------------------------------------------------------------------------
(* SoundAddToCacheJob: CacheSoundImpl.                                     *)

Goto(j, l) == pc' = [pc EXCEPT ![j] = l]
Unchanged(v) == UNCHANGED <<v, cancelled, allVars, mStopWork>>

JobBegin(j) ==
  /\ pc[j] = "queued" /\ ~mStopWork
  /\ RunningJobs < MaxRunning
  /\ Goto(j, "exists")
  /\ Unchanged(<<disk, memory, file, data>>)

TestMemory(j) ==
  /\ pc[j] = "exists"
  /\ Goto(j, IF IsCancelled(j) \/ mSoundDataCache[NameOf[j]] # "none"
             THEN "done" ELSE "disk")
  /\ Unchanged(<<disk, memory, file, data>>)

\* What a reader finds in a file.
Read(content) == IF content \in Jobs THEN "cut" ELSE content

\* AddToMemoryCacheFromDiskCache; there is no further test of the flag.
ReadDisk(j) ==
  /\ pc[j] = "disk"
  /\ IF IsCancelled(j)
     THEN Goto(j, "done") /\ UNCHANGED data
     ELSE IF wav[NameOf[j]] = "none"
     THEN Goto(j, "locate") /\ UNCHANGED data
     ELSE Goto(j, "store") /\ data' = [data EXCEPT ![j] = Read(wav[NameOf[j]])]
  /\ Unchanged(<<disk, memory, file>>)

Locate(j) ==
  /\ pc[j] = "locate"
  /\ Goto(j, IF IsCancelled(j) \/ NameOf[j] \notin Locatable
             THEN "done" ELSE "load")
  /\ Unchanged(<<disk, memory, file, data>>)

Load(j) ==
  /\ pc[j] = "load"
  /\ Goto(j, IF IsCancelled(j) THEN "done" ELSE "open")
  /\ Unchanged(<<disk, memory, file, data>>)

\* The encoder opens the .tmp with trunc; if it is there it is the same file.
ConvertOpen(j) ==
  /\ pc[j] = "open"
  /\ tmp' = [tmp EXCEPT ![NameOf[j]] = j]
  /\ file' = [file EXCEPT ![j] = "tmp"]
  /\ Goto(j, "convert")
  /\ Unchanged(<<wav, version, memory, data>>)

\* Convert returns at the end of the sound, or as soon as it sees the flag.
\* The file is complete if no job opened it later.
ConvertEnd(j) ==
  /\ pc[j] = "convert"
  /\ \E result \in {"whole"} \cup (IF IsCancelled(j) THEN {"cut"} ELSE {}) :
       /\ tmp' = [n \in Names |-> IF tmp[n] = j THEN result ELSE tmp[n]]
       /\ wav' = [n \in Names |-> IF wav[n] = j THEN result ELSE wav[n]]
  /\ file' = [file EXCEPT ![j] = "none"]
  /\ Goto(j, "converted")
  /\ Unchanged(<<version, memory, data>>)

\* Files open under the names of sound n get another name, or none.
Renamed(n, name) ==
  file' = [k \in Jobs |-> IF NameOf[k] # n THEN file[k]
                          ELSE IF file[k] = "tmp" THEN name ELSE "none"]

\* "Ensure we don't rename if it was stopped halfway!"
TestConverted(j) ==
  /\ pc[j] = "converted"
  /\ IF IsCancelled(j)
     THEN /\ tmp' = [tmp EXCEPT ![NameOf[j]] = "none"]
          /\ file' = [k \in Jobs |-> IF NameOf[k] = NameOf[j] /\ file[k] = "tmp"
                                     THEN "none" ELSE file[k]]
          /\ Goto(j, "done")
     ELSE Goto(j, "rename") /\ UNCHANGED <<tmp, file>>
  /\ Unchanged(<<wav, version, memory, data>>)

\* A rename that fails is only logged.
Rename(j) ==
  LET n == NameOf[j]
  IN /\ pc[j] = "rename"
     /\ IF tmp[n] = "none"
        THEN UNCHANGED <<wav, tmp, file>>
        ELSE /\ wav' = [wav EXCEPT ![n] = tmp[n]]
             /\ tmp' = [tmp EXCEPT ![n] = "none"]
             /\ Renamed(n, "wav")
     /\ Goto(j, "read")
     /\ Unchanged(<<version, memory, data>>)

\* Without a .wav Open throws on the worker and the process ends: Restart.
ReadBack(j) ==
  /\ pc[j] = "read"
  /\ wav[NameOf[j]] # "none"
  /\ data' = [data EXCEPT ![j] = Read(wav[NameOf[j]])]
  /\ Goto(j, "check")
  /\ Unchanged(<<disk, memory, file>>)

TestReadBack(j) ==
  /\ pc[j] = "check"
  /\ Goto(j, IF IsCancelled(j) THEN "done" ELSE "store")
  /\ Unchanged(<<disk, memory, file, data>>)

StoreInMemory(j) ==
  /\ pc[j] = "store"
  /\ mSoundDataCache' = [mSoundDataCache EXCEPT ![NameOf[j]] = data[j]]
  /\ Goto(j, "done")
  /\ Unchanged(<<disk, mSyncDone, file, data>>)

JobStep(j) ==
  \/ JobBegin(j) \/ TestMemory(j) \/ ReadDisk(j) \/ Locate(j) \/ Load(j)
  \/ ConvertOpen(j) \/ ConvertEnd(j) \/ TestConverted(j) \/ Rename(j)
  \/ ReadBack(j) \/ TestReadBack(j) \/ StoreInMemory(j)

-----------------------------------------------------------------------------
(* The end of the process.                                                 *)

\* ~JobSystem: every flag is set and the jobs not started yet are dropped.
Stop ==
  /\ mStopWork' = TRUE
  /\ UNCHANGED <<disk, memory, jobVars, allVars>>

\* The process ends, in the middle of anything, and is started again; it may
\* be a newer version.  Files that were being written stay as they are.
Restart(newer) ==
  LET Left(content) == IF content \in Jobs THEN "cut"
                       ELSE IF newer /\ content = "whole" THEN "stale"
                       ELSE content
  IN /\ wav' = [n \in Names |-> Left(wav[n])]
     /\ tmp' = [n \in Names |-> Left(tmp[n])]
     /\ version' = IF newer /\ version = "current" THEN "other" ELSE version
     /\ mSoundDataCache' = Nowhere /\ mSyncDone' = FALSE
     /\ pc' = [j \in Jobs |-> "none"] /\ file' = [j \in Jobs |-> "none"]
     /\ data' = [j \in Jobs |-> "none"] /\ cancelled' = {}
     /\ allPc' = "none" /\ allCancelled' = FALSE /\ todo' = {}
     /\ mStopWork' = FALSE

-----------------------------------------------------------------------------
(* The owner's protocol, which Sound is shown to follow: a CacheAll job,   *)
(* the jobs of a theme after it, removals and the next CacheAll job only   *)
(* when nothing is outstanding.                                            *)

ClientCacheAll   == ~IsBusy /\ CacheAllSoundEffects
ClientCacheSound(j) ==
  /\ allPc = "none" /\ mSyncDone
  /\ CacheSound(j)
  /\ UNCHANGED <<disk, memory, allVars, mStopWork>>
ClientRemove(n)  == ~IsBusy /\ RemoveFromMemoryCache(n)

Next ==
  \/ ClientCacheAll
  \/ \E j \in Jobs : ClientCacheSound(j)
  \/ \E n \in Names : ClientRemove(n)
  \/ Cancel
  \/ \E j \in Jobs : JobFinished(j)
  \/ AllFinished
  \/ AllStep
  \/ \E j \in Jobs : JobStep(j)
  \/ Stop
  \/ \E newer \in BOOLEAN : Restart(newer)

Spec == Init /\ [][Next]_vars

-----------------------------------------------------------------------------
TypeOK ==
  /\ wav \in [Names -> Contents \cup Jobs]
  /\ tmp \in [Names -> Contents \cup Jobs]
  /\ version \in {"other", "empty", "current"}
  /\ mSoundDataCache \in [Names -> Contents]
  /\ mSyncDone \in BOOLEAN
  /\ pc \in [Jobs -> JobLabels]
  /\ file \in [Jobs -> {"none", "tmp", "wav"}]
  /\ data \in [Jobs -> Contents]
  /\ cancelled \subseteq Jobs
  /\ allPc \in AllLabels /\ allCancelled \in BOOLEAN
  /\ todo \subseteq Resident
  /\ mStopWork \in BOOLEAN

\* PublishedIsComplete: a .wav is never a conversion that was cut short or is
\* still being written, wherever the process was killed or a job cancelled
\* ("Otherwise we will try to load incomplete conversions of sound data").
PublishedIsComplete == \A n \in Names : wav[n] \in {"none", "stale", "whole"}

\* VersionGuardsStale: CacheVersion.txt names this version only when no .wav
\* of another one is left, at every point of Sync the process may die at.
VersionGuardsStale ==
  version = "current" => \A n \in Names : wav[n] # "stale"

\* PlayableInMemory: what GetCached hands to the mixer is a whole sound of
\* this version, never one cut short nor one converted by an older program.
PlayableInMemory ==
  \A n \in Names : mSoundDataCache[n] \in {"none", "whole"}

\* NoOrphanTmp: after Sync a .tmp exists only while a job is on its way to
\* rename or to delete it: cancelled conversions leave nothing behind.
NoOrphanTmp ==
  mSyncDone => \A n \in Names :
    tmp[n] # "none" => \E j \in Jobs :
      NameOf[j] = n /\ pc[j] \in {"convert", "converted", "rename"}

\* DiskIsTrustworthy: wherever the process was killed, what the cache directory
\* holds may be taken at its word by this program and by a newer one.
DiskIsTrustworthy == PublishedIsComplete /\ VersionGuardsStale /\ NoOrphanTmp

\* SoundsAreWhole: no crash, cancelled conversion or newer program leaves half
\* a sound or an old one on disk or in memory.
SoundsAreWhole == DiskIsTrustworthy /\ PlayableInMemory

\* JobDelivers: a job that ended without being cancelled has left its sound
\* in memory, if there is such a sound, until the owner hears of it.
JobDelivers ==
  \A j \in Jobs :
    pc[j] = "done" /\ ~IsCancelled(j) /\ NameOf[j] \in Locatable
      => mSoundDataCache[NameOf[j]] # "none"
=============================================================================
