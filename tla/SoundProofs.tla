---------------------------- MODULE SoundProofs ----------------------------
(***************************************************************************)
(* The safety of SoundCache when no two jobs are for the same sound, and   *)
(* of Sound, its client, for any sounds, themes, jobs and workers; and of  *)
(* Sequencer, the sounds that are made, for any songs and sound bank.      *)
(***************************************************************************)
EXTENDS Sound, Sequencer, SequenceTheorems, WellFoundedInduction, TLAPS

OneJobPerSound == \A j, k \in Jobs : NameOf[j] = NameOf[k] => j = k

\* What is known of the .tmp of a job between ConvertOpen and Rename.
TmpOfJob ==
  \A j \in Jobs :
    /\ pc[j] = "convert" <=> file[j] = "tmp"
    /\ pc[j] # "convert" <=> file[j] = "none"
    /\ pc[j] = "convert" => tmp[NameOf[j]] = j
    /\ pc[j] = "converted" =>
         \/ tmp[NameOf[j]] = "whole"
         \/ tmp[NameOf[j]] = "cut" /\ IsCancelled(j)
    /\ pc[j] = "rename" => tmp[NameOf[j]] = "whole"

\* A file is being written by the job of its sound only.
WriterOfTmp ==
  \A n \in Names :
    tmp[n] \in Jobs => pc[tmp[n]] = "convert" /\ NameOf[tmp[n]] = n

\* Jobs exist only after Sync, which leaves the current version behind.
SyncFirst ==
  /\ \A j \in Jobs : pc[j] # "none" => mSyncDone
  /\ allPc \in {"deleteWav", "truncate", "write", "deleteTmp"} => ~mSyncDone
  /\ allPc = "start" => mSyncDone
  /\ allPc = "deleteTmp" \/ mSyncDone => version = "current"
  /\ allPc \in {"truncate", "write"} => \A n \in Names : wav[n] # "stale"

\* What a job read back is a whole sound of this version.
DataWhole ==
  \A j \in Jobs :
    /\ pc[j] \in {"check", "store"} => data[j] = "whole"
    /\ pc[j] = "read" => wav[NameOf[j]] = "whole"

Inv ==
  /\ TypeOK
  /\ TmpOfJob /\ WriterOfTmp /\ SyncFirst /\ DataWhole
  /\ PublishedIsComplete /\ VersionGuardsStale /\ PlayableInMemory
  /\ NoOrphanTmp /\ JobDelivers

-----------------------------------------------------------------------------
\* Each step of the component keeps the types.
LEMMA TypeStep ==
  ASSUME TypeOK, [Next]_vars
  PROVE  TypeOK'
<1> USE SoundCacheAssumption
    DEF Contents, JobLabels, AllLabels, Goto, Unchanged, disk,
        memory, jobVars, allVars, Nowhere, IsCancelled
<1>1. CASE ClientCacheAll
  BY <1>1 DEF TypeOK, ClientCacheAll, CacheAllSoundEffects
<1>2. ASSUME NEW j \in Jobs, ClientCacheSound(j) PROVE TypeOK'
  BY <1>2 DEF TypeOK, ClientCacheSound, CacheSound
<1>3. ASSUME NEW n \in Names, ClientRemove(n) PROVE TypeOK'
  BY <1>3 DEF TypeOK, ClientRemove, RemoveFromMemoryCache, IsBusy
<1>4. CASE Cancel
  BY <1>4 DEF TypeOK, Cancel
<1>5. ASSUME NEW j \in Jobs, JobFinished(j) PROVE TypeOK'
  BY <1>5 DEF TypeOK, JobFinished
<1>6. CASE AllFinished
  BY <1>6 DEF TypeOK, AllFinished
<1>7. CASE AllBegin
  BY <1>7 DEF TypeOK, AllBegin
<1>8. CASE SyncCheck
  BY <1>8 DEF TypeOK, SyncCheck
<1>9. CASE SyncDeleteWav
  BY <1>9 DEF TypeOK, SyncDeleteWav
<1>10. CASE SyncTruncateVersion
  BY <1>10 DEF TypeOK, SyncTruncateVersion
<1>11. CASE SyncWriteVersion
  BY <1>11 DEF TypeOK, SyncWriteVersion
<1>12. CASE SyncDeleteTmp
  BY <1>12, ZenonT(60) DEF TypeOK, SyncDeleteTmp
<1>13. CASE AllStart
  BY <1>13 DEF TypeOK, AllStart, CacheSound
<1>14. ASSUME NEW j \in Jobs, JobBegin(j) PROVE TypeOK'
  BY <1>14 DEF TypeOK, JobBegin
<1>15. ASSUME NEW j \in Jobs, TestMemory(j) PROVE TypeOK'
  BY <1>15 DEF TypeOK, TestMemory
<1>16. ASSUME NEW j \in Jobs, ReadDisk(j) PROVE TypeOK'
  BY <1>16 DEF TypeOK, ReadDisk, Read
<1>17. ASSUME NEW j \in Jobs, Locate(j) PROVE TypeOK'
  BY <1>17 DEF TypeOK, Locate
<1>18. ASSUME NEW j \in Jobs, Load(j) PROVE TypeOK'
  BY <1>18 DEF TypeOK, Load
<1>19. ASSUME NEW j \in Jobs, ConvertOpen(j) PROVE TypeOK'
  BY <1>19 DEF TypeOK, ConvertOpen
<1>20. ASSUME NEW j \in Jobs, ConvertEnd(j) PROVE TypeOK'
  BY <1>20 DEF TypeOK, ConvertEnd
<1>21. ASSUME NEW j \in Jobs, TestConverted(j) PROVE TypeOK'
  BY <1>21 DEF TypeOK, TestConverted
<1>22. ASSUME NEW j \in Jobs, Rename(j) PROVE TypeOK'
  BY <1>22 DEF TypeOK, Rename, Renamed
<1>23. ASSUME NEW j \in Jobs, ReadBack(j) PROVE TypeOK'
  BY <1>23 DEF TypeOK, ReadBack, Read
<1>24. ASSUME NEW j \in Jobs, TestReadBack(j) PROVE TypeOK'
  BY <1>24 DEF TypeOK, TestReadBack
<1>25. ASSUME NEW j \in Jobs, StoreInMemory(j) PROVE TypeOK'
  BY <1>25 DEF TypeOK, StoreInMemory
<1>26. CASE Stop
  BY <1>26 DEF TypeOK, Stop
<1>27. ASSUME NEW newer \in BOOLEAN, Restart(newer) PROVE TypeOK'
  BY <1>27 DEF TypeOK, Restart
<1>28. CASE UNCHANGED vars
  BY <1>28 DEF vars, TypeOK
<1> QED
  BY <1>1, <1>2, <1>3, <1>4, <1>5, <1>6, <1>7, <1>8, <1>9, <1>10, <1>11,
    <1>12, <1>13, <1>14, <1>15, <1>16, <1>17, <1>18, <1>19, <1>20, <1>21,
    <1>22, <1>23, <1>24, <1>25, <1>26, <1>27, <1>28
  DEF Next, AllStep, JobStep

LEMMA InitType == ASSUME Init PROVE TypeOK
  BY DEF Init, TypeOK, Nowhere, Contents, JobLabels, AllLabels

\* Each step of the component preserves the invariant.
LEMMA StepInv ==
  ASSUME OneJobPerSound, Inv, [Next]_vars
  PROVE  Inv'
<1>0. TypeOK'
  BY TypeStep DEF Inv
<1> USE SoundCacheAssumption, OneJobPerSound
    DEF OneJobPerSound, Contents, JobLabels, AllLabels, Goto, Unchanged, disk,
        memory, jobVars, allVars, Nowhere, IsCancelled
<1>1. CASE ClientCacheAll
  <2>2. SyncFirst'
    BY <1>1 DEF Inv, TypeOK, SyncFirst, ClientCacheAll, CacheAllSoundEffects
  <2>3. (TmpOfJob /\ WriterOfTmp /\ DataWhole
        /\ PublishedIsComplete /\ VersionGuardsStale /\ PlayableInMemory
        /\ NoOrphanTmp /\ JobDelivers)'
    BY <1>1 DEF Inv, TmpOfJob, WriterOfTmp, DataWhole, PublishedIsComplete,
      VersionGuardsStale, PlayableInMemory, NoOrphanTmp, JobDelivers,
      ClientCacheAll, CacheAllSoundEffects
  <2> QED BY <1>0, <2>2, <2>3 DEF Inv
<1>2. ASSUME NEW j \in Jobs, ClientCacheSound(j) PROVE Inv'
  <2>2. TmpOfJob'
    BY <1>2 DEF Inv, TypeOK, TmpOfJob, WriterOfTmp, ClientCacheSound,
      CacheSound
  <2>3. WriterOfTmp'
    BY <1>2 DEF Inv, TypeOK, WriterOfTmp, TmpOfJob, ClientCacheSound,
      CacheSound
  <2>4. SyncFirst'
    BY <1>2 DEF Inv, TypeOK, SyncFirst, ClientCacheSound, CacheSound
  <2>5. DataWhole'
    BY <1>2 DEF Inv, TypeOK, DataWhole, TmpOfJob, SyncFirst,
      PublishedIsComplete, VersionGuardsStale, ClientCacheSound, CacheSound
  <2>6. NoOrphanTmp'
    BY <1>2 DEF Inv, TypeOK, NoOrphanTmp, TmpOfJob, SyncFirst,
      ClientCacheSound, CacheSound
  <2>7. JobDelivers'
    BY <1>2 DEF Inv, TypeOK, JobDelivers, PlayableInMemory, DataWhole,
      SyncFirst, ClientCacheSound, CacheSound
  <2>8. (PublishedIsComplete /\ VersionGuardsStale /\ PlayableInMemory)'
    BY <1>2 DEF Inv, PublishedIsComplete, VersionGuardsStale,
      PlayableInMemory, ClientCacheSound, CacheSound
  <2> QED BY <1>0, <2>2, <2>3, <2>4, <2>5, <2>6, <2>7, <2>8 DEF Inv
<1>3. ASSUME NEW n \in Names, ClientRemove(n) PROVE Inv'
  <2>2. PlayableInMemory'
    BY <1>3 DEF Inv, TypeOK, PlayableInMemory, DataWhole, ClientRemove,
      RemoveFromMemoryCache, IsBusy
  <2>3. JobDelivers'
    BY <1>3 DEF Inv, TypeOK, JobDelivers, PlayableInMemory, DataWhole,
      SyncFirst, ClientRemove, RemoveFromMemoryCache, IsBusy
  <2>4. (TmpOfJob /\ WriterOfTmp /\ SyncFirst
        /\ DataWhole /\ PublishedIsComplete /\ VersionGuardsStale
        /\ NoOrphanTmp)'
    BY <1>3 DEF Inv, TmpOfJob, WriterOfTmp, SyncFirst, DataWhole,
      PublishedIsComplete, VersionGuardsStale, NoOrphanTmp, ClientRemove,
      RemoveFromMemoryCache, IsBusy
  <2> QED BY <1>0, <2>2, <2>3, <2>4 DEF Inv
<1>4. CASE Cancel
  <2>2. TmpOfJob'
    BY <1>4 DEF Inv, TypeOK, TmpOfJob, WriterOfTmp, Cancel
  <2>3. JobDelivers'
    BY <1>4 DEF Inv, TypeOK, JobDelivers, PlayableInMemory, DataWhole,
      SyncFirst, Cancel
  <2>4. (WriterOfTmp /\ SyncFirst /\ DataWhole
        /\ PublishedIsComplete /\ VersionGuardsStale /\ PlayableInMemory
        /\ NoOrphanTmp)'
    BY <1>4 DEF Inv, WriterOfTmp, SyncFirst, DataWhole, PublishedIsComplete,
      VersionGuardsStale, PlayableInMemory, NoOrphanTmp, Cancel
  <2> QED BY <1>0, <2>2, <2>3, <2>4 DEF Inv
<1>5. ASSUME NEW j \in Jobs, JobFinished(j) PROVE Inv'
  <2>2. TmpOfJob'
    BY <1>5 DEF Inv, TypeOK, TmpOfJob, WriterOfTmp, JobFinished
  <2>3. WriterOfTmp'
    BY <1>5 DEF Inv, TypeOK, WriterOfTmp, TmpOfJob, JobFinished
  <2>4. SyncFirst'
    BY <1>5 DEF Inv, TypeOK, SyncFirst, JobFinished
  <2>5. DataWhole'
    BY <1>5 DEF Inv, TypeOK, DataWhole, TmpOfJob, SyncFirst,
      PublishedIsComplete, VersionGuardsStale, JobFinished
  <2>6. NoOrphanTmp'
    BY <1>5 DEF Inv, TypeOK, NoOrphanTmp, TmpOfJob, SyncFirst, JobFinished
  <2>7. JobDelivers'
    BY <1>5 DEF Inv, TypeOK, JobDelivers, PlayableInMemory, DataWhole,
      SyncFirst, JobFinished
  <2>8. (PublishedIsComplete /\ VersionGuardsStale /\ PlayableInMemory)'
    BY <1>5 DEF Inv, PublishedIsComplete, VersionGuardsStale,
      PlayableInMemory, JobFinished
  <2> QED BY <1>0, <2>2, <2>3, <2>4, <2>5, <2>6, <2>7, <2>8 DEF Inv
<1>6. CASE AllFinished
  <2>2. SyncFirst'
    BY <1>6 DEF Inv, TypeOK, SyncFirst, AllFinished
  <2>3. (TmpOfJob /\ WriterOfTmp /\ DataWhole
        /\ PublishedIsComplete /\ VersionGuardsStale /\ PlayableInMemory
        /\ NoOrphanTmp /\ JobDelivers)'
    BY <1>6 DEF Inv, TmpOfJob, WriterOfTmp, DataWhole, PublishedIsComplete,
      VersionGuardsStale, PlayableInMemory, NoOrphanTmp, JobDelivers,
      AllFinished
  <2> QED BY <1>0, <2>2, <2>3 DEF Inv
<1>7. CASE AllBegin
  <2>2. SyncFirst'
    BY <1>7 DEF Inv, TypeOK, SyncFirst, AllBegin
  <2>3. (TmpOfJob /\ WriterOfTmp /\ DataWhole
        /\ PublishedIsComplete /\ VersionGuardsStale /\ PlayableInMemory
        /\ NoOrphanTmp /\ JobDelivers)'
    BY <1>7 DEF Inv, TmpOfJob, WriterOfTmp, DataWhole, PublishedIsComplete,
      VersionGuardsStale, PlayableInMemory, NoOrphanTmp, JobDelivers, AllBegin
  <2> QED BY <1>0, <2>2, <2>3 DEF Inv
<1>8. CASE SyncCheck
  <2>2. SyncFirst'
    BY <1>8 DEF Inv, TypeOK, SyncFirst, SyncCheck
  <2>3. PlayableInMemory'
    BY <1>8 DEF Inv, TypeOK, PlayableInMemory, DataWhole, SyncCheck
  <2>4. JobDelivers'
    BY <1>8 DEF Inv, TypeOK, JobDelivers, PlayableInMemory, DataWhole,
      SyncFirst, SyncCheck
  <2>5. (TmpOfJob /\ WriterOfTmp /\ DataWhole
        /\ PublishedIsComplete /\ VersionGuardsStale /\ NoOrphanTmp)'
    BY <1>8 DEF Inv, TmpOfJob, WriterOfTmp, DataWhole, PublishedIsComplete,
      VersionGuardsStale, NoOrphanTmp, SyncCheck
  <2> QED BY <1>0, <2>2, <2>3, <2>4, <2>5 DEF Inv
<1>9. CASE SyncDeleteWav
  <2>2. SyncFirst'
    BY <1>9 DEF Inv, TypeOK, SyncFirst, SyncDeleteWav
  <2>3. DataWhole'
    BY <1>9 DEF Inv, TypeOK, DataWhole, TmpOfJob, SyncFirst,
      PublishedIsComplete, VersionGuardsStale, SyncDeleteWav
  <2>4. PublishedIsComplete'
    BY <1>9 DEF Inv, TypeOK, PublishedIsComplete, TmpOfJob, WriterOfTmp,
      SyncDeleteWav
  <2>5. VersionGuardsStale'
    BY <1>9 DEF Inv, TypeOK, VersionGuardsStale, SyncFirst, TmpOfJob,
      SyncDeleteWav
  <2>6. (TmpOfJob /\ WriterOfTmp /\ PlayableInMemory
        /\ NoOrphanTmp /\ JobDelivers)'
    BY <1>9 DEF Inv, TmpOfJob, WriterOfTmp, PlayableInMemory, NoOrphanTmp,
      JobDelivers, SyncDeleteWav
  <2> QED BY <1>0, <2>2, <2>3, <2>4, <2>5, <2>6 DEF Inv
<1>10. CASE SyncTruncateVersion
  <2>2. SyncFirst'
    BY <1>10 DEF Inv, TypeOK, SyncFirst, SyncTruncateVersion
  <2>3. VersionGuardsStale'
    BY <1>10 DEF Inv, TypeOK, VersionGuardsStale, SyncFirst, TmpOfJob,
      SyncTruncateVersion
  <2>4. PlayableInMemory'
    BY <1>10 DEF Inv, TypeOK, PlayableInMemory, DataWhole, SyncTruncateVersion
  <2>5. JobDelivers'
    BY <1>10 DEF Inv, TypeOK, JobDelivers, PlayableInMemory, DataWhole,
      SyncFirst, SyncTruncateVersion
  <2>6. (TmpOfJob /\ WriterOfTmp /\ DataWhole
        /\ PublishedIsComplete /\ NoOrphanTmp)'
    BY <1>10 DEF Inv, TmpOfJob, WriterOfTmp, DataWhole, PublishedIsComplete,
      NoOrphanTmp, SyncTruncateVersion
  <2> QED BY <1>0, <2>2, <2>3, <2>4, <2>5, <2>6 DEF Inv
<1>11. CASE SyncWriteVersion
  <2>2. SyncFirst'
    BY <1>11 DEF Inv, TypeOK, SyncFirst, SyncWriteVersion
  <2>3. VersionGuardsStale'
    BY <1>11 DEF Inv, TypeOK, VersionGuardsStale, SyncFirst, TmpOfJob,
      SyncWriteVersion
  <2>4. (TmpOfJob /\ WriterOfTmp /\ DataWhole
        /\ PublishedIsComplete /\ PlayableInMemory /\ NoOrphanTmp
        /\ JobDelivers)'
    BY <1>11 DEF Inv, TmpOfJob, WriterOfTmp, DataWhole, PublishedIsComplete,
      PlayableInMemory, NoOrphanTmp, JobDelivers, SyncWriteVersion
  <2> QED BY <1>0, <2>2, <2>3, <2>4 DEF Inv
<1>12. CASE SyncDeleteTmp
  <2>2. TmpOfJob'
    BY <1>12 DEF Inv, TypeOK, TmpOfJob, WriterOfTmp, SyncFirst, SyncDeleteTmp
  <2>3. WriterOfTmp'
    BY <1>12 DEF Inv, TypeOK, WriterOfTmp, TmpOfJob, SyncDeleteTmp
  <2>4. SyncFirst'
    BY <1>12 DEF Inv, TypeOK, SyncFirst, SyncDeleteTmp
  <2>5. NoOrphanTmp'
    <3>1. CASE tmp = Nowhere /\ tmp' = tmp
      BY <3>1 DEF NoOrphanTmp
    <3>2. CASE UNCHANGED mSyncDone
      BY <1>12, <3>2 DEF Inv, SyncFirst, NoOrphanTmp, SyncDeleteTmp
    <3> QED BY <1>12, <3>1, <3>2 DEF SyncDeleteTmp
  <2>6. (DataWhole /\ PublishedIsComplete /\ VersionGuardsStale
        /\ PlayableInMemory /\ JobDelivers)'
    BY <1>12 DEF Inv, DataWhole, PublishedIsComplete, VersionGuardsStale,
      PlayableInMemory, JobDelivers, SyncDeleteTmp
  <2> QED BY <1>0, <2>2, <2>3, <2>4, <2>5, <2>6 DEF Inv
<1>13. CASE AllStart
  <2>2. TmpOfJob'
    BY <1>13 DEF Inv, TypeOK, TmpOfJob, WriterOfTmp, AllStart, CacheSound
  <2>3. WriterOfTmp'
    BY <1>13 DEF Inv, TypeOK, WriterOfTmp, TmpOfJob, AllStart, CacheSound
  <2>4. SyncFirst'
    BY <1>13 DEF Inv, TypeOK, SyncFirst, AllStart, CacheSound
  <2>5. DataWhole'
    BY <1>13 DEF Inv, TypeOK, DataWhole, TmpOfJob, SyncFirst,
      PublishedIsComplete, VersionGuardsStale, AllStart, CacheSound
  <2>6. NoOrphanTmp'
    BY <1>13 DEF Inv, TypeOK, NoOrphanTmp, TmpOfJob, SyncFirst, AllStart,
      CacheSound
  <2>7. JobDelivers'
    BY <1>13 DEF Inv, TypeOK, JobDelivers, PlayableInMemory, DataWhole,
      SyncFirst, AllStart, CacheSound
  <2>8. (PublishedIsComplete /\ VersionGuardsStale /\ PlayableInMemory)'
    BY <1>13 DEF Inv, PublishedIsComplete, VersionGuardsStale,
      PlayableInMemory, AllStart, CacheSound
  <2> QED BY <1>0, <2>2, <2>3, <2>4, <2>5, <2>6, <2>7, <2>8 DEF Inv
<1>14. ASSUME NEW j \in Jobs, JobBegin(j) PROVE Inv'
  <2>2. TmpOfJob'
    BY <1>14 DEF Inv, TypeOK, TmpOfJob, WriterOfTmp, JobBegin
  <2>3. WriterOfTmp'
    BY <1>14 DEF Inv, TypeOK, WriterOfTmp, TmpOfJob, JobBegin
  <2>4. SyncFirst'
    BY <1>14 DEF Inv, TypeOK, SyncFirst, JobBegin
  <2>5. DataWhole'
    BY <1>14 DEF Inv, TypeOK, DataWhole, TmpOfJob, SyncFirst,
      PublishedIsComplete, VersionGuardsStale, JobBegin
  <2>6. NoOrphanTmp'
    BY <1>14 DEF Inv, TypeOK, NoOrphanTmp, TmpOfJob, SyncFirst, JobBegin
  <2>7. JobDelivers'
    BY <1>14 DEF Inv, TypeOK, JobDelivers, PlayableInMemory, DataWhole,
      SyncFirst, JobBegin
  <2>8. (PublishedIsComplete /\ VersionGuardsStale /\ PlayableInMemory)'
    BY <1>14 DEF Inv, PublishedIsComplete, VersionGuardsStale,
      PlayableInMemory, JobBegin
  <2> QED BY <1>0, <2>2, <2>3, <2>4, <2>5, <2>6, <2>7, <2>8 DEF Inv
<1>15. ASSUME NEW j \in Jobs, TestMemory(j) PROVE Inv'
  <2>2. TmpOfJob'
    BY <1>15 DEF Inv, TypeOK, TmpOfJob, WriterOfTmp, TestMemory
  <2>3. WriterOfTmp'
    BY <1>15 DEF Inv, TypeOK, WriterOfTmp, TmpOfJob, TestMemory
  <2>4. SyncFirst'
    BY <1>15 DEF Inv, TypeOK, SyncFirst, TestMemory
  <2>5. DataWhole'
    BY <1>15 DEF Inv, TypeOK, DataWhole, TmpOfJob, SyncFirst,
      PublishedIsComplete, VersionGuardsStale, TestMemory
  <2>6. NoOrphanTmp'
    BY <1>15 DEF Inv, TypeOK, NoOrphanTmp, TmpOfJob, SyncFirst, TestMemory
  <2>7. JobDelivers'
    BY <1>15 DEF Inv, TypeOK, JobDelivers, PlayableInMemory, DataWhole,
      SyncFirst, TestMemory
  <2>8. (PublishedIsComplete /\ VersionGuardsStale /\ PlayableInMemory)'
    BY <1>15 DEF Inv, PublishedIsComplete, VersionGuardsStale,
      PlayableInMemory, TestMemory
  <2> QED BY <1>0, <2>2, <2>3, <2>4, <2>5, <2>6, <2>7, <2>8 DEF Inv
<1>16. ASSUME NEW j \in Jobs, ReadDisk(j) PROVE Inv'
  <2>2. TmpOfJob'
    BY <1>16 DEF Inv, TypeOK, TmpOfJob, WriterOfTmp, ReadDisk, Read
  <2>3. WriterOfTmp'
    BY <1>16 DEF Inv, TypeOK, WriterOfTmp, TmpOfJob, ReadDisk, Read
  <2>4. SyncFirst'
    BY <1>16 DEF Inv, TypeOK, SyncFirst, ReadDisk, Read
  <2>5. DataWhole'
    BY <1>16 DEF Inv, TypeOK, DataWhole, TmpOfJob, SyncFirst,
      PublishedIsComplete, VersionGuardsStale, ReadDisk, Read
  <2>6. NoOrphanTmp'
    BY <1>16 DEF Inv, TypeOK, NoOrphanTmp, TmpOfJob, SyncFirst, ReadDisk, Read
  <2>7. JobDelivers'
    BY <1>16 DEF Inv, TypeOK, JobDelivers, PlayableInMemory, DataWhole,
      SyncFirst, ReadDisk, Read
  <2>8. (PublishedIsComplete /\ VersionGuardsStale /\ PlayableInMemory)'
    BY <1>16 DEF Inv, PublishedIsComplete, VersionGuardsStale,
      PlayableInMemory, ReadDisk, Read
  <2> QED BY <1>0, <2>2, <2>3, <2>4, <2>5, <2>6, <2>7, <2>8 DEF Inv
<1>17. ASSUME NEW j \in Jobs, Locate(j) PROVE Inv'
  <2>2. TmpOfJob'
    BY <1>17 DEF Inv, TypeOK, TmpOfJob, WriterOfTmp, Locate
  <2>3. WriterOfTmp'
    BY <1>17 DEF Inv, TypeOK, WriterOfTmp, TmpOfJob, Locate
  <2>4. SyncFirst'
    BY <1>17 DEF Inv, TypeOK, SyncFirst, Locate
  <2>5. DataWhole'
    BY <1>17 DEF Inv, TypeOK, DataWhole, TmpOfJob, SyncFirst,
      PublishedIsComplete, VersionGuardsStale, Locate
  <2>6. NoOrphanTmp'
    BY <1>17 DEF Inv, TypeOK, NoOrphanTmp, TmpOfJob, SyncFirst, Locate
  <2>7. JobDelivers'
    BY <1>17 DEF Inv, TypeOK, JobDelivers, PlayableInMemory, DataWhole,
      SyncFirst, Locate
  <2>8. (PublishedIsComplete /\ VersionGuardsStale /\ PlayableInMemory)'
    BY <1>17 DEF Inv, PublishedIsComplete, VersionGuardsStale,
      PlayableInMemory, Locate
  <2> QED BY <1>0, <2>2, <2>3, <2>4, <2>5, <2>6, <2>7, <2>8 DEF Inv
<1>18. ASSUME NEW j \in Jobs, Load(j) PROVE Inv'
  <2>2. TmpOfJob'
    BY <1>18 DEF Inv, TypeOK, TmpOfJob, WriterOfTmp, Load
  <2>3. WriterOfTmp'
    BY <1>18 DEF Inv, TypeOK, WriterOfTmp, TmpOfJob, Load
  <2>4. SyncFirst'
    BY <1>18 DEF Inv, TypeOK, SyncFirst, Load
  <2>5. DataWhole'
    BY <1>18 DEF Inv, TypeOK, DataWhole, TmpOfJob, SyncFirst,
      PublishedIsComplete, VersionGuardsStale, Load
  <2>6. NoOrphanTmp'
    BY <1>18 DEF Inv, TypeOK, NoOrphanTmp, TmpOfJob, SyncFirst, Load
  <2>7. JobDelivers'
    BY <1>18 DEF Inv, TypeOK, JobDelivers, PlayableInMemory, DataWhole,
      SyncFirst, Load
  <2>8. (PublishedIsComplete /\ VersionGuardsStale /\ PlayableInMemory)'
    BY <1>18 DEF Inv, PublishedIsComplete, VersionGuardsStale,
      PlayableInMemory, Load
  <2> QED BY <1>0, <2>2, <2>3, <2>4, <2>5, <2>6, <2>7, <2>8 DEF Inv
<1>19. ASSUME NEW j \in Jobs, ConvertOpen(j) PROVE Inv'
  <2>2. TmpOfJob'
    BY <1>19 DEF Inv, TypeOK, TmpOfJob, WriterOfTmp, ConvertOpen
  <2>3. WriterOfTmp'
    BY <1>19 DEF Inv, TypeOK, WriterOfTmp, TmpOfJob, ConvertOpen
  <2>4. SyncFirst'
    BY <1>19 DEF Inv, TypeOK, SyncFirst, ConvertOpen
  <2>5. DataWhole'
    BY <1>19 DEF Inv, TypeOK, DataWhole, TmpOfJob, SyncFirst,
      PublishedIsComplete, VersionGuardsStale, ConvertOpen
  <2>6. NoOrphanTmp'
    BY <1>19 DEF Inv, TypeOK, NoOrphanTmp, TmpOfJob, SyncFirst, ConvertOpen
  <2>7. JobDelivers'
    BY <1>19 DEF Inv, TypeOK, JobDelivers, PlayableInMemory, DataWhole,
      SyncFirst, ConvertOpen
  <2>8. (PublishedIsComplete /\ VersionGuardsStale /\ PlayableInMemory)'
    BY <1>19 DEF Inv, PublishedIsComplete, VersionGuardsStale,
      PlayableInMemory, ConvertOpen
  <2> QED BY <1>0, <2>2, <2>3, <2>4, <2>5, <2>6, <2>7, <2>8 DEF Inv
<1>20. ASSUME NEW j \in Jobs, ConvertEnd(j) PROVE Inv'
  <2>2. TmpOfJob'
    BY <1>20 DEF Inv, TypeOK, TmpOfJob, WriterOfTmp, ConvertEnd
  <2>3. WriterOfTmp'
    BY <1>20 DEF Inv, TypeOK, WriterOfTmp, TmpOfJob, ConvertEnd
  <2>4. SyncFirst'
    BY <1>20 DEF Inv, TypeOK, SyncFirst, PublishedIsComplete, ConvertEnd
  <2>5. DataWhole'
    BY <1>20 DEF Inv, TypeOK, DataWhole, TmpOfJob, SyncFirst,
      PublishedIsComplete, VersionGuardsStale, ConvertEnd
  <2>6. PublishedIsComplete'
    BY <1>20 DEF Inv, TypeOK, PublishedIsComplete, TmpOfJob, WriterOfTmp,
      ConvertEnd
  <2>7. VersionGuardsStale'
    BY <1>20 DEF Inv, TypeOK, VersionGuardsStale, SyncFirst, TmpOfJob,
      PublishedIsComplete, ConvertEnd
  <2>8. NoOrphanTmp'
    BY <1>20 DEF Inv, TypeOK, NoOrphanTmp, TmpOfJob, SyncFirst, ConvertEnd
  <2>9. JobDelivers'
    BY <1>20 DEF Inv, TypeOK, JobDelivers, PlayableInMemory, DataWhole,
      SyncFirst, ConvertEnd
  <2>10. (PlayableInMemory)'
    BY <1>20 DEF Inv, PlayableInMemory, ConvertEnd
  <2> QED BY <1>0, <2>2, <2>3, <2>4, <2>5, <2>6, <2>7, <2>8, <2>9, <2>10 DEF Inv
<1>21. ASSUME NEW j \in Jobs, TestConverted(j) PROVE Inv'
  <2>2. TmpOfJob'
    BY <1>21 DEF Inv, TypeOK, TmpOfJob, WriterOfTmp, TestConverted
  <2>3. WriterOfTmp'
    BY <1>21 DEF Inv, TypeOK, WriterOfTmp, TmpOfJob, TestConverted
  <2>4. SyncFirst'
    BY <1>21 DEF Inv, TypeOK, SyncFirst, TestConverted
  <2>5. DataWhole'
    BY <1>21 DEF Inv, TypeOK, DataWhole, TmpOfJob, SyncFirst,
      PublishedIsComplete, VersionGuardsStale, TestConverted
  <2>6. NoOrphanTmp'
    BY <1>21 DEF Inv, TypeOK, NoOrphanTmp, TmpOfJob, SyncFirst, TestConverted
  <2>7. JobDelivers'
    BY <1>21 DEF Inv, TypeOK, JobDelivers, PlayableInMemory, DataWhole,
      SyncFirst, TestConverted
  <2>8. (PublishedIsComplete /\ VersionGuardsStale /\ PlayableInMemory)'
    BY <1>21 DEF Inv, PublishedIsComplete, VersionGuardsStale,
      PlayableInMemory, TestConverted
  <2> QED BY <1>0, <2>2, <2>3, <2>4, <2>5, <2>6, <2>7, <2>8 DEF Inv
<1>22. ASSUME NEW j \in Jobs, Rename(j) PROVE Inv'
  <2>2. TmpOfJob'
    BY <1>22 DEF Inv, TypeOK, TmpOfJob, WriterOfTmp, Rename, Renamed
  <2>3. WriterOfTmp'
    BY <1>22 DEF Inv, TypeOK, WriterOfTmp, TmpOfJob, Rename, Renamed
  <2>4. SyncFirst'
    BY <1>22 DEF Inv, TypeOK, SyncFirst, TmpOfJob, Rename, Renamed
  <2>5. DataWhole'
    BY <1>22 DEF Inv, TypeOK, DataWhole, TmpOfJob, SyncFirst,
      PublishedIsComplete, VersionGuardsStale, Rename, Renamed
  <2>6. PublishedIsComplete'
    BY <1>22 DEF Inv, TypeOK, PublishedIsComplete, TmpOfJob, WriterOfTmp,
      Rename, Renamed
  <2>7. VersionGuardsStale'
    BY <1>22 DEF Inv, TypeOK, VersionGuardsStale, SyncFirst, TmpOfJob, Rename,
      Renamed
  <2>8. NoOrphanTmp'
    BY <1>22 DEF Inv, TypeOK, NoOrphanTmp, TmpOfJob, SyncFirst, Rename,
      Renamed
  <2>9. JobDelivers'
    BY <1>22 DEF Inv, TypeOK, JobDelivers, PlayableInMemory, DataWhole,
      SyncFirst, Rename, Renamed
  <2>10. (PlayableInMemory)'
    BY <1>22 DEF Inv, PlayableInMemory, Rename, Renamed
  <2> QED BY <1>0, <2>2, <2>3, <2>4, <2>5, <2>6, <2>7, <2>8, <2>9, <2>10 DEF Inv
<1>23. ASSUME NEW j \in Jobs, ReadBack(j) PROVE Inv'
  <2>2. TmpOfJob'
    BY <1>23 DEF Inv, TypeOK, TmpOfJob, WriterOfTmp, ReadBack, Read
  <2>3. WriterOfTmp'
    BY <1>23 DEF Inv, TypeOK, WriterOfTmp, TmpOfJob, ReadBack, Read
  <2>4. SyncFirst'
    BY <1>23 DEF Inv, TypeOK, SyncFirst, ReadBack, Read
  <2>5. DataWhole'
    BY <1>23 DEF Inv, TypeOK, DataWhole, TmpOfJob, SyncFirst,
      PublishedIsComplete, VersionGuardsStale, ReadBack, Read
  <2>6. NoOrphanTmp'
    BY <1>23 DEF Inv, TypeOK, NoOrphanTmp, TmpOfJob, SyncFirst, ReadBack, Read
  <2>7. JobDelivers'
    BY <1>23 DEF Inv, TypeOK, JobDelivers, PlayableInMemory, DataWhole,
      SyncFirst, ReadBack, Read
  <2>8. (PublishedIsComplete /\ VersionGuardsStale /\ PlayableInMemory)'
    BY <1>23 DEF Inv, PublishedIsComplete, VersionGuardsStale,
      PlayableInMemory, ReadBack, Read
  <2> QED BY <1>0, <2>2, <2>3, <2>4, <2>5, <2>6, <2>7, <2>8 DEF Inv
<1>24. ASSUME NEW j \in Jobs, TestReadBack(j) PROVE Inv'
  <2>2. TmpOfJob'
    BY <1>24 DEF Inv, TypeOK, TmpOfJob, WriterOfTmp, TestReadBack
  <2>3. WriterOfTmp'
    BY <1>24 DEF Inv, TypeOK, WriterOfTmp, TmpOfJob, TestReadBack
  <2>4. SyncFirst'
    BY <1>24 DEF Inv, TypeOK, SyncFirst, TestReadBack
  <2>5. DataWhole'
    BY <1>24 DEF Inv, TypeOK, DataWhole, TmpOfJob, SyncFirst,
      PublishedIsComplete, VersionGuardsStale, TestReadBack
  <2>6. NoOrphanTmp'
    BY <1>24 DEF Inv, TypeOK, NoOrphanTmp, TmpOfJob, SyncFirst, TestReadBack
  <2>7. JobDelivers'
    BY <1>24 DEF Inv, TypeOK, JobDelivers, PlayableInMemory, DataWhole,
      SyncFirst, TestReadBack
  <2>8. (PublishedIsComplete /\ VersionGuardsStale /\ PlayableInMemory)'
    BY <1>24 DEF Inv, PublishedIsComplete, VersionGuardsStale,
      PlayableInMemory, TestReadBack
  <2> QED BY <1>0, <2>2, <2>3, <2>4, <2>5, <2>6, <2>7, <2>8 DEF Inv
<1>25. ASSUME NEW j \in Jobs, StoreInMemory(j) PROVE Inv'
  <2>2. TmpOfJob'
    BY <1>25 DEF Inv, TypeOK, TmpOfJob, WriterOfTmp, StoreInMemory
  <2>3. WriterOfTmp'
    BY <1>25 DEF Inv, TypeOK, WriterOfTmp, TmpOfJob, StoreInMemory
  <2>4. SyncFirst'
    BY <1>25 DEF Inv, TypeOK, SyncFirst, StoreInMemory
  <2>5. DataWhole'
    BY <1>25 DEF Inv, TypeOK, DataWhole, TmpOfJob, SyncFirst,
      PublishedIsComplete, VersionGuardsStale, StoreInMemory
  <2>6. PlayableInMemory'
    BY <1>25 DEF Inv, TypeOK, PlayableInMemory, DataWhole, StoreInMemory
  <2>7. NoOrphanTmp'
    BY <1>25 DEF Inv, TypeOK, NoOrphanTmp, TmpOfJob, SyncFirst, StoreInMemory
  <2>8. JobDelivers'
    BY <1>25 DEF Inv, TypeOK, JobDelivers, PlayableInMemory, DataWhole,
      SyncFirst, StoreInMemory
  <2>9. (PublishedIsComplete /\ VersionGuardsStale)'
    BY <1>25 DEF Inv, PublishedIsComplete, VersionGuardsStale, StoreInMemory
  <2> QED BY <1>0, <2>2, <2>3, <2>4, <2>5, <2>6, <2>7, <2>8, <2>9 DEF Inv
<1>26. CASE Stop
  <2>2. TmpOfJob'
    BY <1>26 DEF Inv, TypeOK, TmpOfJob, WriterOfTmp, Stop
  <2>3. JobDelivers'
    BY <1>26 DEF Inv, TypeOK, JobDelivers, PlayableInMemory, DataWhole,
      SyncFirst, Stop
  <2>4. (WriterOfTmp /\ SyncFirst /\ DataWhole
        /\ PublishedIsComplete /\ VersionGuardsStale /\ PlayableInMemory
        /\ NoOrphanTmp)'
    BY <1>26 DEF Inv, WriterOfTmp, SyncFirst, DataWhole, PublishedIsComplete,
      VersionGuardsStale, PlayableInMemory, NoOrphanTmp, Stop
  <2> QED BY <1>0, <2>2, <2>3, <2>4 DEF Inv
<1>27. ASSUME NEW newer \in BOOLEAN, Restart(newer) PROVE Inv'
  <2>2. TmpOfJob'
    BY <1>27 DEF Inv, TypeOK, TmpOfJob, WriterOfTmp, Restart
  <2>3. WriterOfTmp'
    BY <1>27 DEF Inv, TypeOK, WriterOfTmp, TmpOfJob, Restart
  <2>4. SyncFirst'
    BY <1>27 DEF Inv, TypeOK, SyncFirst, Restart
  <2>5. DataWhole'
    BY <1>27 DEF Inv, TypeOK, DataWhole, TmpOfJob, SyncFirst,
      PublishedIsComplete, VersionGuardsStale, Restart
  <2>6. PublishedIsComplete'
    BY <1>27 DEF Inv, TypeOK, PublishedIsComplete, TmpOfJob, WriterOfTmp,
      Restart
  <2>7. VersionGuardsStale'
    BY <1>27 DEF Inv, TypeOK, VersionGuardsStale, SyncFirst, TmpOfJob, Restart
  <2>8. PlayableInMemory'
    BY <1>27 DEF Inv, TypeOK, PlayableInMemory, DataWhole, Restart
  <2>9. NoOrphanTmp'
    BY <1>27 DEF Inv, TypeOK, NoOrphanTmp, TmpOfJob, SyncFirst, Restart
  <2>10. JobDelivers'
    BY <1>27 DEF Inv, TypeOK, JobDelivers, PlayableInMemory, DataWhole,
      SyncFirst, Restart
  <2> QED BY <1>0, <2>2, <2>3, <2>4, <2>5, <2>6, <2>7, <2>8, <2>9, <2>10 DEF Inv
<1>28. CASE UNCHANGED vars
  BY <1>28 DEF vars, Inv, TypeOK, TmpOfJob, WriterOfTmp, SyncFirst, DataWhole,
    PublishedIsComplete, VersionGuardsStale, PlayableInMemory, NoOrphanTmp,
    JobDelivers
<1> QED
  BY <1>1, <1>2, <1>3, <1>4, <1>5, <1>6, <1>7, <1>8, <1>9, <1>10, <1>11,
    <1>12, <1>13, <1>14, <1>15, <1>16, <1>17, <1>18, <1>19, <1>20, <1>21,
    <1>22, <1>23, <1>24, <1>25, <1>26, <1>27, <1>28
  DEF Next, AllStep, JobStep

LEMMA InitInv == Init => Inv
<1> SUFFICES ASSUME Init PROVE Inv
  OBVIOUS
<1>1. /\ \A n \in Names : wav[n] \in {"none", "stale"}
      /\ \A n \in Names : tmp[n] \in {"none", "cut"}
      /\ \A n \in Names : mSoundDataCache[n] = "none"
      /\ \A j \in Jobs : pc[j] = "none" /\ file[j] = "none"
  BY DEF Init, Nowhere
<1>2. TypeOK
  BY InitType
<1>3. TmpOfJob /\ WriterOfTmp /\ SyncFirst /\ DataWhole
  BY <1>1, SoundCacheAssumption
  DEF Init, TmpOfJob, WriterOfTmp, SyncFirst, DataWhole
<1>4. PublishedIsComplete /\ VersionGuardsStale /\ PlayableInMemory
        /\ NoOrphanTmp /\ JobDelivers
  BY <1>1 DEF Init, PublishedIsComplete, VersionGuardsStale,
              PlayableInMemory, NoOrphanTmp, JobDelivers
<1> QED BY <1>2, <1>3, <1>4 DEF Inv

\* The invariant is inductive, for jobs that are each for a sound of its own.
LEMMA InvHolds == ASSUME OneJobPerSound PROVE Spec => []Inv
<1>1. Inv /\ [Next]_vars => Inv'
  BY StepInv
<1> QED BY InitInv, <1>1, PTL DEF Spec

\* CacheTypeCorrect: the type invariant; a file's writer is always a job.
THEOREM CacheTypeCorrect == Spec => []TypeOK
<1>1. TypeOK /\ [Next]_vars => TypeOK'
  BY TypeStep
<1> QED BY InitType, <1>1, PTL DEF Spec

\* PublishedComplete: no .wav of the cache is ever an incomplete conversion,
\* wherever the process is killed or a job is cancelled (the .tmp and rename
\* of AddToMemoryAndDiskCache).
THEOREM PublishedComplete ==
  ASSUME OneJobPerSound PROVE Spec => []PublishedIsComplete
<1>1. Inv => PublishedIsComplete
  BY DEF Inv
<1> QED BY InvHolds, <1>1, PTL

\* VersionGuards: when CacheVersion.txt names this version, no .wav of another
\* one is left (the order of Sync and DeleteAll).
THEOREM VersionGuards ==
  ASSUME OneJobPerSound PROVE Spec => []VersionGuardsStale
<1>1. Inv => VersionGuardsStale
  BY DEF Inv
<1> QED BY InvHolds, <1>1, PTL

\* Playable: every sound in memory is whole and of this version, so GetCached
\* never hands a truncated or outdated one to the mixer.
THEOREM Playable ==
  ASSUME OneJobPerSound PROVE Spec => []PlayableInMemory
<1>1. Inv => PlayableInMemory
  BY DEF Inv
<1> QED BY InvHolds, <1>1, PTL

\* NoOrphans: after Sync only live jobs have .tmp files.
THEOREM NoOrphans ==
  ASSUME OneJobPerSound PROVE Spec => []NoOrphanTmp
<1>1. Inv => NoOrphanTmp
  BY DEF Inv
<1> QED BY InvHolds, <1>1, PTL

\* DiskTrusted: the three together, for every step the process may die at.
THEOREM DiskTrusted ==
  ASSUME OneJobPerSound PROVE Spec => []DiskIsTrustworthy
<1>1. Inv => DiskIsTrustworthy
  BY DEF Inv, DiskIsTrustworthy
<1> QED BY InvHolds, <1>1, PTL

\* WholeSounds: on disk and in memory sounds are whole and of this version.
THEOREM WholeSounds ==
  ASSUME OneJobPerSound PROVE Spec => []SoundsAreWhole
<1>1. DiskIsTrustworthy /\ PlayableInMemory => SoundsAreWhole
  BY DEF SoundsAreWhole
<1> QED BY DiskTrusted, Playable, <1>1, PTL

\* Delivers: a job that was not cancelled leaves its sound in memory.
THEOREM Delivers ==
  ASSUME OneJobPerSound PROVE Spec => []JobDelivers
<1>1. Inv => JobDelivers
  BY DEF Inv
<1> QED BY InvHolds, <1>1, PTL
-----------------------------------------------------------------------------
(* Sound: it keeps the protocol of its cache, and what is in memory.       *)

AnyTheme == Themes \cup {NoTheme}

\* When Sound may find the cache busy, and Sync done.
UsageInv ==
  /\ mStopWork = FALSE
  /\ mActiveTheme \in AnyTheme /\ mThemeToLoad \in AnyTheme
  /\ left \subseteq Names
  /\ mState \in {"eIdle", "eUnloadingActiveSoundTheme", "eLoadSoundEffects"}
       => ~IsBusy
  /\ mState = "eLoadingSoundEffects" /\ allPc = "none" => mSyncDone
  /\ mState \in {"eLoadActiveSoundTheme", "eLoadingActiveSoundTheme"}
       => allPc = "none" /\ mSyncDone
  /\ allPc \in {"start", "done"} => mSyncDone
  /\ main = "uncache" => mState = "eUnloadingActiveSoundTheme"
  /\ main = "cache" => mState = "eLoadActiveSoundTheme"

\* The theme asked for last is on its way to be active, or is.
ThemeInv ==
  wanted # NoTheme =>
    IF mState \in {"eCancel", "eCancelling", "eUnloadingActiveSoundTheme"}
    THEN mThemeToLoad = wanted ELSE mActiveTheme = wanted

\* Sounds in memory, or soon in it, are resident or of the active theme.
Belongs(n) == n \in Resident \cup SoundsOf(mActiveTheme)

OwnedInv ==
  /\ \A j \in Jobs : pc[j] # "none" => Belongs(NameOf[j])
  /\ \A n \in Names : mSoundDataCache[n] # "none" =>
       /\ Belongs(n)
       /\ main = "uncache" => n \in Resident \cup left
  /\ main = "cache" => left \subseteq SoundsOf(mActiveTheme)

\* No job of the load under way is cancelled, and what a job stores is there.
Loading ==
  mState \in {"eLoadingSoundEffects", "eLoadActiveSoundTheme",
              "eLoadingActiveSoundTheme"}

KeepsGoing ==
  /\ Loading => \A j \in Jobs : pc[j] # "none" => j \notin cancelled
  /\ Loading /\ allPc # "none" => allCancelled = FALSE
  /\ \A j \in Jobs : pc[j] \in {"check", "store"} => data[j] # "none"

\* A sound that is in memory or has a job that will bring it there.
Live(j)    == pc[j] \notin {"none", "done"}
Pending(n) == \/ mSoundDataCache[n] # "none"
              \/ \E j \in Jobs : NameOf[j] = n /\ Live(j)

EffectsLoaded ==
  \/ mState \in {"eLoadActiveSoundTheme", "eLoadingActiveSoundTheme"}
  \/ mState = "eIdle" /\ mActiveTheme # NoTheme

\* A resident sound is on its way as far as the CacheAllSoundEffectsJob is.
OnItsWay(n) ==
  \/ allPc \in {"none", "done"} /\ Pending(n)
  \/ allPc = "start" /\ (n \in todo \/ Pending(n))
  \/ allPc \notin {"none", "start", "done"}

ResidentInv ==
  \A n \in Resident \cap Locatable :
    /\ mState = "eLoadingSoundEffects" => OnItsWay(n)
    /\ EffectsLoaded => mSoundDataCache[n] # "none"

ActiveInv ==
  \A n \in SoundsOf(mActiveTheme) \cap Locatable :
    /\ main = "cache" => n \in left \/ Pending(n)
    /\ mState = "eLoadingActiveSoundTheme" => Pending(n)
    /\ mState = "eIdle" => mSoundDataCache[n] # "none"

LEMMA SoundsOfTheme ==
  ASSUME NEW t \in AnyTheme
  PROVE  SoundsOf(t) \subseteq Names
<1>1. CASE t = NoTheme
  BY <1>1 DEF SoundsOf
<1>2. ASSUME t # NoTheme, NEW e \in Events, NEW i \in DOMAIN Entries[t][e]
      PROVE  Entries[t][e][i] \in Names
  <2>1. Entries[t][e] \in Seq(Names)
    BY <1>2, SoundAssumption DEF AnyTheme
  <2> QED BY <1>2, <2>1
<1> QED BY <1>1, <1>2 DEF SoundsOf

\* A step of Sound is a step its cache allows.
LEMMA RefinesStep ==
  ASSUME UsageInv, [SoundNext]_<<vars, soundVars>>
  PROVE  [Next]_vars
<1>1. CASE UpdateLoadEffects
  <2>1. ClientCacheAll
    BY <1>1 DEF UsageInv, UpdateLoadEffects, Transit, ClientCacheAll
  <2> QED BY <2>1 DEF Next
<1>2. CASE UpdateCancel
  BY <1>2 DEF UpdateCancel, Next
<1>3. CASE UncacheSound
  <2>1. \E n \in Names : ClientRemove(n)
    BY <1>3 DEF UsageInv, UncacheSound, ClientRemove
  <2> QED BY <2>1 DEF Next
<1>4. CASE CacheThemeSound
  <2>1. \E j \in Jobs : ClientCacheSound(j)
    BY <1>4 DEF UsageInv, CacheThemeSound, ClientCacheSound
  <2> QED BY <2>1 DEF Next
<1>5. CASE Notified
  BY <1>5 DEF Notified, Next
<1>6. CASE Working
  BY <1>6 DEF Working, Next
<1>7. CASE \/ \E t \in AnyTheme, e \in {"none"} \cup Events :
                SetMusicTheme(t, e)
           \/ StopAllMusic
           \/ \E e \in Events : HandleMusicEvent(e)
           \/ PlayBegin \/ PlayEnd
  BY <1>7 DEF SetMusicTheme, StopAllMusic, HandleMusicEvent, PlayBegin, PlayEnd
<1>8. CASE \/ UpdateIdle \/ UpdateLoadingEffects \/ UpdateCancelling
           \/ UpdateWaiting \/ UpdateUnload \/ UncacheDone \/ UpdateLoadTheme
           \/ CacheThemeDone \/ UpdateLoaded \/ UpdatePlayers
  BY <1>8 DEF UpdateIdle, UpdateLoadingEffects, UpdateCancelling,
    UpdateWaiting, UpdateUnload, UncacheDone, UpdateLoadTheme, Visit,
    CacheThemeDone, UpdateLoaded, UpdatePlayers
<1> QED
  BY <1>1, <1>2, <1>3, <1>4, <1>5, <1>6, <1>7, <1>8
  DEF SoundNext, UpdateStep, AnyTheme

StepOfJobs ==
  AllStep \/ AllFinished \/ \E j \in Jobs : JobStep(j) \/ JobFinished(j)

\* What the steps of the jobs need and leave alone; the job that started Sync
\* goes on to start others, and ends, only after it.
LEMMA QuietCache ==
  ASSUME StepOfJobs
  PROVE  /\ IsBusy
         /\ mStopWork' = mStopWork
         /\ mSyncDone => mSyncDone'
         /\ allPc = "none" => allPc' = "none"
         /\ allPc' = "none" => allPc \in {"none", "done"}
         /\ allPc' \in {"start", "done"} /\ ~mSyncDone'
              => allPc \in {"start", "done"} /\ ~mSyncDone
<1> USE DEF disk, memory, allVars, jobVars, Goto, Unchanged, IsBusy
<1>1. CASE AllBegin \/ SyncCheck \/ SyncDeleteWav \/ SyncTruncateVersion
  BY <1>1 DEF AllBegin, SyncCheck, SyncDeleteWav, SyncTruncateVersion
<1>2. CASE SyncWriteVersion \/ SyncDeleteTmp \/ AllStart \/ AllFinished
  BY <1>2 DEF SyncWriteVersion, SyncDeleteTmp, AllStart, AllFinished
<1>3. ASSUME NEW j \in Jobs,
             \/ JobBegin(j) \/ TestMemory(j) \/ ReadDisk(j) \/ Locate(j)
             \/ Load(j) \/ ConvertOpen(j) \/ ConvertEnd(j)
      PROVE  /\ pc[j] # "none"
             /\ UNCHANGED <<mStopWork, mSyncDone, allPc>>
  BY <1>3 DEF JobBegin, TestMemory, ReadDisk, Locate, Load, ConvertOpen,
    ConvertEnd
<1>4. ASSUME NEW j \in Jobs,
             \/ TestConverted(j) \/ Rename(j) \/ ReadBack(j)
             \/ TestReadBack(j) \/ StoreInMemory(j) \/ JobFinished(j)
      PROVE  /\ pc[j] # "none"
             /\ UNCHANGED <<mStopWork, mSyncDone, allPc>>
  BY <1>4 DEF TestConverted, Rename, ReadBack, TestReadBack, StoreInMemory,
    JobFinished
<1> QED BY <1>1, <1>2, <1>3, <1>4 DEF AllStep, JobStep, StepOfJobs

LEMMA UsageStep ==
  ASSUME UsageInv, [SoundNext]_<<vars, soundVars>>
  PROVE  UsageInv'
<1> USE DEF UsageInv, IsBusy, vars, disk, memory, jobVars, allVars, themes,
            soundVars, AnyTheme, SetState
<1>1. ASSUME NEW t \in AnyTheme, NEW e \in {"none"} \cup Events,
             SetMusicTheme(t, e)
      PROVE  UsageInv'
  BY <1>1 DEF SetMusicTheme, IsLoading
<1>2. CASE StopAllMusic \/ PlayBegin \/ PlayEnd \/ UpdatePlayers
             \/ \E e \in Events : HandleMusicEvent(e)
  BY <1>2 DEF StopAllMusic, PlayBegin, PlayEnd, UpdatePlayers,
    HandleMusicEvent
<1>3. CASE UpdateIdle \/ UpdateLoadingEffects \/ UpdateCancelling
             \/ UpdateWaiting
  BY <1>3 DEF UpdateIdle, UpdateLoadingEffects, UpdateCancelling,
    UpdateWaiting, Transit
<1>4. CASE UpdateLoadEffects
  BY <1>4 DEF UpdateLoadEffects, Transit, CacheAllSoundEffects
<1>5. CASE UpdateCancel
  BY <1>5 DEF UpdateCancel, Transit, Cancel
<1>6. CASE UpdateUnload \/ UpdateLoadTheme
  BY <1>6, SoundsOfTheme DEF UpdateUnload, UpdateLoadTheme, Visit
<1>7. CASE UncacheSound
  BY <1>7 DEF UncacheSound, RemoveFromMemoryCache
<1>8. CASE UncacheDone
  BY <1>8 DEF UncacheDone
<1>9. CASE CacheThemeSound
  BY <1>9 DEF CacheThemeSound, CacheSound
<1>10. CASE CacheThemeDone \/ UpdateLoaded
  BY <1>10 DEF CacheThemeDone, UpdateLoaded
<1>11. CASE Notified \/ Working
  <2>1. StepOfJobs
    BY <1>11 DEF Notified, Working, StepOfJobs
  <2>2. UNCHANGED soundVars
    BY <1>11 DEF Notified, Working
  <2> HIDE DEF IsBusy
  <2> QED BY <2>1, <2>2, QuietCache
<1>12. CASE UNCHANGED <<vars, soundVars>>
  BY <1>12
<1> QED
  BY <1>1, <1>2, <1>3, <1>4, <1>5, <1>6, <1>7, <1>8, <1>9, <1>10, <1>11,
    <1>12
  DEF SoundNext, UpdateStep

LEMMA ThemeStep ==
  ASSUME UsageInv, ThemeInv, [SoundNext]_<<vars, soundVars>>
  PROVE  ThemeInv'
<1> USE DEF ThemeInv, themes, soundVars, SetState
<1>1. ASSUME NEW t \in AnyTheme, NEW e \in {"none"} \cup Events,
             SetMusicTheme(t, e)
      PROVE  ThemeInv'
  BY <1>1 DEF SetMusicTheme, IsLoading
<1>2. CASE StopAllMusic \/ PlayBegin \/ PlayEnd \/ UpdatePlayers
             \/ \E e \in Events : HandleMusicEvent(e)
  BY <1>2 DEF StopAllMusic, PlayBegin, PlayEnd, UpdatePlayers,
    HandleMusicEvent
<1>3. CASE UpdateIdle \/ UpdateLoadEffects \/ UpdateLoadingEffects
             \/ UpdateCancel \/ UpdateCancelling \/ UpdateWaiting
  BY <1>3 DEF UpdateIdle, UpdateLoadEffects, UpdateLoadingEffects,
    UpdateCancel, UpdateCancelling, UpdateWaiting, Transit
<1>4. CASE UpdateUnload \/ UpdateLoadTheme \/ UncacheSound \/ CacheThemeSound
  BY <1>4 DEF UpdateUnload, UpdateLoadTheme, Visit, UncacheSound,
    CacheThemeSound
<1>5. CASE UncacheDone
  BY <1>5 DEF UsageInv, UncacheDone
<1>6. CASE CacheThemeDone \/ UpdateLoaded
  BY <1>6 DEF UsageInv, CacheThemeDone, UpdateLoaded
<1>7. CASE Notified \/ Working \/ UNCHANGED <<vars, soundVars>>
  BY <1>7 DEF Notified, Working
<1> QED
  BY <1>1, <1>2, <1>3, <1>4, <1>5, <1>6, <1>7
  DEF SoundNext, UpdateStep, AnyTheme

\* Jobs bring into memory their own sounds only, and resident ones are added.
LEMMA JobsOwn ==
  ASSUME TypeOK, StepOfJobs
  PROVE  /\ \A j \in Jobs : pc'[j] # "none" =>
              pc[j] # "none" \/ NameOf[j] \in Resident
         /\ \A n \in Names : mSoundDataCache'[n] # "none" =>
              \/ mSoundDataCache[n] # "none"
              \/ \E j \in Jobs : NameOf[j] = n /\ pc[j] # "none"
<1> DEFINE Goal ==
      /\ \A j \in Jobs : pc'[j] # "none" =>
           pc[j] # "none" \/ NameOf[j] \in Resident
      /\ \A n \in Names : mSoundDataCache'[n] # "none" =>
           \/ mSoundDataCache[n] # "none"
           \/ \E j \in Jobs : NameOf[j] = n /\ pc[j] # "none"
<1> USE SoundCacheAssumption
    DEF TypeOK, disk, memory, allVars, jobVars, Goto, Unchanged, Nowhere
<1>1. CASE AllBegin \/ SyncCheck \/ SyncDeleteWav \/ SyncTruncateVersion
  BY <1>1 DEF AllBegin, SyncCheck, SyncDeleteWav, SyncTruncateVersion
<1>2. CASE SyncWriteVersion \/ SyncDeleteTmp \/ AllStart \/ AllFinished
  BY <1>2 DEF SyncWriteVersion, SyncDeleteTmp, AllStart, AllFinished,
    CacheSound
<1>3. ASSUME NEW j \in Jobs,
             \/ JobBegin(j) \/ TestMemory(j) \/ ReadDisk(j) \/ Locate(j)
             \/ Load(j) \/ ConvertOpen(j) \/ ConvertEnd(j)
      PROVE  Goal
  BY <1>3 DEF JobBegin, TestMemory, ReadDisk, Locate, Load, ConvertOpen,
    ConvertEnd
<1>4. ASSUME NEW j \in Jobs,
             \/ TestConverted(j) \/ Rename(j) \/ ReadBack(j)
             \/ TestReadBack(j) \/ JobFinished(j)
      PROVE  Goal
  BY <1>4 DEF TestConverted, Rename, ReadBack, TestReadBack, JobFinished
<1>5. ASSUME NEW j \in Jobs, StoreInMemory(j) PROVE Goal
  BY <1>5 DEF StoreInMemory
<1> QED BY <1>1, <1>2, <1>3, <1>4, <1>5 DEF AllStep, JobStep, StepOfJobs

LEMMA OwnedStep ==
  ASSUME TypeOK, UsageInv, OwnedInv, [SoundNext]_<<vars, soundVars>>
  PROVE  OwnedInv'
<1> USE DEF OwnedInv, Belongs, vars, disk, memory, jobVars, allVars, themes,
            soundVars, SetState
<1>0. SoundsOf(mActiveTheme)' = SoundsOf(mActiveTheme')
  BY DEF SoundsOf
<1>1. ASSUME NEW t \in AnyTheme, NEW e \in {"none"} \cup Events,
             SetMusicTheme(t, e)
      PROVE  OwnedInv'
  BY <1>0, <1>1 DEF SetMusicTheme
<1>2. CASE StopAllMusic \/ PlayBegin \/ PlayEnd \/ UpdatePlayers
             \/ \E e \in Events : HandleMusicEvent(e)
  BY <1>0, <1>2 DEF StopAllMusic, PlayBegin, PlayEnd, UpdatePlayers,
    HandleMusicEvent
<1>3. CASE UpdateIdle \/ UpdateLoadingEffects \/ UpdateCancelling
             \/ UpdateWaiting
  BY <1>0, <1>3 DEF UpdateIdle, UpdateLoadingEffects, UpdateCancelling,
    UpdateWaiting, Transit
<1>4. CASE UpdateLoadEffects \/ UpdateCancel
  BY <1>0, <1>4 DEF UpdateLoadEffects, UpdateCancel, Transit,
    CacheAllSoundEffects, Cancel
<1>5. CASE UpdateUnload \/ UpdateLoadTheme
  BY <1>0, <1>5 DEF UpdateUnload, UpdateLoadTheme, Visit
<1>6. CASE UncacheSound
  BY <1>0, <1>6 DEF TypeOK, UncacheSound, RemoveFromMemoryCache
<1>7. CASE UncacheDone
  BY <1>0, <1>7 DEF UsageInv, IsBusy, UncacheDone
<1>8. CASE CacheThemeSound
  BY <1>0, <1>8 DEF TypeOK, CacheThemeSound, CacheSound
<1>9. CASE CacheThemeDone \/ UpdateLoaded
  BY <1>0, <1>9 DEF CacheThemeDone, UpdateLoaded
<1>10. CASE Notified \/ Working
  <2>1. StepOfJobs /\ UNCHANGED soundVars
    BY <1>10 DEF Notified, Working, StepOfJobs
  <2>2. IsBusy
    BY <2>1, QuietCache
  <2>3. main # "uncache"
    BY <2>2 DEF UsageInv
  <2> HIDE DEF IsBusy
  <2> QED BY <1>0, <2>1, <2>3, JobsOwn
<1>11. CASE UNCHANGED <<vars, soundVars>>
  BY <1>0, <1>11
<1> QED
  BY <1>1, <1>2, <1>3, <1>4, <1>5, <1>6, <1>7, <1>8, <1>9, <1>10, <1>11
  DEF SoundNext, UpdateStep, AnyTheme

\* A step of a job cancels none, and what it stores is a sound.
LEMMA JobsKeepGoing ==
  ASSUME TypeOK, StepOfJobs,
         \A j \in Jobs : pc[j] \in {"check", "store"} => data[j] # "none"
  PROVE  /\ \A j \in Jobs : pc'[j] # "none" /\ j \in cancelled' =>
              pc[j] # "none" /\ j \in cancelled
         /\ allPc' # "none" => allPc # "none"
         /\ allCancelled' = allCancelled
         /\ \A j \in Jobs : pc'[j] \in {"check", "store"} => data'[j] # "none"
<1> DEFINE Goal ==
      /\ \A j \in Jobs : pc'[j] # "none" /\ j \in cancelled' =>
           pc[j] # "none" /\ j \in cancelled
      /\ allPc' # "none" => allPc # "none"
      /\ allCancelled' = allCancelled
      /\ \A j \in Jobs : pc'[j] \in {"check", "store"} => data'[j] # "none"
<1> USE SoundCacheAssumption
    DEF TypeOK, disk, memory, allVars, jobVars, Goto, Unchanged, Nowhere
<1>1. CASE AllBegin \/ SyncCheck \/ SyncDeleteWav \/ SyncTruncateVersion
  BY <1>1 DEF AllBegin, SyncCheck, SyncDeleteWav, SyncTruncateVersion
<1>2. CASE SyncWriteVersion \/ SyncDeleteTmp \/ AllStart \/ AllFinished
  BY <1>2 DEF SyncWriteVersion, SyncDeleteTmp, AllStart, AllFinished,
    CacheSound
<1>3. ASSUME NEW j \in Jobs,
             \/ JobBegin(j) \/ TestMemory(j) \/ Locate(j)
             \/ Load(j) \/ ConvertOpen(j) \/ ConvertEnd(j)
      PROVE  Goal
  BY <1>3 DEF JobBegin, TestMemory, Locate, Load, ConvertOpen, ConvertEnd
<1>4. ASSUME NEW j \in Jobs,
             \/ TestConverted(j) \/ Rename(j)
             \/ TestReadBack(j) \/ JobFinished(j) \/ StoreInMemory(j)
      PROVE  Goal
  BY <1>4 DEF TestConverted, Rename, TestReadBack, JobFinished,
    StoreInMemory
<1>5. ASSUME NEW j \in Jobs, ReadDisk(j) \/ ReadBack(j) PROVE Goal
  BY <1>5 DEF ReadDisk, ReadBack, Read
<1> QED BY <1>1, <1>2, <1>3, <1>4, <1>5 DEF AllStep, JobStep, StepOfJobs

\* A sound in memory stays there while Sync does not run.
LEMMA MemoryStays ==
  ASSUME TypeOK, StepOfJobs, allPc \notin {"sync", "truncate"},
         \A j \in Jobs : pc[j] \in {"check", "store"} => data[j] # "none",
         NEW n \in Names, mSoundDataCache[n] # "none"
  PROVE  mSoundDataCache'[n] # "none"
<1> USE SoundCacheAssumption
    DEF TypeOK, disk, memory, allVars, jobVars, Goto, Unchanged
<1>1. CASE AllBegin \/ SyncCheck \/ SyncDeleteWav \/ SyncTruncateVersion
  BY <1>1 DEF AllBegin, SyncCheck, SyncDeleteWav, SyncTruncateVersion
<1>2. CASE SyncWriteVersion \/ SyncDeleteTmp \/ AllStart \/ AllFinished
  BY <1>2 DEF SyncWriteVersion, SyncDeleteTmp, AllStart, AllFinished
<1>3. ASSUME NEW j \in Jobs,
             \/ JobBegin(j) \/ TestMemory(j) \/ ReadDisk(j) \/ Locate(j)
             \/ Load(j) \/ ConvertOpen(j) \/ ConvertEnd(j)
             \/ TestConverted(j) \/ Rename(j) \/ ReadBack(j)
             \/ TestReadBack(j) \/ JobFinished(j)
      PROVE  UNCHANGED mSoundDataCache
  BY <1>3 DEF JobBegin, TestMemory, ReadDisk, Locate, Load, ConvertOpen,
    ConvertEnd, TestConverted, Rename, ReadBack, TestReadBack, JobFinished
<1>4. ASSUME NEW j \in Jobs, StoreInMemory(j)
      PROVE  mSoundDataCache'[n] # "none"
  BY <1>4 DEF StoreInMemory
<1> QED BY <1>1, <1>2, <1>3, <1>4 DEF AllStep, JobStep, StepOfJobs

\* A job that is not cancelled ends only with its sound in memory.
LEMMA JobEnds ==
  ASSUME TypeOK, NEW j \in Jobs, JobStep(j), Live(j), ~IsCancelled(j),
         data[j] # "none" \/ pc[j] # "store", NameOf[j] \in Locatable
  PROVE  Live(j)' \/ mSoundDataCache'[NameOf[j]] # "none"
<1> USE SoundCacheAssumption
    DEF TypeOK, Live, disk, memory, Goto, Unchanged
<1>1. CASE JobBegin(j) \/ Locate(j) \/ Load(j) \/ ConvertOpen(j)
             \/ ConvertEnd(j) \/ TestConverted(j) \/ Rename(j) \/ ReadBack(j)
             \/ TestReadBack(j)
  BY <1>1 DEF JobBegin, Locate, Load, ConvertOpen, ConvertEnd, TestConverted,
    Rename, ReadBack, TestReadBack
<1>2. CASE TestMemory(j)
  BY <1>2 DEF TestMemory
<1>3. CASE ReadDisk(j)
  BY <1>3 DEF ReadDisk
<1>4. CASE StoreInMemory(j)
  BY <1>4 DEF StoreInMemory
<1> QED BY <1>1, <1>2, <1>3, <1>4 DEF JobStep

\* A step of another job, or of the CacheAllSoundEffectsJob, leaves it alive.
LEMMA OthersLive ==
  ASSUME TypeOK, NEW j \in Jobs, Live(j),
         \/ AllStep \/ AllFinished
         \/ \E k \in Jobs : JobFinished(k) \/ (k # j /\ JobStep(k))
  PROVE  Live(j)'
<1> USE DEF TypeOK, Live, disk, memory, allVars, jobVars, Goto, Unchanged
<1>1. CASE AllBegin \/ SyncCheck \/ SyncDeleteWav \/ SyncTruncateVersion
  BY <1>1 DEF AllBegin, SyncCheck, SyncDeleteWav, SyncTruncateVersion
<1>2. CASE SyncWriteVersion \/ SyncDeleteTmp \/ AllStart \/ AllFinished
  BY <1>2 DEF SyncWriteVersion, SyncDeleteTmp, AllStart, AllFinished,
    CacheSound
<1>3. ASSUME NEW k \in Jobs, k # j,
             \/ JobBegin(k) \/ TestMemory(k) \/ ReadDisk(k) \/ Locate(k)
             \/ Load(k) \/ ConvertOpen(k) \/ ConvertEnd(k)
             \/ TestConverted(k) \/ Rename(k) \/ ReadBack(k)
             \/ TestReadBack(k) \/ StoreInMemory(k)
      PROVE  pc'[j] = pc[j]
  BY <1>3 DEF JobBegin, TestMemory, ReadDisk, Locate, Load, ConvertOpen,
    ConvertEnd, TestConverted, Rename, ReadBack, TestReadBack, StoreInMemory
<1>4. ASSUME NEW k \in Jobs, JobFinished(k) PROVE pc'[j] = pc[j]
  BY <1>4 DEF JobFinished
<1> QED BY <1>1, <1>2, <1>3, <1>4 DEF AllStep, JobStep

LEMMA PendingStays ==
  ASSUME TypeOK, UsageInv, KeepsGoing, Loading, StepOfJobs,
         allPc \notin {"sync", "truncate"},
         NEW n \in Names \cap Locatable, Pending(n)
  PROVE  Pending(n)'
<1>1. CASE mSoundDataCache[n] # "none"
  BY <1>1, MemoryStays DEF KeepsGoing, Pending
<1>2. ASSUME NEW j \in Jobs, NameOf[j] = n, Live(j)
      PROVE  Pending(n)'
  <2>1. ~IsCancelled(j)
    BY <1>2 DEF IsCancelled, UsageInv, KeepsGoing, Live
  <2>2. CASE JobStep(j)
    BY <1>2, <2>1, <2>2, JobEnds DEF KeepsGoing, Pending
  <2>3. CASE ~JobStep(j)
    BY <1>2, <2>3, OthersLive DEF StepOfJobs, Pending
  <2> QED BY <2>2, <2>3
<1> QED BY <1>1, <1>2 DEF Pending

LEMMA KeepsGoingStep ==
  ASSUME TypeOK, UsageInv, KeepsGoing, [SoundNext]_<<vars, soundVars>>
  PROVE  KeepsGoing'
<1> USE DEF KeepsGoing, Loading, vars, disk, memory, jobVars, allVars, themes,
            soundVars, SetState
<1>1. ASSUME NEW t \in AnyTheme, NEW e \in {"none"} \cup Events,
             SetMusicTheme(t, e)
      PROVE  KeepsGoing'
  BY <1>1 DEF SetMusicTheme
<1>2. CASE StopAllMusic \/ PlayBegin \/ PlayEnd \/ UpdatePlayers
             \/ \E e \in Events : HandleMusicEvent(e)
  BY <1>2 DEF StopAllMusic, PlayBegin, PlayEnd, UpdatePlayers,
    HandleMusicEvent
<1>3. CASE UpdateIdle \/ UpdateLoadingEffects \/ UpdateCancelling
             \/ UpdateWaiting
  BY <1>3 DEF UpdateIdle, UpdateLoadingEffects, UpdateCancelling,
    UpdateWaiting, Transit
<1>4. CASE UpdateLoadEffects
  BY <1>4 DEF UpdateLoadEffects, Transit, CacheAllSoundEffects, UsageInv,
    IsBusy
<1>5. CASE UpdateCancel
  BY <1>5 DEF UpdateCancel, Transit, Cancel
<1>6. CASE UpdateUnload \/ UpdateLoadTheme
  BY <1>6 DEF UpdateUnload, UpdateLoadTheme, Visit
<1>7. CASE UncacheSound
  BY <1>7 DEF UncacheSound, RemoveFromMemoryCache
<1>8. CASE UncacheDone
  BY <1>8 DEF UncacheDone
<1>9. CASE CacheThemeSound
  BY <1>9 DEF TypeOK, CacheThemeSound, CacheSound
<1>10. CASE CacheThemeDone \/ UpdateLoaded
  BY <1>10 DEF CacheThemeDone, UpdateLoaded, UsageInv
<1>11. CASE Notified \/ Working
  <2>1. StepOfJobs /\ UNCHANGED soundVars
    BY <1>11 DEF Notified, Working, StepOfJobs
  <2> QED BY <2>1, JobsKeepGoing
<1>12. CASE UNCHANGED <<vars, soundVars>>
  BY <1>12
<1> QED
  BY <1>1, <1>2, <1>3, <1>4, <1>5, <1>6, <1>7, <1>8, <1>9, <1>10, <1>11,
    <1>12
  DEF SoundNext, UpdateStep, AnyTheme

LEMMA OnItsWayStays ==
  ASSUME TypeOK, UsageInv, KeepsGoing, Loading, StepOfJobs,
         NEW n \in Resident \cap Locatable, OnItsWay(n)
  PROVE  OnItsWay(n)'
<1> USE SoundCacheAssumption
<1>1. CASE AllStart
  <2>1. CASE n \in todo
    <3>1. CASE allPc' = "start" /\ n \in todo'
      BY <3>1 DEF OnItsWay
    <3>2. CASE ~(allPc' = "start" /\ n \in todo')
      <4>1. PICK j \in Jobs : NameOf[j] = n /\ CacheSound(j) /\ allPc' = "start"
        BY <1>1, <2>1, <3>2 DEF AllStart, UsageInv, KeepsGoing
      <4>2. Live(j)'
        BY <4>1 DEF TypeOK, CacheSound, Live
      <4> QED BY <4>1, <4>2 DEF OnItsWay, Pending
    <3> QED BY <3>1, <3>2
  <2>2. CASE n \notin todo
    <3>1. Pending(n) /\ allPc' \in {"start", "done"}
      BY <1>1, <2>2 DEF AllStart, OnItsWay
    <3>2. Pending(n)'
      BY <1>1, <3>1, PendingStays DEF AllStart
    <3> QED BY <3>1, <3>2 DEF OnItsWay
  <2> QED BY <2>1, <2>2
<1>2. CASE AllBegin \/ SyncCheck \/ SyncDeleteWav \/ SyncTruncateVersion
             \/ SyncWriteVersion \/ SyncDeleteTmp
  <2>1. \/ allPc' \notin {"none", "start", "done"}
        \/ allPc' = "start" /\ todo' = Resident
    BY <1>2 DEF AllBegin, SyncCheck, SyncDeleteWav, SyncTruncateVersion,
      SyncWriteVersion, SyncDeleteTmp
  <2> QED BY <2>1 DEF OnItsWay
<1>3. CASE AllFinished
  <2>1. allPc = "done" /\ allPc' = "none"
    BY <1>3 DEF AllFinished
  <2>2. Pending(n)'
    BY <2>1, PendingStays DEF OnItsWay
  <2> QED BY <2>1, <2>2 DEF OnItsWay
<1>4. ASSUME NEW j \in Jobs, JobStep(j) \/ JobFinished(j)
      PROVE  OnItsWay(n)'
  <2>1. UNCHANGED <<allPc, todo>>
    BY <1>4 DEF JobFinished, JobStep, JobBegin, TestMemory, ReadDisk, Locate,
      Load, ConvertOpen, ConvertEnd, TestConverted, Rename, ReadBack,
      TestReadBack, StoreInMemory, Unchanged, allVars
  <2>2. Pending(n) /\ allPc \notin {"sync", "truncate"} => Pending(n)'
    BY PendingStays
  <2> QED BY <2>1, <2>2 DEF OnItsWay
<1> QED BY <1>1, <1>2, <1>3, <1>4 DEF StepOfJobs, AllStep

LEMMA ResidentStep ==
  ASSUME TypeOK, UsageInv, KeepsGoing, ResidentInv,
         [SoundNext]_<<vars, soundVars>>
  PROVE  ResidentInv'
<1> USE DEF ResidentInv, EffectsLoaded, OnItsWay, Pending, Live, vars, disk,
            memory, jobVars, allVars, themes, soundVars, SetState
<1>1. ASSUME NEW t \in AnyTheme, NEW e \in {"none"} \cup Events,
             SetMusicTheme(t, e)
      PROVE  ResidentInv'
  BY <1>1 DEF SetMusicTheme
<1>2. CASE StopAllMusic \/ PlayBegin \/ PlayEnd \/ UpdatePlayers
             \/ \E e \in Events : HandleMusicEvent(e)
  BY <1>2 DEF StopAllMusic, PlayBegin, PlayEnd, UpdatePlayers,
    HandleMusicEvent
<1>3. CASE UpdateIdle \/ UpdateCancelling \/ UpdateWaiting
  BY <1>3 DEF UpdateIdle, UpdateCancelling, UpdateWaiting, Transit
<1>4. CASE UpdateLoadingEffects
  BY <1>4 DEF UpdateLoadingEffects, Transit, IsBusy
<1>5. CASE UpdateLoadEffects
  BY <1>5 DEF UpdateLoadEffects, Transit, CacheAllSoundEffects
<1>6. CASE UpdateCancel
  BY <1>6 DEF UpdateCancel, Transit, Cancel
<1>7. CASE UpdateUnload \/ UpdateLoadTheme
  BY <1>7 DEF UpdateUnload, UpdateLoadTheme, Visit
<1>8. CASE UncacheSound
  BY <1>8 DEF UsageInv, UncacheSound, RemoveFromMemoryCache
<1>9. CASE UncacheDone
  BY <1>9 DEF UncacheDone
<1>10. CASE CacheThemeSound
  BY <1>10 DEF UsageInv, CacheThemeSound
<1>11. CASE CacheThemeDone \/ UpdateLoaded
  BY <1>11 DEF UsageInv, CacheThemeDone, UpdateLoaded
<1>12. CASE Notified \/ Working
  <2>1. StepOfJobs /\ UNCHANGED soundVars
    BY <1>12 DEF Notified, Working, StepOfJobs
  <2> HIDE DEF Pending, Live
  <2>2. SUFFICES ASSUME NEW n \in Resident \cap Locatable
        PROVE /\ mState = "eLoadingSoundEffects" => OnItsWay(n)'
              /\ EffectsLoaded => mSoundDataCache'[n] # "none"
    BY <2>1
  <2>3. n \in Names
    BY SoundCacheAssumption
  <2>4. CASE mState = "eLoadingSoundEffects"
    BY <2>1, <2>4, OnItsWayStays DEF Loading
  <2>5. CASE EffectsLoaded
    <3>1. allPc = "none" /\ mSoundDataCache[n] # "none"
      BY <2>5 DEF UsageInv, IsBusy
    <3>2. mSoundDataCache'[n] # "none"
      BY <2>1, <2>3, <3>1, MemoryStays DEF KeepsGoing
    <3> QED BY <2>5, <3>2
  <2> QED BY <2>4, <2>5
<1>13. CASE UNCHANGED <<vars, soundVars>>
  BY <1>13
<1> QED
  BY <1>1, <1>2, <1>3, <1>4, <1>5, <1>6, <1>7, <1>8, <1>9, <1>10, <1>11,
    <1>12, <1>13
  DEF SoundNext, UpdateStep, AnyTheme

LEMMA ActiveStep ==
  ASSUME TypeOK, UsageInv, KeepsGoing, ActiveInv,
         [SoundNext]_<<vars, soundVars>>
  PROVE  ActiveInv'
<1> USE DEF ActiveInv, Pending, Live, vars, disk, memory, jobVars, allVars,
            themes, soundVars, SetState
<1>0. SoundsOf(mActiveTheme)' = SoundsOf(mActiveTheme')
  BY DEF SoundsOf
<1>1. ASSUME NEW t \in AnyTheme, NEW e \in {"none"} \cup Events,
             SetMusicTheme(t, e)
      PROVE  ActiveInv'
  BY <1>0, <1>1 DEF SetMusicTheme
<1>2. CASE StopAllMusic \/ PlayBegin \/ PlayEnd \/ UpdatePlayers
             \/ \E e \in Events : HandleMusicEvent(e)
  BY <1>0, <1>2 DEF StopAllMusic, PlayBegin, PlayEnd, UpdatePlayers,
    HandleMusicEvent
<1>3. CASE UpdateIdle \/ UpdateLoadingEffects \/ UpdateCancelling
             \/ UpdateWaiting
  BY <1>0, <1>3 DEF UpdateIdle, UpdateLoadingEffects, UpdateCancelling,
    UpdateWaiting, Transit
<1>4. CASE UpdateLoadEffects \/ UpdateCancel
  BY <1>0, <1>4 DEF UpdateLoadEffects, UpdateCancel, Transit,
    CacheAllSoundEffects, Cancel
<1>5. CASE UpdateUnload \/ UpdateLoadTheme
  BY <1>0, <1>5 DEF UpdateUnload, UpdateLoadTheme, Visit
<1>6. CASE UncacheSound
  BY <1>0, <1>6 DEF UsageInv, UncacheSound, RemoveFromMemoryCache
<1>7. CASE UncacheDone
  BY <1>0, <1>7 DEF UncacheDone
<1>8. CASE CacheThemeSound
  <2>1. PICK j \in Jobs : /\ NameOf[j] \in left /\ CacheSound(j)
                          /\ left' = left \ {NameOf[j]}
    BY <1>8 DEF CacheThemeSound
  <2>2. UNCHANGED <<mState, mActiveTheme, main, mSoundDataCache>>
    BY <1>8 DEF CacheThemeSound
  <2>3. mState = "eLoadActiveSoundTheme"
    BY <1>8 DEF CacheThemeSound, UsageInv
  <2>4. /\ Live(j)'
        /\ \A k \in Jobs : Live(k) => Live(k)'
    BY <2>1 DEF TypeOK, CacheSound
  <2>5. \A n \in Names : Pending(n) \/ NameOf[j] = n => Pending(n)'
    BY <2>2, <2>4
  <2>6. SoundsOf(mActiveTheme) \subseteq Names
    BY SoundsOfTheme DEF UsageInv
  <2> HIDE DEF Pending
  <2> QED BY <1>0, <2>1, <2>2, <2>3, <2>5, <2>6
<1>9. CASE CacheThemeDone
  BY <1>0, <1>9 DEF UsageInv, CacheThemeDone
<1>10. CASE UpdateLoaded
  BY <1>0, <1>10 DEF UsageInv, UpdateLoaded, IsBusy
<1>11. CASE Notified \/ Working
  <2>1. StepOfJobs /\ UNCHANGED soundVars
    BY <1>11 DEF Notified, Working, StepOfJobs
  <2> HIDE DEF Pending, Live
  <2>2. SUFFICES ASSUME NEW n \in SoundsOf(mActiveTheme) \cap Locatable
        PROVE /\ main = "cache" => n \in left \/ Pending(n)'
              /\ mState = "eLoadingActiveSoundTheme" => Pending(n)'
              /\ mState = "eIdle" => mSoundDataCache'[n] # "none"
    BY <1>0, <2>1
  <2>3. n \in Names
    BY SoundsOfTheme DEF UsageInv
  <2>4. CASE main = "cache" \/ mState = "eLoadingActiveSoundTheme"
    <3>1. Loading /\ allPc = "none" /\ mState # "eIdle"
      BY <2>4 DEF Loading, UsageInv
    <3>2. Pending(n) => Pending(n)'
      BY <2>1, <2>3, <3>1, PendingStays
    <3> QED BY <3>1, <3>2
  <2>5. CASE mState = "eIdle" /\ main # "cache"
    <3>1. allPc = "none"
      BY <2>5 DEF UsageInv, IsBusy
    <3>2. mSoundDataCache'[n] # "none"
      BY <2>1, <2>3, <2>5, <3>1, MemoryStays DEF KeepsGoing
    <3> QED BY <2>5, <3>2
  <2> QED BY <2>4, <2>5
<1>12. CASE UNCHANGED <<vars, soundVars>>
  BY <1>0, <1>12
<1> QED
  BY <1>1, <1>2, <1>3, <1>4, <1>5, <1>6, <1>7, <1>8, <1>9, <1>10, <1>11,
    <1>12
  DEF SoundNext, UpdateStep, AnyTheme

-----------------------------------------------------------------------------
SoundInv ==
  /\ TypeOK /\ UsageInv /\ ThemeInv /\ OwnedInv /\ KeepsGoing
  /\ ResidentInv /\ ActiveInv

LEMMA SoundInitInv ==
  ASSUME SoundInit PROVE SoundInv
<1>1. TypeOK
  BY InitType DEF SoundInit
<1>2. \A n \in Names : mSoundDataCache[n] = "none"
  BY DEF SoundInit, Init, Nowhere
<1>3. \A j \in Jobs : pc[j] = "none"
  BY DEF SoundInit, Init
<1>4. SoundsOf(mActiveTheme) = {}
  BY DEF SoundInit, SoundsOf
<1>5. UsageInv /\ ThemeInv
  BY <1>3 DEF SoundInit, Init, UsageInv, ThemeInv, AnyTheme, IsBusy
<1>6. OwnedInv /\ KeepsGoing
  BY <1>2, <1>3 DEF SoundInit, OwnedInv, KeepsGoing, Loading
<1>7. ResidentInv /\ ActiveInv
  BY <1>4 DEF SoundInit, ResidentInv, ActiveInv, EffectsLoaded
<1> QED BY <1>1, <1>5, <1>6, <1>7 DEF SoundInv

LEMMA SoundInvHolds == SoundSpec => []SoundInv
<1>1. SoundInv /\ [SoundNext]_<<vars, soundVars>> => SoundInv'
  <2> SUFFICES ASSUME SoundInv, [SoundNext]_<<vars, soundVars>>
               PROVE  SoundInv'
    OBVIOUS
  <2>1. TypeOK'
    BY RefinesStep, TypeStep DEF SoundInv
  <2> QED
    BY <2>1, UsageStep, ThemeStep, OwnedStep, KeepsGoingStep, ResidentStep,
      ActiveStep
    DEF SoundInv
<1> QED BY SoundInitInv, <1>1, PTL DEF SoundSpec

\* RefinesCache: Sound is a client the SoundCache specification allows: in
\* whatever state a theme is asked for, sounds are removed and a load begun
\* only when no job is outstanding (the switch of Sound::Update).
THEOREM RefinesCache == SoundSpec => UsesCacheRightly
<1>1. SoundInit => Init
  BY DEF SoundInit
<1>2. SoundInv /\ [SoundNext]_<<vars, soundVars>> => [Next]_vars
  BY RefinesStep DEF SoundInv
<1> QED BY <1>1, <1>2, SoundInvHolds, PTL DEF SoundSpec, Spec, UsesCacheRightly

\* SoundPlaysWholeSounds: so with Sound as the client what GetCached returns is
\* always a whole sound of this version.
THEOREM SoundPlaysWholeSounds ==
  ASSUME OneJobPerSound PROVE SoundSpec => []PlayableInMemory
<1>1. Spec => []PlayableInMemory
  BY Playable
<1>2. SoundSpec => Spec
  BY RefinesCache DEF UsesCacheRightly
<1> QED BY <1>1, <1>2, PTL

\* RightSoundsInMemory: however many themes were asked for and cancelled on
\* the way, an idle Sound has in memory every resident sound and every sound
\* of its theme, and nothing of any other theme.
THEOREM RightSoundsInMemory == SoundSpec => []MemoryMatchesTheme
<1>1. SoundInv => MemoryMatchesTheme
  BY DEF SoundInv, MemoryMatchesTheme, IdleMeansLoaded, OtherThemesUnloaded,
    OwnedInv, Belongs, ResidentInv, EffectsLoaded, ActiveInv
<1> QED BY <1>1, SoundInvHolds, PTL

\* LastThemeActive: when loading is over the active theme is the one that
\* SetMusicTheme was last given, if there is one of that name.
THEOREM LastThemeActive == SoundSpec => []LastThemeWins
<1>1. SoundInv => LastThemeWins
  BY DEF SoundInv, ThemeInv, LastThemeWins
<1> QED BY <1>1, SoundInvHolds, PTL

-----------------------------------------------------------------------------
(* The reading of a sequence *)

Messages ==
  [type : {"on", "off", "program", "end"}, time : Nat, channel : 0..15, data : Nat]
Statuses == {<<>>} \cup (STRING \X (0..15))
Reads == [time : Nat, status : Statuses, over : BOOLEAN, list : Seq(Messages)]
HasEnd(list) == \E k \in DOMAIN list : list[k].type = "end"

\* Induction over the first n numbers.
LEMMA UpTo ==
  ASSUME NEW n \in Nat, NEW good, 0 \in good, \A k \in 1..n : k - 1 \in good => k \in good
  PROVE  \A k \in 0..n : k \in good
<1> DEFINE bad == {k \in 0..n : k \notin good}
<1> SUFFICES ASSUME bad # {} PROVE FALSE
  OBVIOUS
<1>1. bad \subseteq Nat
  OBVIOUS
<1>2. PICK k \in bad : \A l \in bad : ~(<<l, k>> \in OpToRel(<, Nat))
  <2> HIDE DEF bad
  <2> QED
    BY <1>1, NatLessThanWellFounded, WFMin, Zenon
<1>3. k \in 1..n /\ k - 1 \notin good
  <2>1. k \in 0..n /\ k \notin good
    BY <1>2
  <2>2. k \in 1..n
    BY <2>1
  <2> QED
    BY <2>1, <2>2
<1>4. k - 1 \in bad /\ k - 1 < k /\ k - 1 \in Nat /\ k \in Nat
  BY <1>3
<1> QED
  BY <1>2, <1>4 DEF OpToRel

LEMMA TheIs == ASSUME NEW x PROVE The({x}) = x
  BY DEF The

LEMMA LastOfJoined ==
  ASSUME NEW S, NEW first \in Seq(S), NEW last \in Seq(S), Len(last) = 1
  PROVE  /\ Len(first) + 1 \in DOMAIN (first \o last)
         /\ (first \o last)[Len(first) + 1] = last[1]
<1>1. Len(first) \in Nat
  OBVIOUS
<1>2. /\ first \o last \in Seq(S) /\ Len(first \o last) = Len(first) + 1
      /\ \A i \in 1 .. Len(first) + Len(last) :
           (first \o last)[i] = IF i <= Len(first) THEN first[i] ELSE last[i - Len(first)]
  <2>1. /\ first \o last \in Seq(S) /\ Len(first \o last) = Len(first) + Len(last)
        /\ \A i \in 1 .. Len(first) + Len(last) :
             (first \o last)[i] = IF i <= Len(first) THEN first[i] ELSE last[i - Len(first)]
    BY ConcatProperties, Zenon
  <2> QED
    BY <2>1, Zenon
<1>3. Len(first) + 1 \in 1 .. Len(first) + Len(last)
  BY <1>1
<1>4. (first \o last)[Len(first) + 1] = last[Len(first) + 1 - Len(first)]
  BY <1>1, <1>2, <1>3
<1>5. Len(first) + 1 - Len(first) = 1
  BY <1>1
<1>6. DOMAIN (first \o last) = 1 .. Len(first \o last)
  BY <1>2
<1> QED
  BY <1>1, <1>2, <1>4, <1>5, <1>6

LEMMA MessagesAre ==
  ASSUME NEW status \in STRING \X (0..15), NEW time \in Nat, NEW e \in SequenceEvents
  PROVE  /\ MessagesOf(status, time, e) \in Seq(Messages)
         /\ status[1] = "end" => /\ Len(MessagesOf(status, time, e)) = 1
                                 /\ MessagesOf(status, time, e)[1].type = "end"
<1> DEFINE message(type) == [type |-> type, time |-> time, channel |-> status[2], data |-> e.data]
<1>1. \A type \in {"on", "off", "program", "end"} :
        message(type) \in Messages /\ message(type).type = type
  BY DEF Messages, SequenceEvents
<1>2. MessagesOf(status, time, e) =
        CASE status[1] = "on" /\ e.velocity = 0 -> <<message("off")>>
          [] status[1] \in {"on", "off", "program", "end"} -> <<message(status[1])>>
          [] OTHER -> <<>>
  BY DEF MessagesOf
<1> HIDE DEF message
<1>3. CASE status[1] = "on" /\ e.velocity = 0
  BY <1>1, <1>2, <1>3
<1>4. CASE status[1] \in {"on", "off", "program", "end"} /\ ~(status[1] = "on" /\ e.velocity = 0)
  <2>1. MessagesOf(status, time, e) = <<message(status[1])>>
    BY <1>2, <1>4
  <2> QED
    BY <1>1, <1>4, <2>1
<1>5. CASE status[1] \notin {"on", "off", "program", "end"}
  <2>1. MessagesOf(status, time, e) = <<>>
    BY <1>2, <1>5
  <2> QED
    BY <1>5, <2>1
<1> QED
  BY <1>3, <1>4, <1>5

LEMMA ReadStep ==
  ASSUME NEW r \in Reads, NEW e \in SequenceEvents
  PROVE  /\ ReadEvent(r, e) \in Reads
         /\ r.over => ReadEvent(r, e) = [r EXCEPT !.over = TRUE]
         /\ r.status = <<>> /\ e.status = <<>> => ReadEvent(r, e) = [r EXCEPT !.over = TRUE]
         /\ ~r.over /\ (r.status # <<>> \/ e.status # <<>>) =>
              /\ ReadEvent(r, e).status # <<>>
              /\ ReadEvent(r, e).over => HasEnd(ReadEvent(r, e).list)
              /\ e.status # <<>> /\ e.status[1] = "end" => ReadEvent(r, e).over
<1> DEFINE status == IF e.status = <<>> THEN r.status ELSE e.status
           time == r.time + e.delta
           list == r.list \o MessagesOf(status, time, e)
<1>1. time \in Nat /\ status \in Statuses
  BY DEF Reads, SequenceEvents, Statuses
<1>2. CASE r.over \/ status = <<>>
  <2>1. ReadEvent(r, e) = [r EXCEPT !.over = TRUE]
    BY <1>2 DEF ReadEvent
  <2> QED
    BY <1>2, <2>1 DEF Reads
<1>3. CASE ~(r.over \/ status = <<>>)
  <2>1. ReadEvent(r, e) =
          [time |-> time, status |-> status, over |-> status[1] = "end", list |-> list]
    BY <1>3 DEF ReadEvent
  <2>2. status \in STRING \X (0..15)
    BY <1>1, <1>3 DEF Statuses
  <2> HIDE DEF status, time
  <2>3. /\ MessagesOf(status, time, e) \in Seq(Messages)
        /\ status[1] = "end" => /\ Len(MessagesOf(status, time, e)) = 1
                                /\ MessagesOf(status, time, e)[1].type = "end"
    BY <1>1, <2>2, MessagesAre
  <2>4. r.list \in Seq(Messages)
    BY DEF Reads
  <2>5. list \in Seq(Messages)
    BY <2>3, <2>4
  <2>6. status[1] = "end" => HasEnd(list)
    <3>1. PICK last : last = MessagesOf(status, time, e)
      OBVIOUS
    <3>2. SUFFICES ASSUME Len(last) = 1, last[1].type = "end" PROVE HasEnd(list)
      BY <2>3, <3>1
    <3>3. list = r.list \o last /\ last \in Seq(Messages)
      BY <2>3, <3>1
    <3>4. Len(r.list) + 1 \in DOMAIN list /\ list[Len(r.list) + 1] = last[1]
      <4> HIDE DEF list
      <4> QED
        BY <2>4, <3>2, <3>3, LastOfJoined
    <3> HIDE DEF list
    <3> QED
      BY <3>2, <3>4 DEF HasEnd
  <2> HIDE DEF list
  <2>7. ReadEvent(r, e) \in Reads
    BY <1>1, <2>1, <2>5 DEF Reads
  <2>8. e.status # <<>> => status = e.status
    BY DEF status
  <2>9. /\ ReadEvent(r, e).status = status /\ ReadEvent(r, e).list = list
        /\ ReadEvent(r, e).over <=> status[1] = "end"
    <3> HIDE DEF list
    <3>1. PICK ends \in BOOLEAN : ends = (status[1] = "end") /\ (ends <=> status[1] = "end")
      BY Zenon
    <3>2. ReadEvent(r, e) = [time |-> time, status |-> status, over |-> ends, list |-> list]
      BY <2>1, <3>1
    <3>3. /\ ReadEvent(r, e).status = status /\ ReadEvent(r, e).list = list
          /\ ReadEvent(r, e).over = ends
      BY <3>2
    <3>4. ReadEvent(r, e).over <=> status[1] = "end"
      BY <3>1, <3>3
    <3> QED
      BY <3>3, <3>4, Zenon
  <2>10. ~r.over /\ status # <<>> /\ (e.status = <<>> => r.status # <<>>)
    BY <1>3 DEF status
  <2> QED
    BY <2>6, <2>7, <2>8, <2>9, <2>10
<1> QED
  BY <1>2, <1>3

Unread == [time |-> 0, status |-> <<>>, over |-> FALSE, list |-> <<>>]

\* What is read of the first events: a function of their number.
LEMMA ReadUpTo ==
  ASSUME NEW events \in Seq(SequenceEvents)
  PROVE  \E read :
           /\ LoadSequenceStream(events) = read[Len(events)].list
           /\ read[0] = Unread
           /\ \A k \in 1..Len(events) : read[k] = ReadEvent(read[k - 1], events[k])
<1> DEFINE n == Len(events)
           step(r, i) == The({ReadEvent(before, events[i]) : before \in {r}})
           IsUpTo(f, k) == f = [i \in 0 .. k |-> IF i = 0 THEN Unread ELSE step(f[i - 1], i)]
<1>0. n \in Nat
  OBVIOUS
<1>1. PICK read : read = CHOOSE f : IsUpTo(f, n)
  OBVIOUS
<1>2. LoadSequenceStream(events) = read[n].list
  BY <1>1 DEF LoadSequenceStream, Unread
<1>3. \A k \in Nat : \E f : IsUpTo(f, k)
  <2> HIDE DEF step
  <2> DEFINE bad == {k \in Nat : ~\E f : IsUpTo(f, k)}
  <2> SUFFICES ASSUME bad # {} PROVE FALSE
    OBVIOUS
  <2>1. PICK k \in bad : \A l \in bad : ~(<<l, k>> \in OpToRel(<, Nat))
    BY NatLessThanWellFounded, WFMin, Zenon
  <2>2. k # 0
    <3>1. IsUpTo([i \in 0 .. 0 |-> Unread], 0)
      OBVIOUS
    <3> QED
      BY <3>1
  <2>3. k - 1 \in Nat /\ k - 1 < k
    BY <2>2
  <2>4. k - 1 \notin bad
    BY <2>1, <2>3 DEF OpToRel
  <2>5. PICK f : IsUpTo(f, k - 1)
    BY <2>3, <2>4
  <2> DEFINE h == [i \in 0 .. k |-> IF i = k THEN step(f[k - 1], k) ELSE f[i]]
  <2>6. \A i \in 0 .. k - 1 : h[i] = f[i]
    BY <2>3
  <2>7. ASSUME NEW i \in 0 .. k
        PROVE  h[i] = IF i = 0 THEN Unread ELSE step(h[i - 1], i)
    <3>1. CASE i = k
      <4>1. h[i] = step(f[k - 1], k)
        BY <3>1
      <4>2. k - 1 \in 0 .. k - 1
        BY <2>3
      <4>3. h[k - 1] = f[k - 1]
        BY <4>2, <2>6
      <4> QED
        BY <3>1, <4>1, <4>3, <2>2
    <3>2. CASE i # k
      <4>1. i \in 0 .. k - 1 /\ (i # 0 => i - 1 \in 0 .. k - 1)
        BY <3>2
      <4>2. f[i] = IF i = 0 THEN Unread ELSE step(f[i - 1], i)
        BY <2>5, <4>1
      <4> QED
        BY <4>1, <4>2, <2>6
    <3> QED
      BY <3>1, <3>2
  <2>8. h = [i \in 0 .. k |-> h[i]]
    OBVIOUS
  <2> HIDE DEF h
  <2>9. IsUpTo(h, k)
    BY <2>7, <2>8
  <2> QED
    BY <2>9
<1>4. IsUpTo(read, n)
  <2> HIDE DEF IsUpTo
  <2> QED
    BY <1>0, <1>1, <1>3, Zenon
<1>5. ASSUME NEW r, NEW i PROVE step(r, i) = ReadEvent(r, events[i])
  <2>1. {ReadEvent(before, events[i]) : before \in {r}} = {ReadEvent(r, events[i])}
    OBVIOUS
  <2> QED
    BY <2>1, TheIs
<1>6. read[0] = Unread /\ \A k \in 1..n : read[k] = step(read[k - 1], k)
  <2> HIDE DEF step
  <2>1. \A i \in 0 .. n : read[i] = IF i = 0 THEN Unread ELSE step(read[i - 1], i)
    BY <1>4
  <2> QED
    BY <1>0, <2>1
<1>7. \A k \in 1..n : read[k] = ReadEvent(read[k - 1], events[k])
  <2> HIDE DEF step, n
  <2> QED
    BY <1>5, <1>6
<1> QED
  BY <1>2, <1>6, <1>7

\* A stream that is not refused at once brings an end of the track.
LEMMA ListOf ==
  ASSUME NEW events \in Seq(SequenceEvents) \ {<<>>},
         events[1].status = <<>> \/ Last(events).status \in {"end"} \X (0..15)
  PROVE  /\ LoadSequenceStream(events) \in Seq(Messages)
         /\ LoadSequenceStream(events) = <<>> \/ HasEnd(LoadSequenceStream(events))
<1> DEFINE n == Len(events)
<1>1. n \in Nat /\ n >= 1 /\ \A k \in 1..n : events[k] \in SequenceEvents
  OBVIOUS
<1>2. PICK read :
        /\ LoadSequenceStream(events) = read[n].list
        /\ read[0] = Unread
        /\ \A k \in 1..n : read[k] = ReadEvent(read[k - 1], events[k])
  BY ReadUpTo
<1>3. Unread \in Reads /\ Unread.list = <<>> /\ Unread.status = <<>> /\ ~Unread.over
  BY DEF Unread, Reads, Statuses
<1> HIDE DEF n
<1>4. CASE events[1].status = <<>>
  <2> DEFINE good == {k \in 0..n : /\ read[k] \in Reads /\ read[k].list = <<>>
                                   /\ IF k = 0 THEN read[k].status = <<>> ELSE read[k].over}
  <2>1. 0 \in good
    BY <1>1, <1>2, <1>3
  <2>2. ASSUME NEW k \in 1..n, k - 1 \in good PROVE k \in good
    <3>1. PICK r \in Reads : r = read[k - 1]
      BY <2>2
    <3>2. r.list = <<>> /\ (IF k = 1 THEN r.status = <<>> ELSE r.over)
      BY <2>2, <3>1
    <3>3. read[k] = ReadEvent(r, events[k]) /\ events[k] \in SequenceEvents
      BY <1>1, <1>2, <3>1
    <3>4. r.over \/ (r.status = <<>> /\ events[k].status = <<>>)
      BY <1>4, <3>2
    <3>5. read[k] = [r EXCEPT !.over = TRUE] /\ read[k] \in Reads
      BY <3>3, <3>4, ReadStep
    <3>6. read[k].over /\ read[k].list = <<>>
      BY <3>2, <3>5 DEF Reads
    <3>7. k \in 0..n /\ k # 0
      BY <1>1
    <3> QED
      BY <3>5, <3>6, <3>7, Zenon
  <2>3. \A k \in 0..n : k \in good
    <3> HIDE DEF good
    <3> QED
      BY <1>1, <2>1, <2>2, UpTo
  <2> QED
    BY <1>1, <1>2, <2>3 DEF Reads
<1>5. CASE events[1].status # <<>> /\ Last(events).status \in {"end"} \X (0..15)
  <2> DEFINE good == {k \in 0..n : /\ read[k] \in Reads
                                   /\ k = 0 => ~read[k].over
                                   /\ k # 0 => read[k].status # <<>>
                                   /\ read[k].over => HasEnd(read[k].list)
                                   /\ k = n => read[k].over}
  <2>1. 0 \in good
    BY <1>1, <1>2, <1>3
  <2>2. ASSUME NEW k \in 1..n, k - 1 \in good PROVE k \in good
    <3>1. PICK r \in Reads : r = read[k - 1]
      BY <2>2
    <3>2. (k = 1 => ~r.over) /\ (k # 1 => r.status # <<>>) /\ (r.over => HasEnd(r.list))
      BY <2>2, <3>1
    <3>3. read[k] = ReadEvent(r, events[k]) /\ events[k] \in SequenceEvents
      BY <1>1, <1>2, <3>1
    <3>4. read[k] \in Reads
      BY <3>3, ReadStep
    <3>5. CASE r.over
      <4>1. read[k] = [r EXCEPT !.over = TRUE]
        BY <3>3, <3>5, ReadStep
      <4>2. read[k].over /\ read[k].list = r.list /\ read[k].status = r.status
        BY <4>1 DEF Reads
      <4> QED
        BY <3>2, <3>4, <3>5, <4>2
    <3>6. CASE ~r.over
      <4>1. r.status # <<>> \/ events[k].status # <<>>
        BY <1>5, <3>2
      <4>2. read[k].status # <<>>
        BY <3>3, <3>6, <4>1, ReadStep
      <4>3. read[k].over => HasEnd(read[k].list)
        BY <3>3, <3>6, <4>1, ReadStep
      <4>4. events[k].status # <<>> /\ events[k].status[1] = "end" => read[k].over
        BY <3>3, <3>6, <4>1, ReadStep
      <4>5. ASSUME k = n PROVE read[k].over
        <5>1. events[k].status \in {"end"} \X (0..15)
          BY <1>5, <4>5 DEF n, Last
        <5>2. events[k].status # <<>> /\ events[k].status[1] = "end"
          BY <5>1
        <5> QED
          BY <4>4, <5>2
      <4> QED
        BY <3>4, <4>2, <4>3, <4>5
    <3> QED
      BY <3>5, <3>6
  <2>3. \A k \in 0..n : k \in good
    <3> HIDE DEF good
    <3> QED
      BY <1>1, <2>1, <2>2, UpTo
  <2> QED
    BY <1>1, <1>2, <2>3 DEF Reads
<1> QED
  BY <1>4, <1>5

-----------------------------------------------------------------------------
(* The voices of a song *)

AllTones == UNION {Tones[p] : p \in DOMAIN Tones}
Voices ==
  [message : Nat, tone : AllTones, program : DOMAIN Tones, note : Nat, rate : Nat,
   ignoreLoops : BOOLEAN, delay : Int, usesOff : BOOLEAN, offDelay : Int, on : BOOLEAN,
   dead : BOOLEAN, adsr : {"attack", "decay", "sustain", "release"}, level : Int,
   offset : Nat, out : {"none", "left", "both", "right"}]

\* What was loaded: a song that fits the bank.
ListOk ==
  /\ m_MessageList \in Seq(Messages)
  /\ m_MessageList = <<>> \/ HasEnd(m_MessageList)
  /\ \A i \in DOMAIN m_MessageList :
       /\ m_MessageList[i].type = "program" => m_MessageList[i].data \in DOMAIN Tones
       /\ m_MessageList[i].type = "on" => m_MessageList[i].data \in DOMAIN Rate

At(i) == MidiTimeToSample(m_MessageList[i].time)

ProgramUpTo(c, k) ==
  LET changes == {j \in 1..k : m_MessageList[j].type = "program" /\ m_MessageList[j].channel = c}
  IN IF changes = {} THEN 0 ELSE m_MessageList[Max(changes)].data

\* Note-off j would end note i, if it has not ended.
Ends(i, j) ==
  m_MessageList[j].type = "off" /\ SameKey(i, j) /\ m_MessageList[j].time > m_MessageList[i].time

LEMMA SampleTimes ==
  ASSUME NEW a \in Nat, NEW b \in Nat
  PROVE  /\ MidiTimeToSample(a) \in Nat
         /\ a < b => MidiTimeToSample(a) + 2 <= MidiTimeToSample(b)
         /\ MidiTimeToSample(a) < MidiTimeToSample(b) <=> a < b
<1>1. PICK f \in Nat : f = FramesPerTick /\ f >= 2
  BY SequencerAssumption
<1>2. \A x, y \in Nat : x < y => f * x + 2 <= f * y
  <2> TAKE x, y \in Nat
  <2> HAVE x < y
  <2>1. PICK d \in Nat : y = x + 1 + d
    <3>1. y - x - 1 \in Nat /\ y = x + 1 + (y - x - 1)
      OBVIOUS
    <3> QED
      BY <3>1
  <2>2. f * y = f * x + f + f * d
    BY <2>1
  <2>3. f * d \in Nat /\ f * x \in Nat
    OBVIOUS
  <2> QED
    BY <1>1, <2>2, <2>3
<1>3. MidiTimeToSample(a) = f * a /\ MidiTimeToSample(b) = f * b /\ f * a \in Nat /\ f * b \in Nat
  BY <1>1 DEF MidiTimeToSample
<1>4. CASE a < b
  BY <1>2, <1>3, <1>4
<1>5. CASE b < a
  <2>1. f * b + 2 <= f * a
    BY <1>2, <1>5
  <2> QED
    BY <1>3, <1>5, <2>1
<1>6. CASE a = b
  BY <1>3, <1>6
<1> QED
  BY <1>4, <1>5, <1>6

LEMMA Largest ==
  ASSUME NEW S, NEW n \in S, S \subseteq Int, \A k \in S : k <= n PROVE Max(S) = n
<1>1. \A x \in S : (\A y \in S : x >= y) => x = n
  OBVIOUS
<1>2. \A y \in S : n >= y
  OBVIOUS
<1> QED
  BY <1>1, <1>2 DEF Max

LEMMA Smallest ==
  ASSUME NEW S, NEW n \in S, S \subseteq Int, \A k \in S : n <= k PROVE Min(S) = n
<1>1. \A x \in S : (\A y \in S : x <= y) => x = n
  OBVIOUS
<1>2. \A y \in S : n <= y
  OBVIOUS
<1> QED
  BY <1>1, <1>2 DEF Min

LEMMA FirstIs ==
  ASSUME NEW S, S \subseteq Nat, S # {}
  PROVE  Min(S) \in S /\ \A k \in S : Min(S) <= k
<1>1. PICK n \in S : \A k \in S : ~(<<k, n>> \in OpToRel(<, Nat))
  BY NatLessThanWellFounded, WFMin, Zenon
<1>2. \A k \in S : n <= k
  <2> TAKE k \in S
  <2>1. k \in Nat /\ n \in Nat
    OBVIOUS
  <2>2. ~(k < n)
    BY <1>1, <2>1 DEF OpToRel
  <2> QED
    BY <2>1, <2>2
<1>3. Min(S) = n
  <2>1. S \subseteq Int
    OBVIOUS
  <2> QED
    BY <1>2, <2>1, Smallest
<1> QED
  BY <1>2, <1>3

LEMMA FirstProgram == ASSUME NEW c PROVE ProgramUpTo(c, 0) = 0
<1>1. {j \in 1..0 : m_MessageList[j].type = "program" /\ m_MessageList[j].channel = c} = {}
  OBVIOUS
<1> QED
  BY <1>1 DEF ProgramUpTo

LEMMA ProgramStep ==
  ASSUME ListOk, NEW k \in DOMAIN m_MessageList, NEW c \in 0..15
  PROVE  /\ ProgramUpTo(c, k) =
              IF m_MessageList[k].type = "program" /\ m_MessageList[k].channel = c
              THEN m_MessageList[k].data ELSE ProgramUpTo(c, k - 1)
         /\ ProgramAt(k) = ProgramUpTo(m_MessageList[k].channel, k)
<1> DEFINE changes(l) == {j \in 1..l : m_MessageList[j].type = "program" /\ m_MessageList[j].channel = c}
<1>1. k \in Nat /\ k >= 1
  BY DEF ListOk
<1>0. ProgramAt(k) = ProgramUpTo(m_MessageList[k].channel, k)
  BY DEF ProgramAt, ProgramUpTo
<1>3. CASE m_MessageList[k].type = "program" /\ m_MessageList[k].channel = c
  <2>1. k \in changes(k) /\ changes(k) \subseteq Int /\ \A j \in changes(k) : j <= k
    BY <1>1, <1>3
  <2>2. Max(changes(k)) = k
    <3> HIDE DEF changes
    <3> QED
      BY <2>1, Largest
  <2>3. changes(k) # {}
    BY <2>1
  <2>4. ProgramUpTo(c, k) = IF changes(k) = {} THEN 0 ELSE m_MessageList[Max(changes(k))].data
    BY DEF ProgramUpTo
  <2> HIDE DEF changes
  <2> QED
    BY <1>0, <1>3, <2>2, <2>3, <2>4
<1>4. CASE ~(m_MessageList[k].type = "program" /\ m_MessageList[k].channel = c)
  <2>1. changes(k) = changes(k - 1)
    BY <1>1, <1>4
  <2>2. /\ ProgramUpTo(c, k) = IF changes(k) = {} THEN 0 ELSE m_MessageList[Max(changes(k))].data
        /\ ProgramUpTo(c, k - 1) =
             IF changes(k - 1) = {} THEN 0 ELSE m_MessageList[Max(changes(k - 1))].data
    BY DEF ProgramUpTo
  <2> HIDE DEF changes
  <2> QED
    BY <1>0, <1>4, <2>1, <2>2
<1> QED
  BY <1>3, <1>4

\* The end a voice knows of, of those among the first k messages.
OffSet(v, k) ==
  \/ /\ v.usesOff = FALSE /\ v.offDelay = 0
     /\ \A j \in v.message + 1..k : ~Ends(v.message, j)
  \/ /\ v.usesOff = TRUE
     /\ \E j \in v.message + 1..k :
          /\ Ends(v.message, j) /\ v.offDelay = At(j)
          /\ \A l \in v.message + 1..j - 1 : ~Ends(v.message, l)

\* A voice of message v.message that was never played.
Fresh(v) ==
  LET i == v.message
  IN /\ v.note = m_MessageList[i].data /\ v.program = ProgramAt(i) /\ v.delay = At(i)
     /\ v.tone \in Tones[ProgramAt(i)] /\ v.rate = Rate[m_MessageList[i].data]
     /\ v.ignoreLoops = FALSE /\ v.on = TRUE /\ v.dead = FALSE
     /\ v.adsr = "attack" /\ v.level = 0 /\ v.offset = 0

PlayerStates == {"INIT_VOICES", "PLAYING", "FINISHED", "STOPPED"}
Processes ==
  [channels : [0..15 -> DOMAIN Tones], voices : SUBSET Voices, firstNote : BOOLEAN,
   begin : Int, finish : Int, state : PlayerStates]

\* The first k messages are processed.
ProcessedTo(s, k) ==
  /\ s \in Processes
  /\ \A c \in 0..15 : s.channels[c] = ProgramUpTo(c, k)
  /\ \A v \in s.voices : v.message \in Ons => v.message <= k /\ Fresh(v) /\ OffSet(v, k)
  /\ \A i \in Ons : i <= k /\ Sings(i) => \E v \in s.voices : v.message = i
  /\ s.firstNote = TRUE => \A i \in Ons : i > k
  /\ s.firstNote = FALSE => Ons # {} /\ s.begin = mCurrentSampleIndex + At(Min(Ons))
  /\ s.state = IF \E j \in 1..k : m_MessageList[j].type = "end" THEN "PLAYING" ELSE "INIT_VOICES"

IsNew(v, program, note, delay, rate, ignoreLoops, message) ==
  /\ v.message = message /\ v.note = note /\ v.program = program /\ v.delay = delay
  /\ v.tone \in Tones[program] /\ note \in v.tone.min..v.tone.max
  /\ v.rate = rate /\ v.ignoreLoops = ignoreLoops
  /\ v.usesOff = FALSE /\ v.offDelay = 0 /\ v.on = TRUE /\ v.dead = FALSE
  /\ v.adsr = "attack" /\ v.level = 0 /\ v.offset = 0 /\ v.out = "none"

LEMMA NewVoicesAre ==
  ASSUME NEW program \in DOMAIN Tones, NEW note \in Nat, NEW delay \in Nat, NEW rate \in Nat,
         NEW ignoreLoops \in BOOLEAN, NEW message \in Nat
  PROVE  /\ NewVoices(program, note, delay, rate, ignoreLoops, message) \subseteq Voices
         /\ \A v \in NewVoices(program, note, delay, rate, ignoreLoops, message) :
              IsNew(v, program, note, delay, rate, ignoreLoops, message)
         /\ (\E t \in Tones[program] : note \in t.min..t.max) =>
              NewVoices(program, note, delay, rate, ignoreLoops, message) # {}
<1> DEFINE new == NewVoices(program, note, delay, rate, ignoreLoops, message)
           voice(t) ==
             [message |-> message, tone |-> t, program |-> program, note |-> note, rate |-> rate,
              ignoreLoops |-> ignoreLoops, delay |-> delay, usesOff |-> FALSE, offDelay |-> 0,
              on |-> TRUE, dead |-> FALSE, adsr |-> "attack", level |-> 0, offset |-> 0, out |-> "none"]
           fitting == {tone \in Tones[program] : note \in tone.min..tone.max}
<1>1. new = {voice(t) : t \in fitting}
  BY DEF NewVoices
<1>2. ASSUME NEW t \in fitting
      PROVE  /\ voice(t) \in Voices
             /\ voice(t).message = message /\ voice(t).note = note /\ voice(t).program = program
             /\ voice(t).delay = delay /\ voice(t).tone \in Tones[program]
             /\ note \in voice(t).tone.min..voice(t).tone.max
             /\ voice(t).rate = rate /\ voice(t).ignoreLoops = ignoreLoops
             /\ voice(t).usesOff = FALSE /\ voice(t).offDelay = 0 /\ voice(t).on = TRUE
             /\ voice(t).dead = FALSE /\ voice(t).adsr = "attack" /\ voice(t).level = 0
             /\ voice(t).offset = 0 /\ voice(t).out = "none" /\ voice(t).tone = t
  <2>1. t \in AllTones
    BY DEF AllTones
  <2>2. voice(t) \in Voices
    BY <2>1 DEF Voices
  <2> QED
    BY <2>2
<1> HIDE DEF voice
<1>3. (\E t \in Tones[program] : note \in t.min..t.max) => new # {}
  BY <1>1
<1> HIDE DEF new, fitting
<1>4. new \subseteq Voices
  BY <1>1, <1>2
<1>5. \A v \in new : IsNew(v, program, note, delay, rate, ignoreLoops, message)
  <2> TAKE v \in new
  <2>1. PICK t \in fitting : v = voice(t)
    BY <1>1
  <2> QED
    BY <1>2, <2>1, Zenon DEF IsNew
<1> QED
  BY <1>3, <1>4, <1>5 DEF new

LEMMA OffSetKept ==
  ASSUME NEW v \in Voices, NEW k \in Nat \ {0}, OffSet(v, k - 1), ~Ends(v.message, k)
  PROVE  OffSet(v, k)
<1>1. v.message \in Nat
  BY DEF Voices
<1>2. CASE v.usesOff = FALSE
  <2>1. v.offDelay = 0 /\ \A j \in v.message + 1..k - 1 : ~Ends(v.message, j)
    BY <1>2 DEF OffSet
  <2>2. \A j \in v.message + 1..k : ~Ends(v.message, j)
    BY <1>1, <2>1
  <2> QED
    BY <1>2, <2>1, <2>2 DEF OffSet
<1>3. CASE v.usesOff = TRUE
  <2>1. PICK j \in v.message + 1..k - 1 :
          /\ Ends(v.message, j) /\ v.offDelay = At(j)
          /\ \A l \in v.message + 1..j - 1 : ~Ends(v.message, l)
    BY <1>3 DEF OffSet
  <2>2. j \in v.message + 1..k
    BY <1>1
  <2> QED
    BY <1>3, <2>1, <2>2 DEF OffSet
<1> QED
  BY <1>2, <1>3 DEF Voices

LEMMA MessageIs ==
  ASSUME ListOk, NEW k \in DOMAIN m_MessageList
  PROVE  /\ k \in Nat \ {0} /\ m_MessageList[k].type \in {"on", "off", "program", "end"}
         /\ m_MessageList[k].time \in Nat /\ m_MessageList[k].channel \in 0..15
         /\ m_MessageList[k].data \in Nat /\ At(k) \in Nat
<1>1. m_MessageList[k] \in Messages /\ k \in Nat \ {0}
  BY DEF ListOk
<1>2. m_MessageList[k].time \in Nat
  BY <1>1 DEF Messages
<1>3. At(k) \in Nat
  BY <1>2, SampleTimes DEF At
<1> QED
  BY <1>1, <1>3 DEF Messages

LEMMA OffDelayStep ==
  ASSUME ListOk, NEW k \in DOMAIN m_MessageList, m_MessageList[k].type = "off",
         NEW v \in Voices, v.message \in Ons, v.message <= k - 1, Fresh(v), OffSet(v, k - 1),
         NEW w, w = IF /\ v.note = m_MessageList[k].data /\ v.program = ProgramAt(k)
                       /\ v.delay < At(k) /\ v.offDelay <= 0
                    THEN [v EXCEPT !.usesOff = TRUE, !.offDelay = At(k)] ELSE v
  PROVE  w \in Voices /\ w.message = v.message /\ Fresh(w) /\ OffSet(w, k)
<1> DEFINE i == v.message
<1>1. /\ k \in Nat \ {0} /\ i \in Nat \ {0} /\ At(k) \in Nat /\ At(i) \in Nat
      /\ m_MessageList[k].time \in Nat /\ m_MessageList[i].time \in Nat
  BY MessageIs DEF Ons
<1>2. /\ v.note = m_MessageList[i].data /\ v.program = ProgramAt(i) /\ v.delay = At(i)
  BY DEF Fresh
<1>3. At(i) < At(k) <=> m_MessageList[i].time < m_MessageList[k].time
  BY <1>1, SampleTimes DEF At
<1>4. Ends(i, k) <=> v.note = m_MessageList[k].data /\ v.program = ProgramAt(k) /\ v.delay < At(k)
  BY <1>1, <1>2, <1>3 DEF Ends, SameKey
<1>5. CASE v.usesOff = TRUE
  <2>1. PICK j \in i + 1..k - 1 :
          /\ Ends(i, j) /\ v.offDelay = At(j)
          /\ \A l \in i + 1..j - 1 : ~Ends(i, l)
    BY <1>5 DEF OffSet
  <2>2. j \in DOMAIN m_MessageList
    BY <1>1, <2>1 DEF ListOk
  <2>3. At(j) \in Nat /\ m_MessageList[j].time \in Nat
    BY <2>2, MessageIs
  <2>4. m_MessageList[i].time < m_MessageList[j].time
    BY <1>1, <2>1, <2>3 DEF Ends
  <2>5. At(i) < At(j)
    BY <1>1, <2>3, <2>4, SampleTimes DEF At
  <2>6. w = v
    BY <1>1, <2>1, <2>3, <2>5
  <2>7. OffSet(v, k)
    <3>1. j \in i + 1..k
      BY <1>1
    <3> QED
      BY <1>5, <2>1, <3>1 DEF OffSet
  <2> QED
    BY <2>6, <2>7
<1>6. CASE v.usesOff = FALSE
  <2>1. v.offDelay = 0 /\ \A j \in i + 1..k - 1 : ~Ends(i, j)
    BY <1>6 DEF OffSet
  <2>2. CASE Ends(i, k)
    <3>1. w = [v EXCEPT !.usesOff = TRUE, !.offDelay = At(k)]
      BY <1>4, <2>1, <2>2
    <3>2. /\ w \in Voices /\ w.message = i /\ w.usesOff = TRUE /\ w.offDelay = At(k)
          /\ w.note = v.note /\ w.program = v.program /\ w.delay = v.delay /\ w.tone = v.tone
          /\ w.rate = v.rate /\ w.ignoreLoops = v.ignoreLoops /\ w.on = v.on /\ w.dead = v.dead
          /\ w.adsr = v.adsr /\ w.level = v.level /\ w.offset = v.offset
      <4>1. PICK delay \in Int : delay = At(k)
        BY <1>1
      <4>2. w = [v EXCEPT !.usesOff = TRUE, !.offDelay = delay]
        BY <3>1, <4>1
      <4>3. w \in Voices
        BY <4>2 DEF Voices
      <4>4. w.message = i /\ w.usesOff = TRUE /\ w.offDelay = At(k)
        BY <4>1, <4>2 DEF Voices
      <4>5. /\ w.note = v.note /\ w.program = v.program /\ w.delay = v.delay /\ w.tone = v.tone
            /\ w.rate = v.rate
        BY <4>2 DEF Voices
      <4>6. /\ w.ignoreLoops = v.ignoreLoops /\ w.on = v.on /\ w.dead = v.dead
            /\ w.adsr = v.adsr /\ w.level = v.level /\ w.offset = v.offset
        BY <4>2 DEF Voices
      <4> QED
        BY <4>3, <4>4, <4>5, <4>6
    <3>3. Fresh(w)
      BY <3>2 DEF Fresh
    <3>4. k \in i + 1..k
      BY <1>1
    <3>5. OffSet(w, k)
      BY <2>1, <2>2, <3>2, <3>4 DEF OffSet
    <3> QED
      BY <3>2, <3>3, <3>5
  <2>3. CASE ~Ends(i, k)
    <3>1. w = v
      BY <1>4, <2>3
    <3> QED
      BY <1>1, <2>3, <3>1, OffSetKept
  <2> QED
    BY <2>2, <2>3
<1> QED
  BY <1>5, <1>6 DEF Voices

\* What a message does to the state of the loop over the messages.
LEMMA ProcessIs ==
  ASSUME ListOk, NEW k \in DOMAIN m_MessageList, NEW s \in Processes
  PROVE  LET m == m_MessageList[k]
             program == s.channels[m.channel]
         IN /\ m.type = "on" =>
                 Process(s, k) =
                   [s EXCEPT !.voices = @ \cup NewVoices(program, m.data, At(k), Rate[m.data], FALSE, k),
                             !.begin = IF s.firstNote THEN mCurrentSampleIndex + At(k) ELSE @,
                             !.firstNote = FALSE]
            /\ m.type = "off" =>
                 Process(s, k) = [s EXCEPT !.voices = NoteOffDelay(@, program, m.data, At(k))]
            /\ m.type = "program" => Process(s, k) = [s EXCEPT !.channels[m.channel] = m.data]
            /\ m.type = "end" =>
                 Process(s, k) = [s EXCEPT !.state = "PLAYING", !.finish = mCurrentSampleIndex + At(k)]
BY DEF Process, At

LEMMA ProcessStep ==
  ASSUME ListOk, mCurrentSampleIndex \in Nat, NEW k \in DOMAIN m_MessageList,
         NEW s, ProcessedTo(s, k - 1)
  PROVE  ProcessedTo(Process(s, k), k)
<1> DEFINE m == m_MessageList[k]
           program == s.channels[m.channel]
           p == Process(s, k)
<1>1. s \in Processes
  BY DEF ProcessedTo
<1>2. /\ k \in Nat \ {0} /\ m.type \in {"on", "off", "program", "end"} /\ m.time \in Nat
      /\ m.channel \in 0..15 /\ m.data \in Nat /\ At(k) \in Nat
  BY MessageIs
<1>3. s.channels \in [0..15 -> DOMAIN Tones] /\ program \in DOMAIN Tones
  BY <1>1, <1>2 DEF Processes
<1>4. \A c \in 0..15 :
        s.channels[c] = ProgramUpTo(c, k - 1)
  BY DEF ProcessedTo
<1>5. ASSUME m.type # "program"
      PROVE  /\ \A c \in 0..15 : s.channels[c] = ProgramUpTo(c, k)
             /\ ProgramAt(k) = program
  <2>1. \A c \in 0..15 : s.channels[c] = ProgramUpTo(c, k)
    <3> HIDE DEF program
    <3> QED
      BY <1>4, <1>5, ProgramStep
  <2> QED
    BY <1>2, <2>1, ProgramStep
<1>6. ASSUME m.type # "off"
      PROVE  \A v \in s.voices : v.message \in Ons => v.message <= k /\ Fresh(v) /\ OffSet(v, k)
  <2> SUFFICES ASSUME NEW v \in s.voices, v.message \in Ons
               PROVE  v.message <= k /\ Fresh(v) /\ OffSet(v, k)
    OBVIOUS
  <2>1. v \in Voices
    BY <1>1 DEF Processes
  <2>2. v.message <= k - 1 /\ Fresh(v) /\ OffSet(v, k - 1)
    BY DEF ProcessedTo
  <2>3. ~Ends(v.message, k)
    BY <1>6 DEF Ends
  <2>4. OffSet(v, k)
    BY <1>2, <2>1, <2>2, <2>3, OffSetKept
  <2>5. v.message \in Nat
    BY <2>1 DEF Voices
  <2> QED
    BY <1>2, <2>2, <2>4, <2>5
<1>7. \A i \in Ons : i \in Nat /\ i \in DOMAIN m_MessageList /\ (i <= k /\ i # k => i <= k - 1)
  BY <1>2, MessageIs DEF Ons
<1>8. ASSUME m.type # "on"
      PROVE  /\ \A i \in Ons : i <= k /\ Sings(i) => \E v \in s.voices : v.message = i
             /\ s.firstNote = TRUE => \A i \in Ons : i > k
             /\ s.firstNote = FALSE => Ons # {} /\ s.begin = mCurrentSampleIndex + At(Min(Ons))
  <2>1. k \notin Ons
    BY <1>8 DEF Ons
  <2>2. \A i \in Ons : i <= k => i <= k - 1
    BY <1>7, <2>1
  <2>3. \A i \in Ons : i > k - 1 => i > k
    BY <1>2, <1>7, <2>1
  <2>4. \A i \in Ons : i <= k /\ Sings(i) => \E v \in s.voices : v.message = i
    BY <2>2 DEF ProcessedTo
  <2> QED
    BY <2>3, <2>4 DEF ProcessedTo
<1>9. ASSUME m.type # "end"
      PROVE  s.state = IF \E j \in 1..k : m_MessageList[j].type = "end" THEN "PLAYING" ELSE "INIT_VOICES"
  <2>1. (\E j \in 1..k : m_MessageList[j].type = "end") <=> \E j \in 1..k - 1 : m_MessageList[j].type = "end"
    BY <1>2, <1>9
  <2> QED
    BY <2>1 DEF ProcessedTo
<1>10. CASE m.type = "on"
  <2> DEFINE new == NewVoices(program, m.data, At(k), Rate[m.data], FALSE, k)
             begin == IF s.firstNote THEN mCurrentSampleIndex + At(k) ELSE s.begin
  <2>1. p = [s EXCEPT !.voices = @ \cup new, !.begin = begin, !.firstNote = FALSE]
    BY <1>1, <1>10, ProcessIs
  <2>2. Rate[m.data] \in Nat
    BY <1>10, SequencerAssumption DEF ListOk
  <2>3. /\ new \subseteq Voices
        /\ \A v \in new :
             /\ v.message = k /\ v.note = m.data /\ v.program = program /\ v.delay = At(k)
             /\ v.tone \in Tones[program] /\ v.rate = Rate[m.data] /\ v.ignoreLoops = FALSE
             /\ v.usesOff = FALSE /\ v.offDelay = 0 /\ v.on = TRUE /\ v.dead = FALSE
             /\ v.adsr = "attack" /\ v.level = 0 /\ v.offset = 0
        /\ (\E t \in Tones[program] : m.data \in t.min..t.max) => new # {}
    <3>1. PICK q \in DOMAIN Tones : q = program
      BY <1>3
    <3>2. PICK note \in Nat : note = m.data
      BY <1>2
    <3>3. PICK delay \in Nat : delay = At(k)
      BY <1>2
    <3>4. PICK rate \in Nat : rate = Rate[m.data]
      BY <2>2
    <3>5. k \in Nat
      BY <1>2
    <3>0. PICK loops \in BOOLEAN : loops = FALSE
      OBVIOUS
    <3>6. new = NewVoices(q, note, delay, rate, loops, k)
      BY <3>0, <3>1, <3>2, <3>3, <3>4, Zenon
    <3> HIDE DEF new, program
    <3>8. /\ q \in DOMAIN Tones /\ note \in Nat /\ delay \in Nat /\ rate \in Nat
          /\ loops \in BOOLEAN
      BY <3>0, <3>1, <3>2, <3>3, <3>4
    <3>9. NewVoices(q, note, delay, rate, loops, k) \subseteq Voices
      BY <3>5, NewVoicesAre
    <3>10. \A v \in NewVoices(q, note, delay, rate, loops, k) :
               IsNew(v, q, note, delay, rate, loops, k)
      BY <3>5, NewVoicesAre
    <3>7. (\E t \in Tones[q] : note \in t.min..t.max) => NewVoices(q, note, delay, rate, loops, k) # {}
      BY <3>5, NewVoicesAre
    <3> QED
      BY <3>0, <3>1, <3>2, <3>3, <3>4, <3>6, <3>7, <3>9, <3>10 DEF IsNew
  <2>4. begin \in Int
    BY <1>1, <1>2 DEF Processes
  <2> HIDE DEF new, begin, p
  <2>5. /\ p.channels = s.channels /\ p.voices = s.voices \cup new /\ p.begin = begin
        /\ p.firstNote = FALSE /\ p.finish = s.finish /\ p.state = s.state
    BY <1>1, <2>1 DEF Processes
  <2>6. p \in Processes
    BY <1>1, <2>1, <2>3, <2>4 DEF Processes
  <2>7. \A c \in 0..15 : p.channels[c] = ProgramUpTo(c, k)
    BY <1>5, <1>10, <2>5
  <2>8. ASSUME NEW v \in new PROVE v.message <= k /\ Fresh(v) /\ OffSet(v, k)
    <3>1. v.message = k
      BY <2>3
    <3>2. Fresh(v)
      BY <1>5, <1>10, <2>3, <3>1 DEF Fresh
    <3>3. OffSet(v, k)
      <4>1. v.message + 1..k = {}
        BY <1>2, <3>1
      <4> QED
        BY <2>3, <4>1 DEF OffSet
    <3> QED
      BY <1>2, <3>1, <3>2, <3>3
  <2>9. \A v \in p.voices : v.message \in Ons => v.message <= k /\ Fresh(v) /\ OffSet(v, k)
    BY <1>6, <1>10, <2>5, <2>8
  <2>10. ASSUME NEW i \in Ons, i <= k, Sings(i) PROVE \E v \in p.voices : v.message = i
    <3>1. CASE i = k
      <4>1. \E t \in Tones[program] : m.data \in t.min..t.max
        BY <1>5, <1>10, <2>10, <3>1 DEF Sings
      <4>2. PICK v \in new : TRUE
        BY <2>3, <4>1
      <4> QED
        BY <2>3, <2>5, <3>1, <4>2
    <3>2. CASE i # k
      <4>1. i <= k - 1
        BY <1>7, <2>10, <3>2
      <4>2. \E v \in s.voices : v.message = i
        BY <2>10, <4>1 DEF ProcessedTo
      <4> QED
        BY <2>5, <4>2
    <3> QED
      BY <3>1, <3>2
  <2>11. Ons # {} /\ begin = mCurrentSampleIndex + At(Min(Ons))
    <3>1. k \in Ons
      BY <1>10 DEF Ons
    <3>2. CASE s.firstNote = TRUE
      <4>1. \A i \in Ons : k <= i
        BY <1>2, <1>7, <3>2 DEF ProcessedTo
      <4>2. Ons \subseteq Int
        BY <1>7
      <4>3. Min(Ons) = k
        BY <3>1, <4>1, <4>2, Smallest
      <4> QED
        BY <3>1, <3>2, <4>3 DEF begin
    <3>3. CASE s.firstNote = FALSE
      BY <3>1, <3>3 DEF ProcessedTo, begin
    <3> QED
      BY <1>1, <3>2, <3>3 DEF Processes
  <2>12. p.state = IF \E j \in 1..k : m_MessageList[j].type = "end" THEN "PLAYING" ELSE "INIT_VOICES"
    BY <1>9, <1>10, <2>5
  <2> QED
    BY <2>5, <2>6, <2>7, <2>9, <2>10, <2>11, <2>12 DEF ProcessedTo, p
<1>11. CASE m.type = "off"
  <2> DEFINE voices == NoteOffDelay(s.voices, program, m.data, At(k))
             delayed(v) == IF /\ v.note = m.data /\ v.program = program
                              /\ v.delay < At(k) /\ v.offDelay <= 0
                           THEN [v EXCEPT !.usesOff = TRUE, !.offDelay = At(k)] ELSE v
  <2>1. p = [s EXCEPT !.voices = voices]
    BY <1>1, <1>11, ProcessIs
  <2>2. voices = {delayed(v) : v \in s.voices}
    BY DEF NoteOffDelay
  <2>3. \A v \in Voices : delayed(v) \in Voices /\ delayed(v).message = v.message
    <3> TAKE v \in Voices
    <3>1. PICK delay \in Int : delay = At(k)
      BY <1>2
    <3>2. [v EXCEPT !.usesOff = TRUE, !.offDelay = delay] \in Voices
      BY DEF Voices
    <3>3. [v EXCEPT !.usesOff = TRUE, !.offDelay = delay].message = v.message
      BY DEF Voices
    <3> QED
      BY <3>1, <3>2, <3>3
  <2>4. s.voices \subseteq Voices
    BY <1>1 DEF Processes
  <2>5. ASSUME NEW v \in s.voices, v.message \in Ons
        PROVE  delayed(v).message <= k /\ Fresh(delayed(v)) /\ OffSet(delayed(v), k)
    <3>1. v \in Voices
      BY <2>4
    <3>2. v.message <= k - 1 /\ Fresh(v) /\ OffSet(v, k - 1)
      BY <2>5 DEF ProcessedTo
    <3>3. PICK w : w = delayed(v)
      OBVIOUS
    <3>4. w = IF /\ v.note = m_MessageList[k].data /\ v.program = ProgramAt(k)
                 /\ v.delay < At(k) /\ v.offDelay <= 0
              THEN [v EXCEPT !.usesOff = TRUE, !.offDelay = At(k)] ELSE v
      BY <1>5, <1>11, <3>3
    <3>5. w.message = v.message /\ Fresh(w) /\ OffSet(w, k)
      BY <1>11, <2>5, <3>1, <3>2, <3>4, OffDelayStep
    <3>6. v.message \in Nat
      BY <3>1 DEF Voices
    <3>7. w.message <= k
      BY <1>2, <3>2, <3>5, <3>6
    <3> HIDE DEF delayed
    <3> QED
      BY <3>3, <3>5, <3>7
  <2> HIDE DEF delayed, voices, p
  <2>6. /\ p.channels = s.channels /\ p.voices = voices /\ p.begin = s.begin
        /\ p.firstNote = s.firstNote /\ p.finish = s.finish /\ p.state = s.state
    BY <1>1, <2>1 DEF Processes
  <2>7. voices \subseteq Voices
    BY <2>2, <2>3, <2>4
  <2>8. p \in Processes
    BY <1>1, <2>1, <2>7 DEF Processes
  <2>9. \A c \in 0..15 : p.channels[c] = ProgramUpTo(c, k)
    BY <1>5, <1>11, <2>6
  <2>10. ASSUME NEW w \in p.voices, w.message \in Ons PROVE w.message <= k /\ Fresh(w) /\ OffSet(w, k)
    <3>1. PICK v \in s.voices : w = delayed(v)
      BY <2>2, <2>6
    <3>2. v.message \in Ons
      BY <2>3, <2>4, <2>10, <3>1
    <3> QED
      BY <2>5, <3>1, <3>2
  <2>11. ASSUME NEW i \in Ons, i <= k, Sings(i) PROVE \E v \in p.voices : v.message = i
    <3>1. PICK v \in s.voices : v.message = i
      BY <1>8, <1>11, <2>11
    <3>2. delayed(v) \in voices /\ delayed(v).message = i
      BY <2>2, <2>3, <2>4, <3>1
    <3> QED
      BY <2>6, <3>2
  <2>12. /\ p.firstNote = TRUE => \A i \in Ons : i > k
         /\ p.firstNote = FALSE => Ons # {} /\ p.begin = mCurrentSampleIndex + At(Min(Ons))
    BY <1>8, <1>11, <2>6
  <2>13. p.state = IF \E j \in 1..k : m_MessageList[j].type = "end" THEN "PLAYING" ELSE "INIT_VOICES"
    BY <1>9, <1>11, <2>6
  <2> QED
    BY <2>8, <2>9, <2>10, <2>11, <2>12, <2>13 DEF ProcessedTo, p
<1>12. CASE m.type = "program"
  <2>1. p = [s EXCEPT !.channels[m.channel] = m.data]
    BY <1>1, <1>12, ProcessIs
  <2>2. m.data \in DOMAIN Tones
    BY <1>12 DEF ListOk
  <2> HIDE DEF p
  <2>3. /\ p.channels = [s.channels EXCEPT ![m.channel] = m.data] /\ p.voices = s.voices
        /\ p.begin = s.begin /\ p.firstNote = s.firstNote /\ p.finish = s.finish /\ p.state = s.state
    BY <1>1, <2>1 DEF Processes
  <2>4. p.channels \in [0..15 -> DOMAIN Tones]
    BY <1>2, <1>3, <2>2, <2>3
  <2>5. p \in Processes
    BY <1>1, <2>1, <2>3, <2>4 DEF Processes
  <2>6. \A c \in 0..15 : p.channels[c] = ProgramUpTo(c, k)
    <3> TAKE c \in 0..15
    <3>1. ProgramUpTo(c, k) = IF m.channel = c THEN m.data ELSE ProgramUpTo(c, k - 1)
      BY <1>12, ProgramStep
    <3>2. p.channels[c] = IF m.channel = c THEN m.data ELSE s.channels[c]
      BY <1>2, <1>3, <2>3
    <3> QED
      BY <1>4, <3>1, <3>2
  <2>7. \A v \in p.voices : v.message \in Ons => v.message <= k /\ Fresh(v) /\ OffSet(v, k)
    BY <1>6, <1>12, <2>3
  <2>8. /\ \A i \in Ons : i <= k /\ Sings(i) => \E v \in p.voices : v.message = i
        /\ p.firstNote = TRUE => \A i \in Ons : i > k
        /\ p.firstNote = FALSE => Ons # {} /\ p.begin = mCurrentSampleIndex + At(Min(Ons))
    BY <1>8, <1>12, <2>3
  <2>9. p.state = IF \E j \in 1..k : m_MessageList[j].type = "end" THEN "PLAYING" ELSE "INIT_VOICES"
    BY <1>9, <1>12, <2>3
  <2> QED
    BY <2>5, <2>6, <2>7, <2>8, <2>9 DEF ProcessedTo, p
<1>13. CASE m.type = "end"
  <2>1. p = [s EXCEPT !.state = "PLAYING", !.finish = mCurrentSampleIndex + At(k)]
    BY <1>1, <1>13, ProcessIs
  <2>2. PICK finish \in Int : finish = mCurrentSampleIndex + At(k)
    BY <1>2
  <2> HIDE DEF p
  <2>3. /\ p.channels = s.channels /\ p.voices = s.voices
        /\ p.begin = s.begin /\ p.firstNote = s.firstNote /\ p.finish = finish /\ p.state = "PLAYING"
    BY <1>1, <2>1, <2>2 DEF Processes
  <2>4. p \in Processes
    BY <1>1, <2>1, <2>2 DEF Processes, PlayerStates
  <2>5. \A c \in 0..15 : p.channels[c] = ProgramUpTo(c, k)
    BY <1>5, <1>13, <2>3
  <2>6. \A v \in p.voices : v.message \in Ons => v.message <= k /\ Fresh(v) /\ OffSet(v, k)
    BY <1>6, <1>13, <2>3
  <2>7. /\ \A i \in Ons : i <= k /\ Sings(i) => \E v \in p.voices : v.message = i
        /\ p.firstNote = TRUE => \A i \in Ons : i > k
        /\ p.firstNote = FALSE => Ons # {} /\ p.begin = mCurrentSampleIndex + At(Min(Ons))
    BY <1>8, <1>13, <2>3
  <2>8. \E j \in 1..k : m_MessageList[j].type = "end"
    BY <1>2, <1>13
  <2> QED
    BY <2>3, <2>4, <2>5, <2>6, <2>7, <2>8 DEF ProcessedTo, p
<1> QED
  BY <1>2, <1>10, <1>11, <1>12, <1>13

LEMMA ProcessedUpTo ==
  ASSUME ListOk
  PROVE  \E processed :
           /\ InitVoices = processed[Len(m_MessageList)]
           /\ processed[0] = Unprocessed
           /\ \A k \in 1..Len(m_MessageList) : processed[k] = Process(processed[k - 1], k)
<1> DEFINE n == Len(m_MessageList)
           step(s, i) == The({Process(before, i) : before \in {s}})
           IsUpTo(f, k) == f = [i \in 0 .. k |-> IF i = 0 THEN Unprocessed ELSE step(f[i - 1], i)]
<1>0. n \in Nat
  BY DEF ListOk
<1>1. PICK processed : processed = CHOOSE f : IsUpTo(f, n)
  OBVIOUS
<1>2. InitVoices = processed[n]
  BY <1>1 DEF InitVoices
<1>3. \A k \in Nat : \E f : IsUpTo(f, k)
  <2> HIDE DEF step
  <2> DEFINE bad == {k \in Nat : ~\E f : IsUpTo(f, k)}
  <2> SUFFICES ASSUME bad # {} PROVE FALSE
    OBVIOUS
  <2>1. PICK k \in bad : \A l \in bad : ~(<<l, k>> \in OpToRel(<, Nat))
    BY NatLessThanWellFounded, WFMin, Zenon
  <2>2. k # 0
    <3>1. IsUpTo([i \in 0 .. 0 |-> Unprocessed], 0)
      OBVIOUS
    <3> QED
      BY <3>1
  <2>3. k - 1 \in Nat /\ k - 1 < k
    BY <2>2
  <2>4. k - 1 \notin bad
    BY <2>1, <2>3 DEF OpToRel
  <2>5. PICK f : IsUpTo(f, k - 1)
    BY <2>3, <2>4
  <2> DEFINE h == [i \in 0 .. k |-> IF i = k THEN step(f[k - 1], k) ELSE f[i]]
  <2>6. \A i \in 0 .. k - 1 : h[i] = f[i]
    BY <2>3
  <2>7. ASSUME NEW i \in 0 .. k
        PROVE  h[i] = IF i = 0 THEN Unprocessed ELSE step(h[i - 1], i)
    <3>1. CASE i = k
      <4>1. h[i] = step(f[k - 1], k)
        BY <3>1
      <4>2. k - 1 \in 0 .. k - 1
        BY <2>3
      <4>3. h[k - 1] = f[k - 1]
        BY <4>2, <2>6
      <4> QED
        BY <3>1, <4>1, <4>3, <2>2
    <3>2. CASE i # k
      <4>1. i \in 0 .. k - 1 /\ (i # 0 => i - 1 \in 0 .. k - 1)
        BY <3>2
      <4>2. f[i] = IF i = 0 THEN Unprocessed ELSE step(f[i - 1], i)
        BY <2>5, <4>1
      <4> QED
        BY <4>1, <4>2, <2>6
    <3> QED
      BY <3>1, <3>2
  <2>8. h = [i \in 0 .. k |-> h[i]]
    OBVIOUS
  <2> HIDE DEF h
  <2>9. IsUpTo(h, k)
    BY <2>7, <2>8
  <2> QED
    BY <2>9
<1>4. IsUpTo(processed, n)
  <2> HIDE DEF IsUpTo
  <2> QED
    BY <1>0, <1>1, <1>3, Zenon
<1>5. ASSUME NEW s, NEW i PROVE step(s, i) = Process(s, i)
  <2>1. {Process(before, i) : before \in {s}} = {Process(s, i)}
    OBVIOUS
  <2> QED
    BY <2>1, TheIs
<1>6. processed[0] = Unprocessed /\ \A k \in 1..n : processed[k] = step(processed[k - 1], k)
  <2> HIDE DEF step
  <2>1. \A i \in 0 .. n : processed[i] = IF i = 0 THEN Unprocessed ELSE step(processed[i - 1], i)
    BY <1>4
  <2> QED
    BY <1>0, <2>1
<1>7. \A k \in 1..n : processed[k] = Process(processed[k - 1], k)
  <2> HIDE DEF step, n
  <2> QED
    BY <1>5, <1>6
<1> QED
  BY <1>2, <1>6, <1>7

\* The voices of the whole song.
LEMMA VoicesMade ==
  ASSUME ListOk, mCurrentSampleIndex \in Nat, m_SongBeginSample \in Int, m_SongFinishSample \in Int,
         m_PlayerState = "INIT_VOICES", m_Voices \subseteq Voices,
         \A v \in m_Voices : v.message \notin Ons
  PROVE  ProcessedTo(InitVoices, Len(m_MessageList))
<1> DEFINE n == Len(m_MessageList)
<1>1. n \in Nat /\ DOMAIN m_MessageList = 1..n
  BY DEF ListOk
<1>2. PICK processed :
        /\ InitVoices = processed[n] /\ processed[0] = Unprocessed
        /\ \A k \in 1..n : processed[k] = Process(processed[k - 1], k)
  BY ProcessedUpTo
<1> HIDE DEF n
<1> DEFINE good == {k \in 0..n : ProcessedTo(processed[k], k)}
<1>3. 0 \in good
  <2>1. \A i \in Ons : i \in Nat /\ i > 0
    BY <1>1 DEF Ons
  <2>2. [c \in 0..15 |-> 0] \in [0..15 -> DOMAIN Tones]
    BY SequencerAssumption
  <2>3. PICK s : s = Unprocessed
    OBVIOUS
  <2>4. /\ s.channels = [c \in 0..15 |-> 0] /\ s.voices = m_Voices /\ s.firstNote = TRUE
        /\ s.state = "INIT_VOICES"
    BY <2>3 DEF Unprocessed
  <2>5. s \in Processes
    BY <2>2, <2>3 DEF Unprocessed, Processes, PlayerStates
  <2>6. \A c \in 0..15 : s.channels[c] = ProgramUpTo(c, 0)
    BY <2>4, FirstProgram
  <2>7. \A i \in Ons : ~(i <= 0)
    BY <2>1
  <2>8. ~\E j \in 1..0 : m_MessageList[j].type = "end"
    OBVIOUS
  <2>9. ProcessedTo(s, 0)
    BY <2>1, <2>4, <2>5, <2>6, <2>7, <2>8 DEF ProcessedTo
  <2> QED
    BY <1>1, <1>2, <2>3, <2>9
<1>4. ASSUME NEW k \in 1..n, k - 1 \in good PROVE k \in good
  <2>1. ProcessedTo(processed[k - 1], k - 1) /\ k \in DOMAIN m_MessageList
    BY <1>1, <1>4
  <2>2. ProcessedTo(Process(processed[k - 1], k), k)
    BY <2>1, ProcessStep
  <2> QED
    BY <1>1, <1>2, <2>2
<1>5. \A k \in 0..n : k \in good
  <2> HIDE DEF good
  <2> QED
    BY <1>1, <1>3, <1>4, UpTo
<1> QED
  BY <1>1, <1>2, <1>5 DEF n

-----------------------------------------------------------------------------
(* The frames of a voice *)

LEMMA ToneIs ==
  ASSUME NEW v \in Voices
  PROVE  /\ v.tone \in BankTones /\ v.tone.attack \in Nat \ {0} /\ v.tone.decay \in Nat
         /\ v.tone.sustain \in Nat /\ v.tone.release \in Nat \ {0} /\ v.tone.size \in Nat
         /\ v.tone.loop \in BOOLEAN /\ v.tone.pan \in {"left", "both", "right"}
<1>1. PICK p \in DOMAIN Tones : v.tone \in Tones[p]
  BY DEF Voices, AllTones
<1>2. v.tone \in BankTones
  BY <1>1, SequencerAssumption
<1> QED
  BY <1>2 DEF BankTones

LEMMA EnvelopedIs ==
  ASSUME NEW v \in Voices
  PROVE  \E adsr \in {"attack", "decay", "sustain", "release"}, level \in Int :
           Enveloped(v) = [v EXCEPT !.adsr = adsr, !.level = level]
<1>1. /\ v.level \in Int /\ v.adsr \in {"attack", "decay", "sustain", "release"}
      /\ v.on \in BOOLEAN
  BY DEF Voices
<1>2. /\ v.tone.attack \in Nat /\ v.tone.decay \in Nat /\ v.tone.sustain \in Nat
      /\ v.tone.release \in Nat
  BY ToneIs
<1>3. v = [v EXCEPT !.adsr = v.adsr, !.level = v.level]
  BY DEF Voices
<1>4. [v EXCEPT !.level = v.level - v.tone.release] =
        [v EXCEPT !.adsr = v.adsr, !.level = v.level - v.tone.release]
  BY DEF Voices
<1>5. [v EXCEPT !.adsr = "release"] = [v EXCEPT !.adsr = "release", !.level = v.level]
  BY DEF Voices
<1>6. [v EXCEPT !.level = FullLevel, !.adsr = "decay"] = [v EXCEPT !.adsr = "decay", !.level = FullLevel]
  BY DEF Voices
<1>7. [v EXCEPT !.level = v.level + v.tone.attack] =
        [v EXCEPT !.adsr = v.adsr, !.level = v.level + v.tone.attack]
  BY DEF Voices
<1>8. [v EXCEPT !.level = v.tone.sustain, !.adsr = "sustain"] =
        [v EXCEPT !.adsr = "sustain", !.level = v.tone.sustain]
  BY DEF Voices
<1>9. [v EXCEPT !.level = v.level - v.tone.decay] =
        [v EXCEPT !.adsr = v.adsr, !.level = v.level - v.tone.decay]
  BY DEF Voices
<1>10. FullLevel \in Int
  BY SequencerAssumption
<1>11. CASE v.adsr = "release"
  <2>1. Enveloped(v) = [v EXCEPT !.level = v.level - v.tone.release]
    BY <1>11 DEF Enveloped
  <2>2. v.level - v.tone.release \in Int
    BY <1>1, <1>2
  <2> QED
    BY <1>1, <1>4, <2>1, <2>2
<1>12. CASE v.adsr # "release" /\ ~v.on
  <2>1. Enveloped(v) = [v EXCEPT !.adsr = "release"]
    BY <1>12 DEF Enveloped
  <2> QED
    BY <1>1, <1>5, <2>1
<1>13. CASE v.adsr = "attack" /\ v.on
  <2>1. \/ Enveloped(v) = [v EXCEPT !.level = FullLevel, !.adsr = "decay"]
        \/ Enveloped(v) = [v EXCEPT !.level = v.level + v.tone.attack]
    BY <1>13 DEF Enveloped
  <2>2. v.level + v.tone.attack \in Int
    BY <1>1, <1>2
  <2> QED
    BY <1>1, <1>6, <1>7, <1>10, <2>1, <2>2
<1>14. CASE v.adsr = "decay" /\ v.on
  <2>1. \/ Enveloped(v) = [v EXCEPT !.level = v.tone.sustain, !.adsr = "sustain"]
        \/ Enveloped(v) = [v EXCEPT !.level = v.level - v.tone.decay]
    BY <1>14 DEF Enveloped
  <2>2. v.level - v.tone.decay \in Int /\ v.tone.sustain \in Int
    BY <1>1, <1>2
  <2> QED
    BY <1>1, <1>8, <1>9, <2>1, <2>2
<1>15. CASE v.adsr = "sustain" /\ v.on
  <2>1. Enveloped(v) = v
    BY <1>15 DEF Enveloped
  <2> QED
    BY <1>1, <1>3, <2>1
<1> QED
  BY <1>1, <1>11, <1>12, <1>13, <1>14, <1>15

\* What no frame changes.
SameNote(v, w) ==
  /\ w.message = v.message /\ w.tone = v.tone /\ w.rate = v.rate /\ w.program = v.program
  /\ w.note = v.note /\ w.ignoreLoops = v.ignoreLoops /\ w.usesOff = v.usesOff

LEMMA GetSampleIs ==
  ASSUME NEW v \in Voices
  PROVE  /\ GetSample(v) \in Voices /\ SameNote(v, GetSample(v))
         /\ GetSample(v).delay = v.delay /\ GetSample(v).offDelay = v.offDelay
         /\ GetSample(v).on = v.on
<1>1. PICK adsr \in {"attack", "decay", "sustain", "release"}, level \in Int :
        Enveloped(v) = [v EXCEPT !.adsr = adsr, !.level = level]
  BY EnvelopedIs
<1>2. PICK e : e = Enveloped(v)
  OBVIOUS
<1>3. /\ e \in Voices /\ SameNote(v, e) /\ e.delay = v.delay /\ e.offDelay = v.offDelay
      /\ e.on = v.on
  <2>1. e \in Voices
    BY <1>1, <1>2 DEF Voices
  <2>2. SameNote(v, e)
    BY <1>1, <1>2 DEF Voices, SameNote
  <2> QED
    BY <1>1, <1>2, <2>1, <2>2 DEF Voices
<1> DEFINE offset == v.offset + v.rate
           loops == v.tone.loop /\ ~v.ignoreLoops
           cut == ~loops /\ offset >= v.tone.size - 1
<1>4. PICK dead \in BOOLEAN : dead = (e.level <= 0 \/ cut)
  OBVIOUS
<1>5. PICK next \in Nat : next = IF loops /\ offset >= v.tone.size THEN 0 ELSE offset
  BY DEF Voices
<1>6. PICK out \in {"none", "left", "both", "right"} :
        out = IF e.level <= 0 \/ cut THEN "none" ELSE v.tone.pan
  BY ToneIs
<1>7. PICK g : g = GetSample(v) /\ g = [e EXCEPT !.dead = dead, !.offset = next, !.out = out]
  BY <1>2, <1>4, <1>5, <1>6 DEF GetSample
<1> HIDE DEF cut, loops, offset
<1>8. g \in Voices
  <2>1. PICK moved : moved = [e EXCEPT !.dead = dead, !.offset = next]
    OBVIOUS
  <2>2. moved \in Voices
    BY <1>3, <2>1 DEF Voices
  <2>3. g = [moved EXCEPT !.out = out]
    BY <1>3, <1>7, <2>1 DEF Voices
  <2> QED
    BY <2>2, <2>3 DEF Voices
<1>9. SameNote(e, g)
  BY <1>3, <1>7 DEF Voices, SameNote
<1>10. g.delay = e.delay /\ g.offDelay = e.offDelay /\ g.on = e.on
  BY <1>3, <1>7 DEF Voices
<1>11. SameNote(v, g)
  BY <1>3, <1>9 DEF SameNote
<1> QED
  BY <1>3, <1>7, <1>8, <1>10, <1>11

LEMMA RenderFrameIs ==
  ASSUME NEW v \in Voices
  PROVE  LET w == RenderFrame(v)
             offDelay == IF v.usesOff /\ v.offDelay > 0 THEN v.offDelay - 1 ELSE v.offDelay
         IN /\ w \in Voices /\ SameNote(v, w)
            /\ w.delay = IF v.delay < 0 THEN v.delay ELSE v.delay - 1
            /\ w.offDelay = offDelay
            /\ w.on <=> v.on /\ ~(v.usesOff /\ offDelay <= 0)
<1> DEFINE offDelay == IF v.usesOff /\ v.offDelay > 0 THEN v.offDelay - 1 ELSE v.offDelay
           delay == IF v.delay < 0 THEN v.delay ELSE v.delay - 1
<1>1. offDelay \in Int /\ delay \in Int
  BY DEF Voices
<1>2. PICK on \in BOOLEAN : on = (v.on /\ ~(v.usesOff /\ offDelay <= 0))
  OBVIOUS
<1>3. PICK w : w = [v EXCEPT !.delay = delay, !.offDelay = offDelay, !.on = on, !.out = "none"]
  OBVIOUS
<1>4. RenderFrame(v) = IF w.dead \/ w.delay > 0 THEN w ELSE GetSample(w)
  BY <1>2, <1>3 DEF RenderFrame
<1>5. on <=> v.on /\ ~(v.usesOff /\ offDelay <= 0)
  BY <1>2
<1> HIDE DEF offDelay, delay
<1>6. w \in Voices
  BY <1>1, <1>3 DEF Voices
<1>7. SameNote(v, w)
  BY <1>3 DEF Voices, SameNote
<1>8. w.delay = delay /\ w.offDelay = offDelay /\ w.on = on
  BY <1>3 DEF Voices
<1>9. PICK r : r = RenderFrame(v)
  OBVIOUS
<1>10. r \in Voices /\ SameNote(w, r) /\ r.delay = delay /\ r.offDelay = offDelay /\ r.on = on
  <2>1. CASE w.dead \/ w.delay > 0
    BY <1>4, <1>6, <1>8, <1>9, <2>1 DEF SameNote
  <2>2. CASE ~(w.dead \/ w.delay > 0)
    BY <1>4, <1>6, <1>8, <1>9, <2>2, GetSampleIs
  <2> QED
    BY <2>1, <2>2
<1>11. SameNote(v, r)
  BY <1>7, <1>10 DEF SameNote
<1> QED
  BY <1>5, <1>9, <1>10, <1>11 DEF offDelay, delay

\* The frames of a buffer follow from each other.
LEMMA RenderedIs ==
  ASSUME NEW v
  PROVE  /\ Rendered(v)[0] = v
         /\ \A k \in 1..BufferFrames : Rendered(v)[k] = RenderFrame(Rendered(v)[k - 1])
<1> DEFINE n == BufferFrames
           step(w, i) == The({RenderFrame(before) : before \in {w}})
           IsUpTo(f, k) == f = [i \in 0 .. k |-> IF i = 0 THEN v ELSE step(f[i - 1], i)]
<1>0. n \in Nat
  BY SequencerAssumption
<1>1. PICK voice : voice = CHOOSE f : IsUpTo(f, n)
  OBVIOUS
<1>2. Rendered(v) = voice
  BY <1>1 DEF Rendered
<1>3. \A k \in Nat : \E f : IsUpTo(f, k)
  <2> HIDE DEF step
  <2> DEFINE bad == {k \in Nat : ~\E f : IsUpTo(f, k)}
  <2> SUFFICES ASSUME bad # {} PROVE FALSE
    OBVIOUS
  <2>1. PICK k \in bad : \A l \in bad : ~(<<l, k>> \in OpToRel(<, Nat))
    BY NatLessThanWellFounded, WFMin, Zenon
  <2>2. k # 0
    <3>1. IsUpTo([i \in 0 .. 0 |-> v], 0)
      OBVIOUS
    <3> QED
      BY <3>1
  <2>3. k - 1 \in Nat /\ k - 1 < k
    BY <2>2
  <2>4. k - 1 \notin bad
    BY <2>1, <2>3 DEF OpToRel
  <2>5. PICK f : IsUpTo(f, k - 1)
    BY <2>3, <2>4
  <2> DEFINE h == [i \in 0 .. k |-> IF i = k THEN step(f[k - 1], k) ELSE f[i]]
  <2>6. \A i \in 0 .. k - 1 : h[i] = f[i]
    BY <2>3
  <2>7. ASSUME NEW i \in 0 .. k
        PROVE  h[i] = IF i = 0 THEN v ELSE step(h[i - 1], i)
    <3>1. CASE i = k
      <4>1. h[i] = step(f[k - 1], k)
        BY <3>1
      <4>2. k - 1 \in 0 .. k - 1
        BY <2>3
      <4>3. h[k - 1] = f[k - 1]
        BY <4>2, <2>6
      <4> QED
        BY <3>1, <4>1, <4>3, <2>2
    <3>2. CASE i # k
      <4>1. i \in 0 .. k - 1 /\ (i # 0 => i - 1 \in 0 .. k - 1)
        BY <3>2
      <4>2. f[i] = IF i = 0 THEN v ELSE step(f[i - 1], i)
        BY <2>5, <4>1
      <4> QED
        BY <4>1, <4>2, <2>6
    <3> QED
      BY <3>1, <3>2
  <2>8. h = [i \in 0 .. k |-> h[i]]
    OBVIOUS
  <2> HIDE DEF h
  <2>9. IsUpTo(h, k)
    BY <2>7, <2>8
  <2> QED
    BY <2>9
<1>4. IsUpTo(voice, n)
  <2> HIDE DEF IsUpTo
  <2> QED
    BY <1>0, <1>1, <1>3, Zenon
<1>5. ASSUME NEW w, NEW i PROVE step(w, i) = RenderFrame(w)
  <2>1. {RenderFrame(before) : before \in {w}} = {RenderFrame(w)}
    OBVIOUS
  <2> QED
    BY <2>1, TheIs
<1>6. voice[0] = v /\ \A k \in 1..n : voice[k] = step(voice[k - 1], k)
  <2> HIDE DEF step
  <2>1. \A i \in 0 .. n : voice[i] = IF i = 0 THEN v ELSE step(voice[i - 1], i)
    BY <1>4
  <2> QED
    BY <1>0, <2>1
<1>7. \A k \in 1..n : voice[k] = RenderFrame(voice[k - 1])
  <2> HIDE DEF step, n
  <2> QED
    BY <1>5, <1>6
<1> QED
  BY <1>2, <1>6, <1>7

LEMMA RenderedAre ==
  ASSUME NEW v \in Voices
  PROVE  \A k \in 0..BufferFrames : Rendered(v)[k] \in Voices /\ SameNote(v, Rendered(v)[k])
<1> DEFINE good == {k \in 0..BufferFrames : Rendered(v)[k] \in Voices /\ SameNote(v, Rendered(v)[k])}
<1>1. BufferFrames \in Nat
  BY SequencerAssumption
<1>2. 0 \in good
  BY <1>1, RenderedIs DEF SameNote
<1>3. ASSUME NEW k \in 1..BufferFrames, k - 1 \in good PROVE k \in good
  <2>1. PICK w \in Voices : w = Rendered(v)[k - 1]
    BY <1>3
  <2>2. SameNote(v, w)
    BY <1>3, <2>1
  <2>3. Rendered(v)[k] = RenderFrame(w)
    BY <2>1, RenderedIs
  <2>4. RenderFrame(w) \in Voices /\ SameNote(w, RenderFrame(w))
    BY RenderFrameIs
  <2>5. SameNote(v, RenderFrame(w))
    BY <2>2, <2>4 DEF SameNote
  <2> QED
    BY <1>1, <2>3, <2>4, <2>5
<1>4. \A k \in 0..BufferFrames : k \in good
  <2> HIDE DEF good
  <2> QED
    BY <1>1, <1>2, <1>3, UpTo
<1> QED
  BY <1>4

\* A voice whose key goes up after frame T, n frames after it was made.
UpAfter(v, T, n) ==
  /\ v.usesOff = TRUE /\ v.offDelay = (IF n < T THEN T - n ELSE 0) /\ (v.on = TRUE <=> n < T)

LEMMA FrameInTime ==
  ASSUME NEW v \in Voices, NEW T \in Nat, NEW n \in Nat, UpAfter(v, T, n)
  PROVE  UpAfter(RenderFrame(v), T, n + 1)
<1> DEFINE offDelay == IF v.usesOff /\ v.offDelay > 0 THEN v.offDelay - 1 ELSE v.offDelay
<1>1. PICK w : w = RenderFrame(v)
  OBVIOUS
<1>2. /\ w \in Voices /\ w.usesOff = v.usesOff /\ w.offDelay = offDelay
      /\ w.on <=> v.on /\ ~(v.usesOff /\ offDelay <= 0)
  BY <1>1, RenderFrameIs DEF SameNote
<1>3. /\ v.usesOff = TRUE /\ v.offDelay = (IF n < T THEN T - n ELSE 0) /\ (v.on = TRUE <=> n < T)
  BY DEF UpAfter
<1>4. offDelay = (IF n + 1 < T THEN T - (n + 1) ELSE 0)
  BY <1>3
<1>5. w.on \in BOOLEAN /\ v.on \in BOOLEAN
  BY <1>2 DEF Voices
<1>6. w.on = TRUE <=> n + 1 < T
  BY <1>2, <1>3, <1>4, <1>5
<1> QED
  BY <1>1, <1>2, <1>3, <1>4, <1>6 DEF UpAfter

LEMMA BufferInTime ==
  ASSUME NEW v \in Voices, NEW T \in Nat, NEW n \in Nat, UpAfter(v, T, n)
  PROVE  UpAfter(Rendered(v)[BufferFrames], T, n + BufferFrames)
<1> DEFINE good == {k \in 0..BufferFrames : UpAfter(Rendered(v)[k], T, n + k)}
<1>1. BufferFrames \in Nat
  BY SequencerAssumption
<1>2. 0 \in good
  BY <1>1, RenderedIs
<1>3. ASSUME NEW k \in 1..BufferFrames, k - 1 \in good PROVE k \in good
  <2>1. k \in 0..BufferFrames /\ k - 1 \in 0..BufferFrames /\ n + (k - 1) \in Nat
    BY <1>1
  <2>2. PICK w \in Voices : w = Rendered(v)[k - 1]
    BY <2>1, RenderedAre
  <2>3. UpAfter(w, T, n + (k - 1))
    BY <1>3, <2>2
  <2>4. UpAfter(RenderFrame(w), T, n + (k - 1) + 1)
    BY <2>1, <2>3, FrameInTime
  <2>5. n + (k - 1) + 1 = n + k
    BY <2>1
  <2>6. Rendered(v)[k] = RenderFrame(w)
    BY <2>2, RenderedIs
  <2>7. UpAfter(Rendered(v)[k], T, n + k)
    BY <2>4, <2>5, <2>6
  <2> QED
    BY <2>1, <2>7
<1>4. \A k \in 0..BufferFrames : k \in good
  <2> HIDE DEF good
  <2> QED
    BY <1>1, <1>2, <1>3, UpTo
<1> QED
  BY <1>1, <1>4

-----------------------------------------------------------------------------
(* The player *)

\* A note's own end.
LEMMA OffIs ==
  ASSUME ListOk, NEW i \in Ons, IsProper(i)
  PROVE  /\ OffOf(i) \in DOMAIN m_MessageList /\ OffOf(i) \in Nat /\ i \in Nat /\ i < OffOf(i)
         /\ At(i) \in Nat /\ At(OffOf(i)) \in Nat /\ At(i) + 2 <= At(OffOf(i))
         /\ Ends(i, OffOf(i)) /\ \A j \in i + 1..OffOf(i) - 1 : ~Ends(i, j)
<1>1. i \in DOMAIN m_MessageList
  BY DEF Ons
<1>2. OffsOf(i) \subseteq Nat /\ OffsOf(i) \subseteq DOMAIN m_MessageList
  BY DEF OffsOf, ListOk
<1>3. OffsOf(i) # {} /\ m_MessageList[OffOf(i)].time > m_MessageList[i].time
  BY DEF IsProper
<1>4. OffOf(i) \in OffsOf(i)
  BY <1>2, <1>3, FirstIs DEF OffOf
<1>5. OffOf(i) \in DOMAIN m_MessageList /\ OffOf(i) \in Nat /\ i \in Nat
  BY <1>1, <1>2, <1>4, MessageIs
<1>6. /\ OffOf(i) > i /\ m_MessageList[OffOf(i)].type = "off"
      /\ m_MessageList[OffOf(i)].data = m_MessageList[i].data
  BY <1>4 DEF OffsOf
<1>7. ProgramAt(OffOf(i)) = ProgramAt(i)
  BY DEF IsProper
<1>8. Ends(i, OffOf(i))
  BY <1>3, <1>6, <1>7 DEF Ends, SameKey
<1>9. \A j \in i + 1..OffOf(i) - 1 : ~Ends(i, j)
  BY DEF IsProper, Ends
<1>10. m_MessageList[i].time \in Nat /\ m_MessageList[OffOf(i)].time \in Nat
  BY <1>1, <1>5, MessageIs
<1>11. At(i) \in Nat /\ At(OffOf(i)) \in Nat /\ At(i) + 2 <= At(OffOf(i))
  BY <1>3, <1>10, SampleTimes DEF At
<1> QED
  BY <1>5, <1>6, <1>8, <1>9, <1>11

LEMMA MadeInTime ==
  ASSUME ListOk, NEW v \in Voices, v.message \in Ons, IsProper(v.message),
         Fresh(v), OffSet(v, Len(m_MessageList))
  PROVE  UpAfter(v, At(OffOf(v.message)), 0)
<1> DEFINE i == v.message
           off == OffOf(i)
<1>1. /\ off \in 1..Len(m_MessageList) /\ i \in Nat /\ i < off /\ At(i) \in Nat
      /\ At(off) \in Nat /\ At(i) + 2 <= At(off)
      /\ Ends(i, off) /\ \A j \in i + 1..off - 1 : ~Ends(i, j)
  BY OffIs DEF ListOk
<1>2. Len(m_MessageList) \in Nat
  BY DEF ListOk
<1>3. off \in i + 1..Len(m_MessageList)
  BY <1>1, <1>2
<1> HIDE DEF off
<1>4. v.usesOff = TRUE
  BY <1>1, <1>3 DEF OffSet
<1>5. PICK j \in i + 1..Len(m_MessageList) :
        /\ Ends(i, j) /\ v.offDelay = At(j) /\ \A l \in i + 1..j - 1 : ~Ends(i, l)
  BY <1>4 DEF OffSet
<1>6. j = off
  <2>1. ~(j < off)
    BY <1>1, <1>2, <1>5
  <2>2. ~(off < j)
    BY <1>1, <1>2, <1>3, <1>5
  <2> QED
    BY <1>1, <1>2, <2>1, <2>2
<1>7. v.on = TRUE
  BY DEF Fresh
<1>8. UpAfter(v, At(off), 0)
  BY <1>1, <1>4, <1>5, <1>6, <1>7 DEF UpAfter
<1> QED
  BY <1>8 DEF off

VoicesInTime ==
  \A v \in m_Voices : v.message \in Ons =>
    /\ m_PlayerState # "INIT_VOICES" /\ Elapsed \in Nat
    /\ IsProper(v.message) => UpAfter(v, At(OffOf(v.message)), Elapsed)

SongInv ==
  /\ ListOk /\ m_Voices \subseteq Voices /\ mCurrentSampleIndex \in Nat
  /\ m_SongBeginSample \in Int /\ m_SongFinishSample \in Int /\ m_PlayerState \in PlayerStates
  /\ VoicesInTime

LEMMA SameSong ==
  ASSUME m_MessageList' = m_MessageList
  PROVE  /\ Ons' = Ons
         /\ \A i : /\ At(i)' = At(i) /\ OffOf(i)' = OffOf(i) /\ (IsProper(i)' <=> IsProper(i))
                  /\ (Sings(i)' <=> Sings(i))
         /\ ListOk' <=> ListOk
<1>1. Ons' = Ons
  BY DEF Ons
<1>2. \A i : At(i)' = At(i)
  BY DEF At
<1>3. \A i : OffsOf(i)' = OffsOf(i)
  BY DEF OffsOf
<1>4. \A i : OffOf(i)' = OffOf(i)
  BY <1>3 DEF OffOf
<1>5. \A i : ProgramAt(i)' = ProgramAt(i)
  BY DEF ProgramAt
<1>6. \A i, j : SameKey(i, j)' <=> SameKey(i, j)
  BY <1>5 DEF SameKey
<1>7. \A i : IsProper(i)' <=> IsProper(i)
  BY <1>3, <1>4, <1>5, <1>6 DEF IsProper
<1>8. \A i : Sings(i)' <=> Sings(i)
  BY <1>5 DEF Sings
<1>9. ListOk' <=> ListOk
  BY DEF ListOk
<1> QED
  BY <1>1, <1>2, <1>4, <1>7, <1>8, <1>9

LEMMA RenderStep == ASSUME SongInv, AliveRenderAudio PROVE SongInv'
<1>1. /\ \A w \in m_Voices' : \E v \in m_Voices : w = Rendered(v)[BufferFrames]
      /\ mCurrentSampleIndex' = mCurrentSampleIndex + BufferFrames
      /\ UNCHANGED <<m_MessageList, m_PlayerState, m_SongBeginSample, m_SongFinishSample>>
  BY DEF AliveRenderAudio, sequenceVars
<1>2. BufferFrames \in Nat /\ mCurrentSampleIndex \in Nat /\ m_SongBeginSample \in Int
  BY SequencerAssumption DEF SongInv
<1>3. /\ Ons' = Ons /\ ListOk'
      /\ \A i : At(i)' = At(i) /\ OffOf(i)' = OffOf(i) /\ (IsProper(i)' <=> IsProper(i))
  BY <1>1, SameSong DEF SongInv
<1>4. ASSUME NEW w \in m_Voices' PROVE w \in Voices
  <2>1. PICK v \in m_Voices : w = Rendered(v)[BufferFrames]
    BY <1>1
  <2>2. v \in Voices /\ BufferFrames \in 0..BufferFrames
    BY <1>2 DEF SongInv
  <2> QED
    BY <2>1, <2>2, RenderedAre
<1>5. VoicesInTime'
  <2> SUFFICES ASSUME NEW w \in m_Voices', w.message \in Ons
               PROVE  /\ m_PlayerState' # "INIT_VOICES" /\ Elapsed' \in Nat
                      /\ IsProper(w.message)' => UpAfter(w, At(OffOf(w.message)), Elapsed')
    <3>1. \A i : At(OffOf(i))' = At(OffOf(i))
      BY <1>1 DEF At, OffOf, OffsOf
    <3> QED
      BY <1>3, <3>1 DEF VoicesInTime, UpAfter
  <2>1. PICK v \in m_Voices : w = Rendered(v)[BufferFrames]
    BY <1>1
  <2>2. v \in Voices /\ BufferFrames \in 0..BufferFrames
    BY <1>2 DEF SongInv
  <2>3. w.message = v.message
    BY <2>1, <2>2, RenderedAre DEF SameNote
  <2>4. /\ m_PlayerState # "INIT_VOICES" /\ Elapsed \in Nat
        /\ IsProper(v.message) => UpAfter(v, At(OffOf(v.message)), Elapsed)
    BY <2>3 DEF SongInv, VoicesInTime
  <2>5. Elapsed' = Elapsed + BufferFrames
    <3>1. PICK first : first = MidiTimeToSample(m_MessageList[Min(Ons)].time)
      OBVIOUS
    <3>2. first \in Nat
      <4>1. Ons \subseteq Nat /\ Ons # {}
        BY MessageIs DEF Ons, SongInv
      <4>2. Min(Ons) \in DOMAIN m_MessageList
        BY <4>1, FirstIs DEF Ons
      <4> QED
        BY <3>1, <4>2, MessageIs DEF SongInv, At
    <3>3. MidiTimeToSample(m_MessageList[Min(Ons)].time)' = first
      BY <1>1, <1>3, <3>1 DEF MidiTimeToSample
    <3>4. /\ Elapsed = mCurrentSampleIndex - m_SongBeginSample + first
          /\ Elapsed' = mCurrentSampleIndex + BufferFrames - m_SongBeginSample + first
      BY <1>1, <1>2, <3>1, <3>2, <3>3 DEF Elapsed
    <3> QED
      BY <1>2, <3>2, <3>4
  <2>6. ASSUME IsProper(v.message) PROVE UpAfter(w, At(OffOf(v.message)), Elapsed + BufferFrames)
    <3>1. At(OffOf(v.message)) \in Nat
      BY <2>3, <2>6, OffIs DEF SongInv
    <3> QED
      BY <2>1, <2>2, <2>4, <2>6, <3>1, BufferInTime
  <2>7. IsProper(w.message)' <=> IsProper(v.message)
    BY <1>3, <2>3
  <2> QED
    BY <1>1, <1>2, <2>3, <2>4, <2>5, <2>6, <2>7
<1> QED
  BY <1>1, <1>2, <1>3, <1>4, <1>5 DEF SongInv

LEMMA SequenceStep ==
  ASSUME SongInv, NEW next, SequenceUpdate(next) PROVE SongInv'
<1>1. UNCHANGED <<m_MessageList, mCurrentSampleIndex>>
  BY DEF SequenceUpdate
<1>2. /\ Ons' = Ons /\ ListOk'
      /\ \A i : At(i)' = At(i) /\ OffOf(i)' = OffOf(i) /\ (IsProper(i)' <=> IsProper(i))
  BY <1>1, SameSong DEF SongInv
<1>3. \A i : At(OffOf(i))' = At(OffOf(i))
  BY <1>1 DEF At, OffOf, OffsOf
<1>4. CASE m_PlayerState # "INIT_VOICES"
  <2>1. /\ m_Voices' = m_Voices /\ UNCHANGED <<m_SongBeginSample, m_SongFinishSample>>
        /\ m_PlayerState' \in {"FINISHED", m_PlayerState}
    BY <1>4 DEF SequenceUpdate
  <2>2. Elapsed' = Elapsed
    BY <1>1, <1>2, <2>1 DEF Elapsed, MidiTimeToSample
  <2>3. VoicesInTime'
    BY <1>2, <1>3, <1>4, <2>1, <2>2 DEF SongInv, VoicesInTime, UpAfter
  <2> QED
    BY <1>1, <1>2, <2>1, <2>3 DEF SongInv, PlayerStates
<1>5. CASE m_PlayerState = "INIT_VOICES"
  <2>1. PICK s : s = InitVoices
    OBVIOUS
  <2>2. /\ m_Voices' = s.voices /\ m_SongBeginSample' = s.begin /\ m_SongFinishSample' = s.finish
        /\ m_PlayerState' \in {"FINISHED", s.state}
        /\ s.state # "PLAYING" => m_PlayerState' = s.state
    BY <1>5, <2>1 DEF SequenceUpdate
  <2>3. \A v \in m_Voices : v.message \notin Ons
    BY <1>5 DEF SongInv, VoicesInTime
  <2>4. ProcessedTo(s, Len(m_MessageList))
    BY <1>5, <2>1, <2>3, VoicesMade DEF SongInv
  <2>5. s \in Processes
    BY <2>4 DEF ProcessedTo
  <2>6. /\ m_Voices' \subseteq Voices /\ m_SongBeginSample' \in Int /\ m_SongFinishSample' \in Int
        /\ m_PlayerState' \in PlayerStates
    BY <2>2, <2>5 DEF Processes, PlayerStates
  <2>7. Len(m_MessageList) \in Nat /\ DOMAIN m_MessageList = 1..Len(m_MessageList)
    BY DEF SongInv, ListOk
  <2>8. ASSUME NEW v \in m_Voices', v.message \in Ons
        PROVE  /\ m_PlayerState' # "INIT_VOICES" /\ Elapsed' = 0
               /\ IsProper(v.message)' => UpAfter(v, At(OffOf(v.message)), 0)
    <3>1. v.message \in DOMAIN m_MessageList
      BY <2>8 DEF Ons
    <3>2. m_MessageList # <<>>
      BY <2>7, <3>1
    <3>3. HasEnd(m_MessageList)
      BY <3>2 DEF SongInv, ListOk
    <3>4. s.state = "PLAYING"
      BY <2>4, <2>7, <3>3 DEF ProcessedTo, HasEnd
    <3>5. v \in s.voices /\ v \in Voices
      BY <2>2, <2>6
    <3>6. v.message <= Len(m_MessageList) /\ Fresh(v) /\ OffSet(v, Len(m_MessageList))
      BY <2>4, <2>8, <3>5 DEF ProcessedTo
    <3>7. IsProper(v.message)' => UpAfter(v, At(OffOf(v.message)), 0)
      BY <1>2, <2>8, <3>5, <3>6, MadeInTime DEF SongInv
    <3>8. s.firstNote = FALSE
      <4>1. v.message \in Nat
        BY <3>5 DEF Voices
      <4>2. ~(v.message > Len(m_MessageList))
        BY <2>7, <3>6, <4>1
      <4>3. s.firstNote # TRUE
        BY <2>4, <2>8, <4>2 DEF ProcessedTo
      <4> QED
        BY <2>5, <4>3 DEF Processes
    <3>9. m_SongBeginSample' = mCurrentSampleIndex + At(Min(Ons))
      BY <2>2, <2>4, <3>8 DEF ProcessedTo
    <3>10. PICK first \in Nat : first = At(Min(Ons))
      <4>1. Ons \subseteq Nat /\ Ons # {}
        BY <2>8, MessageIs DEF Ons, SongInv
      <4>2. Min(Ons) \in DOMAIN m_MessageList
        BY <4>1, FirstIs DEF Ons
      <4> QED
        BY <4>2, MessageIs DEF SongInv
    <3>11. Elapsed' = mCurrentSampleIndex - (mCurrentSampleIndex + first) + first
      <4>1. MidiTimeToSample(m_MessageList[Min(Ons)].time)' = first
        BY <1>1, <1>2, <3>10 DEF At, MidiTimeToSample
      <4> QED
        BY <1>1, <3>9, <3>10, <4>1 DEF Elapsed
    <3>12. Elapsed' = 0
      BY <3>11 DEF SongInv
    <3> QED
      BY <2>2, <3>4, <3>7, <3>12
  <2>9. VoicesInTime'
    <3>1. \A v \in m_Voices' : v.message \in Ons =>
            /\ m_PlayerState' # "INIT_VOICES" /\ Elapsed' \in Nat
            /\ IsProper(v.message)' => UpAfter(v, At(OffOf(v.message)), Elapsed')
      BY <2>8
    <3> QED
      BY <1>2, <1>3, <3>1 DEF VoicesInTime, UpAfter
  <2> QED
    BY <1>1, <1>2, <2>6, <2>9 DEF SongInv
<1> QED
  BY <1>4, <1>5

\* A single shot: the voices of one note, of no message of a list.
ShotMade(d) ==
  m_Voices = NewVoices(Songs[song].program, Songs[song].note, 0, Rate[Songs[song].note] + d, TRUE, 1)

LEMMA SongInit == ASSUME SequencerInit PROVE SongInv
<1>1. /\ song \in DOMAIN Songs /\ mCurrentSampleIndex = 0 /\ m_SongBeginSample = 0 /\ m_SongFinishSample = 0
  BY DEF SequencerInit
<1>2. CASE Songs[song].kind = "seq"
  <2>1. PICK events : events = Songs[song].events
    OBVIOUS
  <2>2. /\ m_MessageList = LoadSequenceStream(events)
        /\ m_PlayerState = "INIT_VOICES" /\ m_Voices = {}
    BY <1>2, <2>1 DEF SequencerInit
  <2>3. /\ events \in Seq(SequenceEvents) \ {<<>>}
        /\ events[1].status = <<>> \/ Last(events).status \in {"end"} \X (0..15)
    BY <1>1, <1>2, <2>1, SequencerAssumption
  <2>4. m_MessageList \in Seq(Messages) /\ (m_MessageList = <<>> \/ HasEnd(m_MessageList))
    BY <2>2, <2>3, ListOf
  <2>5. \A m \in Range(m_MessageList) :
          /\ m.type = "program" => m.data \in DOMAIN Tones
          /\ m.type = "on" => m.data \in DOMAIN Rate
    BY <1>1, <1>2, <2>1, <2>2, SongsFitBank
  <2>6. \A i \in DOMAIN m_MessageList : m_MessageList[i] \in Range(m_MessageList)
    BY Zenon DEF Range
  <2>7. ListOk
    BY <2>4, <2>5, <2>6 DEF ListOk
  <2> QED
    BY <1>1, <2>2, <2>7 DEF SongInv, VoicesInTime, PlayerStates
<1>3. CASE Songs[song].kind # "seq"
  <2>1. /\ m_MessageList = <<>> /\ m_PlayerState = "FINISHED"
        /\ \E d \in Pitches : ShotMade(d)
    BY <1>3 DEF SequencerInit, ShotMade
  <2>2. PICK d \in Pitches : ShotMade(d)
    BY <2>1
  <2>3. PICK program \in DOMAIN Tones : program = Songs[song].program
    BY <1>1, <1>3, SequencerAssumption
  <2>4. PICK note \in Nat : note = Songs[song].note /\ note \in DOMAIN Rate
    BY <1>1, <1>3, SequencerAssumption
  <2>5. PICK rate \in Nat : rate = Rate[note] + d
    <3>1. Rate[note] \in Nat /\ d \in Nat
      BY <2>2, <2>4, SequencerAssumption
    <3> QED
      BY <3>1
  <2>6. m_Voices = NewVoices(program, note, 0, rate, TRUE, 1)
    BY <2>2, <2>3, <2>4, <2>5 DEF ShotMade
  <2>7. m_Voices \subseteq Voices
    BY <2>6, NewVoicesAre
  <2>8. ListOk
    BY <2>1 DEF ListOk
  <2>9. Ons = {}
    BY <2>1 DEF Ons
  <2> QED
    BY <1>1, <2>1, <2>7, <2>8, <2>9 DEF SongInv, VoicesInTime, PlayerStates
<1> QED
  BY <1>2, <1>3

LEMMA ToneVoices ==
  ASSUME NEW q \in DOMAIN Tones, NEW t \in Tones[q]
  PROVE  /\ NewVoices(q, t.min, 0, Rate[t.min], FALSE, 0) \subseteq Voices
         /\ \A v \in NewVoices(q, t.min, 0, Rate[t.min], FALSE, 0) : v.message = 0
<1>1. PICK note \in Nat : note = t.min /\ note \in DOMAIN Rate
  BY SequencerAssumption
<1>2. PICK rate \in Nat : rate = Rate[note]
  BY <1>1, SequencerAssumption
<1>3. NewVoices(q, note, 0, rate, FALSE, 0) \subseteq Voices
  BY NewVoicesAre
<1>4. \A v \in NewVoices(q, note, 0, rate, FALSE, 0) : IsNew(v, q, note, 0, rate, FALSE, 0)
  BY NewVoicesAre
<1> QED
  BY <1>1, <1>2, <1>3, <1>4 DEF IsNew

LEMMA SongStep == ASSUME SongInv, [SequencerNext]_sequencerVars PROVE SongInv'
<1>1. ASSUME UNCHANGED <<m_MessageList, m_PlayerState, mCurrentSampleIndex, m_SongBeginSample,
                         m_SongFinishSample, m_Voices>>
      PROVE  SongInv'
  <2>1. /\ Ons' = Ons /\ ListOk'
        /\ \A i : At(i)' = At(i) /\ OffOf(i)' = OffOf(i) /\ (IsProper(i)' <=> IsProper(i))
    BY <1>1, SameSong DEF SongInv
  <2>2. \A i : At(OffOf(i))' = At(OffOf(i))
    BY <1>1 DEF At, OffOf, OffsOf
  <2>3. Elapsed' = Elapsed
    BY <1>1, <2>1 DEF Elapsed, MidiTimeToSample
  <2>4. VoicesInTime'
    BY <1>1, <2>1, <2>2, <2>3 DEF SongInv, VoicesInTime, UpAfter
  <2> QED
    BY <1>1, <2>1, <2>4 DEF SongInv
<1>2. CASE ConvertUpdate
  BY <1>2, SequenceStep DEF ConvertUpdate
<1>3. CASE ConvertPlay
  BY <1>3, RenderStep DEF ConvertPlay
<1>4. CASE ConvertConsume
  BY <1>1, <1>4 DEF ConvertConsume, sequenceVars
<1>5. CASE CancelConversion
  BY <1>1, <1>5 DEF CancelConversion, sequenceVars
<1>6. CASE PlayerErased
  BY <1>1, <1>6 DEF PlayerErased, sequenceVars
<1>7. CASE PlayerUpdate
  BY <1>7, SequenceStep DEF PlayerUpdate
<1>8. CASE PlayerPlay
  BY <1>8, RenderStep DEF PlayerPlay
<1>9. CASE StopSequence
  <2>1. /\ m_Voices' = {} /\ m_PlayerState' = "STOPPED"
        /\ UNCHANGED <<m_MessageList, mCurrentSampleIndex, m_SongBeginSample, m_SongFinishSample>>
    BY <1>9 DEF StopSequence
  <2>2. ListOk'
    BY <2>1, SameSong DEF SongInv
  <2> QED
    BY <2>1, <2>2 DEF SongInv, VoicesInTime, PlayerStates
<1>10. CASE PlayTone
  <2>1. PICK q \in DOMAIN Tones : \E t \in Tones[q] :
          m_Voices' = NewVoices(q, t.min, 0, Rate[t.min], FALSE, 0)
    BY <1>10 DEF PlayTone
  <2>2. PICK t \in Tones[q] : m_Voices' = NewVoices(q, t.min, 0, Rate[t.min], FALSE, 0)
    BY <2>1
  <2>3. UNCHANGED <<m_MessageList, mCurrentSampleIndex, m_SongBeginSample, m_SongFinishSample,
                    m_PlayerState>>
    BY <1>10 DEF PlayTone, sequenceVars
  <2>4. ListOk' /\ Ons' = Ons
    BY <2>3, SameSong DEF SongInv
  <2>5. 0 \notin Ons
    BY MessageIs DEF Ons, SongInv
  <2>6. m_Voices' \subseteq Voices /\ \A v \in m_Voices' : v.message = 0
    BY <2>2, ToneVoices
  <2> QED
    BY <2>3, <2>4, <2>5, <2>6 DEF SongInv, VoicesInTime
<1>11. CASE UNCHANGED sequencerVars
  BY <1>1, <1>11 DEF sequencerVars, sequenceVars
<1> QED
  BY <1>2, <1>3, <1>4, <1>5, <1>6, <1>7, <1>8, <1>9, <1>10, <1>11 DEF SequencerNext, ConvertStep

LEMMA SongInvHolds == SequencerSpec => []SongInv
<1>1. SequencerInit => SongInv
  BY SongInit
<1>2. SongInv /\ [SequencerNext]_sequencerVars => SongInv'
  BY SongStep
<1> QED
  BY <1>1, <1>2, PTL DEF SequencerSpec

(* Whatever the song and the bank, the key of a note with a length, that   *)
(* ends in its program and that no other channel lets go, is up exactly    *)
(* from the time of its own note-off (AliveAudio::NoteOffDelay).           *)
THEOREM KeysOnTime == SequencerSpec => []KeysGoUpOnTime
<1>1. SongInv => KeysGoUpOnTime
  <2> SUFFICES ASSUME SongInv, NEW v \in m_Voices, v.message \in Ons, IsProper(v.message)
               PROVE  v.on <=> Elapsed < MidiTimeToSample(m_MessageList[OffOf(v.message)].time)
    BY DEF KeysGoUpOnTime
  <2>1. UpAfter(v, At(OffOf(v.message)), Elapsed)
    BY DEF SongInv, VoicesInTime
  <2>2. v.on \in BOOLEAN
    BY DEF SongInv, Voices
  <2> QED
    BY <2>1, <2>2 DEF UpAfter, At
<1> QED
  BY <1>1, SongInvHolds, PTL

-----------------------------------------------------------------------------
(* The notes that are heard *)

\* The largest of some numbers that are not above n.
LEMMA LargestIs ==
  ASSUME NEW S, S \subseteq Nat, S # {}, NEW n \in Nat, \A k \in S : k <= n
  PROVE  Max(S) \in S /\ \A k \in S : k <= Max(S)
<1> DEFINE below == {n - k : k \in S}
<1>1. below \subseteq Nat /\ below # {}
  <2>1. \A k \in S : n - k \in Nat
    OBVIOUS
  <2>2. PICK k \in S : TRUE
    OBVIOUS
  <2>3. n - k \in below
    BY <2>2
  <2> QED
    BY <2>1, <2>3
<1>2. Min(below) \in below /\ \A d \in below : Min(below) <= d
  <2> HIDE DEF below
  <2> QED
    BY <1>1, FirstIs
<1>3. PICK k \in S : Min(below) = n - k
  BY <1>2
<1>4. \A l \in S : l <= k
  <2> TAKE l \in S
  <2>1. n - l \in below
    OBVIOUS
  <2>2. n - k <= n - l
    BY <1>2, <1>3, <2>1
  <2> QED
    BY <2>2
<1>5. S \subseteq Int
  OBVIOUS
<1>6. Max(S) = k
  BY <1>4, <1>5, Largest
<1> QED
  BY <1>4, <1>6

\* A voice that will be heard before its key goes up.
Waiting(v) ==
  /\ v.on = TRUE /\ v.dead = FALSE /\ v.adsr = "attack" /\ v.level = 0 /\ v.offset = 0
  /\ v.delay >= 0 /\ v.rate < v.tone.size - 1 /\ (v.usesOff = TRUE => v.offDelay >= v.delay + 2)

\* The end of a frame of a voice that is played.
LEMMA SampleIs ==
  ASSUME NEW v \in Voices
  PROVE  \E e \in Voices :
           /\ e = Enveloped(v)
           /\ LET offset == v.offset + v.rate
                  loops == v.tone.loop /\ ~v.ignoreLoops
                  cut == ~loops /\ offset >= v.tone.size - 1
              IN /\ GetSample(v).dead = TRUE <=> e.level <= 0 \/ cut
                 /\ GetSample(v).offset = (IF loops /\ offset >= v.tone.size THEN 0 ELSE offset)
                 /\ GetSample(v).out = IF e.level <= 0 \/ cut THEN "none" ELSE v.tone.pan
                 /\ GetSample(v).adsr = e.adsr /\ GetSample(v).level = e.level
<1>1. PICK adsr \in {"attack", "decay", "sustain", "release"}, level \in Int :
        Enveloped(v) = [v EXCEPT !.adsr = adsr, !.level = level]
  BY EnvelopedIs
<1>2. PICK e : e = Enveloped(v)
  OBVIOUS
<1>3. e \in Voices
  BY <1>1, <1>2 DEF Voices
<1> DEFINE offset == v.offset + v.rate
           loops == v.tone.loop /\ ~v.ignoreLoops
           cut == ~loops /\ offset >= v.tone.size - 1
<1>4. PICK dead \in BOOLEAN : dead = (e.level <= 0 \/ cut)
  OBVIOUS
<1>5. dead = TRUE <=> e.level <= 0 \/ cut
  BY <1>4
<1>6. PICK next : next = IF loops /\ offset >= v.tone.size THEN 0 ELSE offset
  OBVIOUS
<1>7. PICK out : out = IF e.level <= 0 \/ cut THEN "none" ELSE v.tone.pan
  OBVIOUS
<1>8. PICK g : g = GetSample(v)
  OBVIOUS
<1>9. g = [e EXCEPT !.dead = dead, !.offset = next, !.out = out]
  BY <1>2, <1>4, <1>6, <1>7, <1>8 DEF GetSample
<1>10. /\ g.dead = dead /\ g.offset = next /\ g.out = out
       /\ g.adsr = e.adsr /\ g.level = e.level
  BY <1>3, <1>9 DEF Voices
<1> HIDE DEF cut, loops, offset
<1>11. /\ g.dead = TRUE <=> e.level <= 0 \/ cut
       /\ g.offset = IF loops /\ offset >= v.tone.size THEN 0 ELSE offset
       /\ g.out = IF e.level <= 0 \/ cut THEN "none" ELSE v.tone.pan
       /\ g.adsr = e.adsr /\ g.level = e.level
  BY <1>5, <1>6, <1>7, <1>10
<1> QED
  BY <1>2, <1>3, <1>8, <1>11 DEF cut, loops, offset

\* A voice before GetSample.
Counted(v) ==
  LET offDelay == IF v.usesOff /\ v.offDelay > 0 THEN v.offDelay - 1 ELSE v.offDelay
  IN [v EXCEPT !.delay = IF @ < 0 THEN @ ELSE @ - 1, !.offDelay = offDelay,
               !.on = @ /\ ~(v.usesOff /\ offDelay <= 0), !.out = "none"]

LEMMA CountedIs ==
  ASSUME NEW v \in Voices
  PROVE  /\ RenderFrame(v) = IF Counted(v).dead \/ Counted(v).delay > 0 THEN Counted(v)
                             ELSE GetSample(Counted(v))
         /\ Counted(v) \in Voices /\ SameNote(v, Counted(v))
         /\ Counted(v).delay = IF v.delay < 0 THEN v.delay ELSE v.delay - 1
         /\ Counted(v).offDelay = IF v.usesOff = TRUE /\ v.offDelay > 0 THEN v.offDelay - 1 ELSE v.offDelay
         /\ v.on = TRUE /\ (v.usesOff = TRUE => v.offDelay > 1) => Counted(v).on = TRUE
         /\ Counted(v).dead = v.dead /\ Counted(v).adsr = v.adsr /\ Counted(v).level = v.level
         /\ Counted(v).offset = v.offset /\ Counted(v).out = "none"
<1> DEFINE offDelay == IF v.usesOff /\ v.offDelay > 0 THEN v.offDelay - 1 ELSE v.offDelay
           delay == IF v.delay < 0 THEN v.delay ELSE v.delay - 1
<1>1. offDelay \in Int /\ delay \in Int
  BY DEF Voices
<1>2. PICK on \in BOOLEAN : on = (v.on /\ ~(v.usesOff /\ offDelay <= 0))
  OBVIOUS
<1>3. PICK w : w = [v EXCEPT !.delay = delay, !.offDelay = offDelay, !.on = on, !.out = "none"]
  OBVIOUS
<1>4. w = Counted(v)
  BY <1>2, <1>3 DEF Counted
<1>5. RenderFrame(v) = IF w.dead \/ w.delay > 0 THEN w ELSE GetSample(w)
  BY <1>2, <1>3 DEF RenderFrame
<1>6. on <=> v.on /\ ~(v.usesOff /\ offDelay <= 0)
  BY <1>2
<1>7. v.on = TRUE /\ (v.usesOff = TRUE => v.offDelay > 1) => on = TRUE
  <2>1. v.usesOff \in BOOLEAN /\ v.offDelay \in Int
    BY DEF Voices
  <2> QED
    BY <1>6, <2>1
<1>8. offDelay = IF v.usesOff = TRUE /\ v.offDelay > 0 THEN v.offDelay - 1 ELSE v.offDelay
  BY DEF Voices
<1> HIDE DEF offDelay
<1>9. w \in Voices
  BY <1>1, <1>3 DEF Voices
<1>10. SameNote(v, w)
  BY <1>3 DEF Voices, SameNote
<1>11. w.delay = delay /\ w.offDelay = offDelay /\ w.on = on
  BY <1>3 DEF Voices
<1>12. w.dead = v.dead /\ w.adsr = v.adsr /\ w.level = v.level /\ w.offset = v.offset /\ w.out = "none"
  BY <1>3 DEF Voices
<1> QED
  BY <1>4, <1>5, <1>7, <1>8, <1>9, <1>10, <1>11, <1>12

LEMMA FrameWaits ==
  ASSUME NEW v \in Voices, Waiting(v)
  PROVE  Waiting(RenderFrame(v)) \/ RenderFrame(v).out # "none"
<1>0. PICK w : w = Counted(v)
  OBVIOUS
<1>1. /\ w \in Voices /\ SameNote(v, w)
      /\ w.delay = v.delay - 1 /\ w.dead = FALSE /\ w.adsr = "attack" /\ w.level = 0 /\ w.offset = 0
      /\ w.offDelay = IF v.usesOff = TRUE /\ v.offDelay > 0 THEN v.offDelay - 1 ELSE v.offDelay
  <2>1. w \in Voices /\ SameNote(v, w)
    BY <1>0, CountedIs
  <2>2. w.delay = IF v.delay < 0 THEN v.delay ELSE v.delay - 1
    BY <1>0, CountedIs
  <2>3. v.delay \in Int /\ v.delay >= 0
    BY DEF Waiting, Voices
  <2>4. w.dead = FALSE /\ w.adsr = "attack" /\ w.level = 0 /\ w.offset = 0
    BY <1>0, CountedIs DEF Waiting
  <2>5. w.offDelay = IF v.usesOff = TRUE /\ v.offDelay > 0 THEN v.offDelay - 1 ELSE v.offDelay
    BY <1>0, CountedIs
  <2> QED
    BY <2>1, <2>2, <2>3, <2>4, <2>5
<1>2. w.on = TRUE
  <2>1. v.on = TRUE /\ (v.usesOff = TRUE => v.offDelay > 1)
    BY DEF Waiting, Voices
  <2> QED
    BY <1>0, <2>1, CountedIs
<1>3. /\ v.delay \in Int /\ v.offDelay \in Int /\ v.delay >= 0
      /\ v.usesOff = TRUE => v.offDelay >= v.delay + 2
  BY DEF Waiting, Voices
<1>4. w.usesOff = v.usesOff /\ w.rate = v.rate /\ w.tone = v.tone /\ v.rate < v.tone.size - 1
  BY <1>1 DEF SameNote, Waiting
<1>5. RenderFrame(v) = IF w.dead \/ w.delay > 0 THEN w ELSE GetSample(w)
  BY <1>0, CountedIs
<1>6. CASE w.delay > 0
  <2>1. RenderFrame(v) = w
    BY <1>5, <1>6
  <2>2. w.delay >= 0 /\ (w.usesOff = TRUE => w.offDelay >= w.delay + 2)
    BY <1>1, <1>3, <1>4, <1>6
  <2> QED
    BY <1>1, <1>2, <1>4, <2>1, <2>2 DEF Waiting
<1>7. CASE ~(w.delay > 0)
  <2>1. RenderFrame(v) = GetSample(w)
    BY <1>1, <1>5, <1>7
  <2>2. PICK e \in Voices :
          /\ e = Enveloped(w)
          /\ GetSample(w).out =
               IF \/ e.level <= 0
                  \/ ~(w.tone.loop /\ ~w.ignoreLoops) /\ w.offset + w.rate >= w.tone.size - 1
               THEN "none" ELSE w.tone.pan
    BY <1>1, SampleIs
  <2>3. w.tone.attack \in Nat \ {0} /\ w.tone.size \in Nat /\ w.tone.pan # "none"
    BY <1>1, ToneIs
  <2>4. e.level > 0
    <3>1. FullLevel \in Nat \ {0}
      BY SequencerAssumption
    <3>2. \/ e = [w EXCEPT !.level = FullLevel, !.adsr = "decay"]
          \/ e = [w EXCEPT !.level = 0 + w.tone.attack]
      BY <1>1, <1>2, <2>2 DEF Enveloped
    <3>3. e.level = FullLevel \/ e.level = 0 + w.tone.attack
      BY <1>1, <3>2 DEF Voices
    <3> QED
      BY <2>3, <3>1, <3>3
  <2>5. ~(w.offset + w.rate >= w.tone.size - 1)
    <3>1. w.rate \in Nat
      BY <1>1 DEF Voices
    <3> QED
      BY <1>1, <1>4, <2>3, <3>1
  <2>6. e.level \in Int
    BY DEF Voices
  <2>7. GetSample(w).out = w.tone.pan
    BY <2>2, <2>4, <2>5, <2>6
  <2> QED
    BY <2>1, <2>3, <2>7
<1> QED
  BY <1>6, <1>7

LEMMA BufferWaits ==
  ASSUME NEW v \in Voices, Waiting(v)
  PROVE  \/ Waiting(Rendered(v)[BufferFrames])
         \/ \E k \in 1..BufferFrames : Rendered(v)[k].out # "none"
<1> DEFINE good == {k \in 0..BufferFrames : \/ Waiting(Rendered(v)[k])
                                             \/ \E l \in 1..BufferFrames : Rendered(v)[l].out # "none"}
<1>1. BufferFrames \in Nat
  BY SequencerAssumption
<1>2. 0 \in good
  BY <1>1, RenderedIs
<1>3. ASSUME NEW k \in 1..BufferFrames, k - 1 \in good PROVE k \in good
  <2>1. k \in 0..BufferFrames /\ k - 1 \in 0..BufferFrames
    BY <1>1
  <2>2. PICK w \in Voices : w = Rendered(v)[k - 1]
    BY <2>1, RenderedAre
  <2>3. Rendered(v)[k] = RenderFrame(w)
    BY <2>2, RenderedIs
  <2>4. Waiting(w) \/ \E l \in 1..BufferFrames : Rendered(v)[l].out # "none"
    BY <1>3, <2>2
  <2>5. CASE Waiting(w)
    BY <2>1, <2>3, <2>5, FrameWaits
  <2>6. CASE ~Waiting(w)
    BY <2>1, <2>4, <2>6
  <2> QED
    BY <2>5, <2>6
<1>4. \A k \in 0..BufferFrames : k \in good
  <2> HIDE DEF good
  <2> QED
    BY <1>1, <1>2, <1>3, UpTo
<1> QED
  BY <1>1, <1>4

LEMMA MadeWaits ==
  ASSUME ListOk, NEW v \in Voices, v.message \in Ons, NEW k \in Nat, k <= Len(m_MessageList),
         Fresh(v), OffSet(v, k)
  PROVE  Waiting(v)
<1> DEFINE i == v.message
<1>1. /\ i \in DOMAIN m_MessageList /\ m_MessageList[i].type = "on"
  BY DEF Ons
<1>2. /\ i \in Nat \ {0} /\ At(i) \in Nat /\ m_MessageList[i].time \in Nat
      /\ m_MessageList[i].data \in DOMAIN Rate
  BY <1>1, MessageIs DEF ListOk
<1>3. /\ v.delay = At(i) /\ v.rate = Rate[m_MessageList[i].data]
      /\ v.on = TRUE /\ v.dead = FALSE /\ v.adsr = "attack" /\ v.level = 0 /\ v.offset = 0
  BY DEF Fresh
<1>4. v.rate < v.tone.size - 1
  <2>1. PICK p \in DOMAIN Tones : v.tone \in Tones[p]
    BY DEF Voices, AllTones
  <2>2. PICK d \in Pitches : d \in Nat
    BY SequencerAssumption
  <2>3. v.tone.size - 1 > v.rate + d
    BY <1>2, <1>3, <2>1, SequencerAssumption
  <2>4. v.rate \in Nat /\ v.tone.size \in Nat
    BY ToneIs DEF Voices
  <2> QED
    BY <2>2, <2>3, <2>4
<1>5. ASSUME v.usesOff = TRUE PROVE v.offDelay >= v.delay + 2
  <2>1. PICK j \in i + 1..k : Ends(i, j) /\ v.offDelay = At(j)
    BY <1>5 DEF OffSet
  <2>2. j \in DOMAIN m_MessageList
    <3>1. Len(m_MessageList) \in Nat /\ DOMAIN m_MessageList = 1..Len(m_MessageList)
      BY DEF ListOk
    <3> QED
      BY <1>2, <3>1
  <2>3. At(j) \in Nat /\ m_MessageList[j].time \in Nat
    BY <2>2, MessageIs
  <2>4. m_MessageList[i].time < m_MessageList[j].time
    BY <1>2, <2>1, <2>3 DEF Ends
  <2>5. At(i) + 2 <= At(j)
    BY <1>2, <2>3, <2>4, SampleTimes DEF At
  <2> QED
    BY <1>2, <1>3, <2>1, <2>3, <2>5
<1>6. v.delay >= 0
  BY <1>2, <1>3
<1> QED
  BY <1>3, <1>4, <1>5, <1>6 DEF Waiting

\* The sample of frame k of a buffer in which a voice is heard last.
LastOf(k, out) == 2 * k - (IF out = "left" THEN 1 ELSE 0)

HeardSamples ==
  {0} \cup {x \in 1..2 * BufferFrames :
            \E v \in m_Voices, k \in 1..BufferFrames :
              Rendered(v)[k].out # "none" /\ x = LastOf(k, Rendered(v)[k].out)}

LEMMA RenderAudioIs ==
  ASSUME AliveRenderAudio
  PROVE  /\ m_Voices' = {w \in {Rendered(v)[BufferFrames] : v \in m_Voices} : ~w.dead}
         /\ mCurrentSampleIndex' = mCurrentSampleIndex + BufferFrames
         /\ lastHeard' = Max(HeardSamples)
         /\ heard' = IF HeardSamples = {0} THEN heard ELSE 2 * mCurrentSampleIndex + lastHeard'
         /\ sounded \subseteq sounded'
         /\ \A v \in m_Voices, k \in 1..BufferFrames :
              Rendered(v)[k].out # "none" => Rendered(v)[1].message \in sounded'
         /\ UNCHANGED <<song, m_MessageList, m_PlayerState, m_SongBeginSample, m_SongFinishSample,
                        quit, written, touched>>
<1> DEFINE renders == {Rendered(v) : v \in m_Voices}
           HeardIn(k) == {r \in renders : r[k].out # "none"}
           samples == {0} \cup UNION {{LastOf(k, r[k].out) : r \in HeardIn(k)} : k \in 1..BufferFrames}
<1>0. BufferFrames \in Nat
  BY SequencerAssumption
<1>1. /\ m_Voices' = {w \in {r[BufferFrames] : r \in renders} : ~w.dead}
      /\ mCurrentSampleIndex' = mCurrentSampleIndex + BufferFrames
      /\ lastHeard' = Max(samples)
      /\ heard' = IF samples = {0} THEN heard ELSE 2 * mCurrentSampleIndex + lastHeard'
      /\ sounded' = sounded \cup {r[1].message : r \in UNION {HeardIn(k) : k \in 1..BufferFrames}}
  <2> DEFINE HeardOf(q, k) == {r \in q : r[k].out # "none"}
             samplesOf(q) ==
               {0} \cup UNION {{LastOf(k, r[k].out) : r \in HeardOf(q, k)} : k \in 1..BufferFrames}
             Heard(q) ==
               /\ m_Voices' = {w \in {r[BufferFrames] : r \in q} : ~w.dead}
               /\ mCurrentSampleIndex' = mCurrentSampleIndex + BufferFrames
               /\ lastHeard' = Max(samplesOf(q))
               /\ heard' = IF samplesOf(q) = {0} THEN heard ELSE 2 * mCurrentSampleIndex + lastHeard'
               /\ sounded' = sounded \cup {r[1].message : r \in UNION {HeardOf(q, k) : k \in 1..BufferFrames}}
  <2>3. \E q \in {renders} : Heard(q)
    BY Zenon DEF AliveRenderAudio, LastOf
  <2>4. PICK q \in {renders} : Heard(q)
    BY <2>3
  <2>5. q = renders
    BY <2>4
  <2>6. Heard(renders)
    <3> HIDE DEF Heard, renders
    <3> QED
      BY <2>4, <2>5
  <2> QED
    BY <2>6, Zenon
<1>2. UNCHANGED <<song, m_MessageList, m_PlayerState, m_SongBeginSample, m_SongFinishSample,
                  quit, written, touched>>
  BY DEF AliveRenderAudio, sequenceVars, fileVars
<1>3. \A out : \A k \in 1..BufferFrames : LastOf(k, out) \in 1..2 * BufferFrames
  BY <1>0 DEF LastOf
<1>4. samples = HeardSamples
  <2>1. ASSUME NEW x \in samples PROVE x \in HeardSamples
    <3>1. CASE x = 0
      BY <3>1 DEF HeardSamples
    <3>2. CASE x # 0
      <4>1. PICK k \in 1..BufferFrames : x \in {LastOf(k, r[k].out) : r \in HeardIn(k)}
        BY <3>2
      <4>2. PICK r \in HeardIn(k) : x = LastOf(k, r[k].out)
        BY <4>1
      <4>3. PICK v \in m_Voices : r = Rendered(v)
        BY <4>2
      <4>4. Rendered(v)[k].out # "none" /\ x = LastOf(k, Rendered(v)[k].out)
        BY <4>2, <4>3
      <4>5. x \in 1..2 * BufferFrames
        BY <1>3, <4>2
      <4> QED
        BY <4>4, <4>5 DEF HeardSamples
    <3> QED
      BY <3>1, <3>2
  <2>2. ASSUME NEW x \in HeardSamples PROVE x \in samples
    <3>1. CASE x = 0
      BY <3>1
    <3>2. CASE x # 0
      <4>1. PICK v \in m_Voices, k \in 1..BufferFrames :
              Rendered(v)[k].out # "none" /\ x = LastOf(k, Rendered(v)[k].out)
        BY <3>2 DEF HeardSamples
      <4>2. PICK r \in renders : r = Rendered(v)
        OBVIOUS
      <4>3. r \in HeardIn(k)
        BY <4>1, <4>2
      <4>4. x \in {LastOf(k, q[k].out) : q \in HeardIn(k)}
        BY <4>1, <4>2, <4>3
      <4> QED
        BY <4>4
    <3> QED
      BY <3>1, <3>2
  <2> HIDE DEF samples
  <2> QED
    BY <2>1, <2>2
<1>5. m_Voices' = {w \in {Rendered(v)[BufferFrames] : v \in m_Voices} : ~w.dead}
  <2>1. {r[BufferFrames] : r \in renders} = {Rendered(v)[BufferFrames] : v \in m_Voices}
    OBVIOUS
  <2> QED
    BY <1>1, <2>1
<1>6. ASSUME NEW v \in m_Voices, NEW k \in 1..BufferFrames, Rendered(v)[k].out # "none"
      PROVE  Rendered(v)[1].message \in sounded'
  <2>1. PICK r \in renders : r = Rendered(v)
    OBVIOUS
  <2>2. r \in HeardIn(k)
    BY <1>6, <2>1
  <2>3. r \in UNION {HeardIn(l) : l \in 1..BufferFrames}
    BY <2>2
  <2> QED
    BY <1>1, <2>1, <2>3
<1>7. sounded \subseteq sounded'
  BY <1>1
<1> HIDE DEF samples
<1> QED
  BY <1>1, <1>2, <1>4, <1>5, <1>6, <1>7

LEMMA LastHeardIs ==
  /\ HeardSamples \subseteq 0..2 * BufferFrames /\ 0 \in HeardSamples
  /\ Max(HeardSamples) \in HeardSamples /\ \A x \in HeardSamples : x <= Max(HeardSamples)
<1>1. BufferFrames \in Nat /\ 2 * BufferFrames \in Nat
  BY SequencerAssumption
<1>2. HeardSamples \subseteq 0..2 * BufferFrames /\ 0 \in HeardSamples
  BY <1>1 DEF HeardSamples
<1>3. HeardSamples \subseteq Nat /\ \A x \in HeardSamples : x <= 2 * BufferFrames
  BY <1>1, <1>2
<1> QED
  BY <1>1, <1>2, <1>3, LargestIs

\* How a sound is played, and what is written of it.
Played ==
  /\ song \in DOMAIN Songs /\ touched \in BOOLEAN /\ quit \in BOOLEAN
  /\ phase \in {"update", "play", "check", "done"} => touched = FALSE /\ m_PlayerState # "STOPPED"
  /\ (phase = "done" /\ quit = FALSE) \/ phase = "erased" => AtEnd
  /\ Songs[song].kind # "seq" => m_PlayerState \in {"FINISHED", "STOPPED"}

AllWritten ==
  /\ heard \in Nat /\ lastHeard \in Nat /\ written \in Nat /\ heard <= 2 * mCurrentSampleIndex
  /\ phase \in {"update", "play"} => written = 2 * mCurrentSampleIndex
  /\ phase = "check" => written = 2 * (mCurrentSampleIndex - BufferFrames) /\ heard <= written + lastHeard
  /\ phase = "done" /\ quit = FALSE => written >= heard - 1

\* Every note that has a tone was heard, or one of its voices will be.
NotesPending ==
  m_PlayerState \in {"PLAYING", "FINISHED"} /\ touched = FALSE =>
    \A i \in Ons : Sings(i) => i \in sounded \/ \E v \in m_Voices : v.message = i /\ Waiting(v)

LEMMA PlayedInit == ASSUME SequencerInit PROVE Played /\ AllWritten /\ NotesPending
<1>1. Played
  BY DEF SequencerInit, Played, PlayerStates
<1>2. AllWritten
  BY DEF SequencerInit, AllWritten
<1>3. NotesPending
  <2>1. CASE Songs[song].kind = "seq"
    BY <2>1 DEF SequencerInit, NotesPending
  <2>2. CASE Songs[song].kind # "seq"
    <3>1. m_MessageList = <<>>
      BY <2>2 DEF SequencerInit
    <3>2. Ons = {}
      BY <3>1 DEF Ons
    <3> QED
      BY <3>2 DEF NotesPending
  <2> QED
    BY <2>1, <2>2
<1> QED
  BY <1>1, <1>2, <1>3

LEMMA StateMade ==
  ASSUME SongInv, NEW next, SequenceUpdate(next), m_PlayerState # "STOPPED"
  PROVE  m_PlayerState' # "STOPPED"
<1>1. CASE m_PlayerState # "INIT_VOICES"
  BY <1>1 DEF SequenceUpdate
<1>2. CASE m_PlayerState = "INIT_VOICES"
  <2>1. PICK s : s = InitVoices
    OBVIOUS
  <2>2. m_PlayerState' \in {"FINISHED", s.state}
    BY <1>2, <2>1 DEF SequenceUpdate
  <2>3. ProcessedTo(s, Len(m_MessageList))
    BY <1>2, <2>1, VoicesMade DEF SongInv, VoicesInTime
  <2> QED
    BY <2>2, <2>3 DEF ProcessedTo
<1> QED
  BY <1>1, <1>2

LEMMA PlayedStep == ASSUME SongInv, Played, [SequencerNext]_sequencerVars PROVE Played'
<1>1. ASSUME NEW next \in {"play", "player"}, SequenceUpdate(next), phase \in {"update", "player"},
             phase = "player" <=> next = "player"
      PROVE  Played'
  <2>1. /\ song' = song /\ touched' = touched /\ quit' = quit /\ phase' \in {"crashed", next}
    BY <1>1 DEF SequenceUpdate, fileVars
  <2>2. m_PlayerState \in {"FINISHED", "STOPPED"} => m_PlayerState' = m_PlayerState
    BY <1>1 DEF SequenceUpdate
  <2>3. m_PlayerState # "STOPPED" => m_PlayerState' # "STOPPED"
    BY <1>1, StateMade
  <2> QED
    BY <1>1, <2>1, <2>2, <2>3 DEF Played
<1>2. CASE ConvertUpdate
  BY <1>1, <1>2 DEF ConvertUpdate
<1>3. CASE ConvertPlay
  BY <1>3, RenderAudioIs DEF ConvertPlay, Played
<1>4. CASE ConvertConsume
  BY <1>4 DEF ConvertConsume, Played, AtEnd, sequenceVars
<1>5. CASE CancelConversion
  BY <1>5 DEF CancelConversion, Played, sequenceVars
<1>6. CASE PlayerErased
  BY <1>6 DEF PlayerErased, Played, AtEnd, sequenceVars, fileVars
<1>7. CASE PlayerUpdate
  BY <1>1, <1>7 DEF PlayerUpdate
<1>8. CASE PlayerPlay
  BY <1>8, RenderAudioIs DEF PlayerPlay, Played
<1>9. CASE StopSequence
  BY <1>9 DEF StopSequence, Played, fileVars
<1>10. CASE PlayTone
  BY <1>10 DEF PlayTone, Played, sequenceVars, fileVars
<1>11. CASE UNCHANGED sequencerVars
  BY <1>11 DEF sequencerVars, sequenceVars, fileVars, Played, AtEnd
<1> QED
  BY <1>2, <1>3, <1>4, <1>5, <1>6, <1>7, <1>8, <1>9, <1>10, <1>11 DEF SequencerNext, ConvertStep

LEMMA HeardStep ==
  ASSUME SongInv, AllWritten, AliveRenderAudio
  PROVE  /\ heard' \in Nat /\ lastHeard' \in Nat /\ written' = written /\ quit' = quit
         /\ mCurrentSampleIndex' = mCurrentSampleIndex + BufferFrames
         /\ heard' <= 2 * mCurrentSampleIndex' /\ heard' <= 2 * mCurrentSampleIndex + lastHeard'
<1>1. /\ mCurrentSampleIndex' = mCurrentSampleIndex + BufferFrames
      /\ lastHeard' = Max(HeardSamples) /\ written' = written /\ quit' = quit
      /\ heard' = IF HeardSamples = {0} THEN heard ELSE 2 * mCurrentSampleIndex + lastHeard'
  BY RenderAudioIs
<1>2. BufferFrames \in Nat /\ mCurrentSampleIndex \in Nat
  BY SequencerAssumption DEF SongInv
<1>3. lastHeard' \in 0..2 * BufferFrames
  BY <1>1, LastHeardIs
<1>4. heard \in Nat /\ heard <= 2 * mCurrentSampleIndex
  BY DEF AllWritten
<1>5. heard' = heard \/ heard' = 2 * mCurrentSampleIndex + lastHeard'
  BY <1>1
<1> QED
  BY <1>1, <1>2, <1>3, <1>4, <1>5

LEMMA WrittenStep ==
  ASSUME SongInv, Played, AllWritten, [SequencerNext]_sequencerVars PROVE AllWritten'
<1>1. BufferFrames \in Nat /\ mCurrentSampleIndex \in Nat
  BY SequencerAssumption DEF SongInv
<1>2. heard \in Nat /\ lastHeard \in Nat /\ written \in Nat /\ heard <= 2 * mCurrentSampleIndex
  BY DEF AllWritten
<1>3. CASE ConvertUpdate
  BY <1>3 DEF ConvertUpdate, SequenceUpdate, AllWritten, fileVars
<1>4. CASE ConvertPlay
  <2>1. AliveRenderAudio /\ phase = "play" /\ phase' = "check"
    BY <1>4 DEF ConvertPlay
  <2>2. written = 2 * mCurrentSampleIndex
    BY <2>1 DEF AllWritten
  <2> QED
    BY <1>1, <1>2, <2>1, <2>2, HeardStep DEF AllWritten
<1>5. CASE ConvertConsume
  <2>1. /\ phase = "check" /\ phase' = (IF AtEnd \/ quit THEN "done" ELSE "update")
        /\ UNCHANGED <<mCurrentSampleIndex, quit, lastHeard, heard>>
    BY <1>5 DEF ConvertConsume
  <2>2. /\ written = 2 * (mCurrentSampleIndex - BufferFrames) /\ heard <= written + lastHeard
    BY <2>1 DEF AllWritten
  <2>3. CASE AtEnd
    <3>1. written' = written + 2 * (lastHeard \div 2)
      BY <1>5, <2>3 DEF ConvertConsume
    <3>2. 2 * (lastHeard \div 2) >= lastHeard - 1 /\ 2 * (lastHeard \div 2) \in Nat
      BY <1>2
    <3>3. PICK half \in Nat : half = 2 * (lastHeard \div 2)
      BY <3>2
    <3>4. written' \in Nat /\ written' >= heard - 1
      BY <1>2, <2>2, <3>1, <3>2, <3>3
    <3> QED
      BY <1>2, <2>1, <2>3, <3>4 DEF AllWritten
  <2>4. CASE ~AtEnd
    <3>1. written' = written + 2 * ((2 * BufferFrames) \div 2)
      BY <1>5, <2>4 DEF ConvertConsume
    <3>2. (2 * BufferFrames) \div 2 = BufferFrames
      BY <1>1
    <3>3. written' = 2 * mCurrentSampleIndex
      BY <1>1, <2>2, <3>1, <3>2
    <3> QED
      BY <1>1, <1>2, <2>1, <2>4, <3>3 DEF AllWritten
  <2> QED
    BY <2>3, <2>4
<1>6. CASE CancelConversion
  BY <1>6 DEF CancelConversion, AllWritten
<1>7. CASE PlayerErased
  BY <1>7 DEF PlayerErased, AllWritten, fileVars
<1>8. CASE PlayerUpdate
  BY <1>8 DEF PlayerUpdate, SequenceUpdate, AllWritten, fileVars
<1>9. CASE PlayerPlay
  <2>1. AliveRenderAudio /\ phase = "player" /\ phase' = "player"
    BY <1>9 DEF PlayerPlay
  <2> QED
    BY <1>2, <2>1, HeardStep DEF AllWritten
<1>10. CASE StopSequence
  BY <1>10 DEF StopSequence, AllWritten, fileVars
<1>11. CASE PlayTone
  BY <1>11 DEF PlayTone, AllWritten, fileVars
<1>12. CASE UNCHANGED sequencerVars
  BY <1>12 DEF sequencerVars, fileVars, AllWritten
<1> QED
  BY <1>3, <1>4, <1>5, <1>6, <1>7, <1>8, <1>9, <1>10, <1>11, <1>12 DEF SequencerNext, ConvertStep

LEMMA NotesRendered ==
  ASSUME SongInv, NotesPending, AliveRenderAudio PROVE NotesPending'
<1>1. /\ m_Voices' = {w \in {Rendered(v)[BufferFrames] : v \in m_Voices} : ~w.dead}
      /\ sounded \subseteq sounded'
      /\ \A v \in m_Voices, k \in 1..BufferFrames :
           Rendered(v)[k].out # "none" => Rendered(v)[1].message \in sounded'
      /\ UNCHANGED <<m_MessageList, m_PlayerState, touched>>
  BY RenderAudioIs
<1>2. Ons' = Ons /\ (\A i : Sings(i)' <=> Sings(i)) /\ \A w : Waiting(w)' <=> Waiting(w)
  <2>1. \A w : Waiting(w)' <=> Waiting(w)
    BY DEF Waiting
  <2> QED
    BY <1>1, <2>1, SameSong
<1> SUFFICES ASSUME m_PlayerState \in {"PLAYING", "FINISHED"}, touched = FALSE,
                    NEW i \in Ons, Sings(i), i \notin sounded'
             PROVE  \E w \in m_Voices' : w.message = i /\ Waiting(w)
  BY <1>1, <1>2 DEF NotesPending
<1>3. i \notin sounded
  BY <1>1
<1>4. PICK v \in m_Voices : v.message = i /\ Waiting(v)
  BY <1>3 DEF NotesPending
<1>5. v \in Voices /\ 1 \in 0..BufferFrames /\ BufferFrames \in 0..BufferFrames
  BY SequencerAssumption DEF SongInv
<1>6. PICK w \in Voices : w = Rendered(v)[BufferFrames]
  BY <1>5, RenderedAre
<1>7. w.message = i /\ Rendered(v)[1].message = i
  BY <1>4, <1>5, <1>6, RenderedAre DEF SameNote
<1>8. ~\E k \in 1..BufferFrames : Rendered(v)[k].out # "none"
  BY <1>1, <1>7
<1>9. Waiting(w)
  BY <1>4, <1>5, <1>6, <1>8, BufferWaits
<1>10. w \in m_Voices'
  BY <1>1, <1>6, <1>9 DEF Waiting
<1> QED
  BY <1>7, <1>9, <1>10

LEMMA NotesMade ==
  ASSUME SongInv, NotesPending, NEW next, SequenceUpdate(next) PROVE NotesPending'
<1>1. UNCHANGED <<m_MessageList, sounded, touched>>
  BY DEF SequenceUpdate
<1>2. Ons' = Ons /\ \A i : Sings(i)' <=> Sings(i)
  BY <1>1, SameSong
<1>3. CASE m_PlayerState # "INIT_VOICES"
  <2>1. m_Voices' = m_Voices /\ m_PlayerState' \in {"FINISHED", m_PlayerState}
        /\ (m_PlayerState' # m_PlayerState => m_PlayerState = "PLAYING")
    BY <1>3 DEF SequenceUpdate
  <2> QED
    BY <1>1, <1>2, <2>1 DEF NotesPending, Waiting
<1>4. CASE m_PlayerState = "INIT_VOICES"
  <2>1. PICK s : s = InitVoices
    OBVIOUS
  <2>2. m_Voices' = s.voices
    BY <1>4, <2>1 DEF SequenceUpdate
  <2>3. ProcessedTo(s, Len(m_MessageList))
    BY <1>4, <2>1, VoicesMade DEF SongInv, VoicesInTime
  <2>4. Len(m_MessageList) \in Nat /\ DOMAIN m_MessageList = 1..Len(m_MessageList)
    BY DEF SongInv, ListOk
  <2>5. s.voices \subseteq Voices
    BY <2>3 DEF ProcessedTo, Processes
  <2>6. ASSUME NEW i \in Ons, Sings(i) PROVE \E v \in m_Voices' : v.message = i /\ Waiting(v)
    <3>1. i <= Len(m_MessageList)
      BY <2>4 DEF Ons
    <3>2. PICK v \in s.voices : v.message = i
      BY <2>3, <2>6, <3>1 DEF ProcessedTo
    <3>3. Fresh(v) /\ OffSet(v, Len(m_MessageList))
      BY <2>3, <3>2 DEF ProcessedTo
    <3>4. Waiting(v)
      BY <2>4, <2>5, <3>2, <3>3, MadeWaits DEF SongInv
    <3> QED
      BY <2>2, <3>2, <3>4
  <2> QED
    BY <1>1, <1>2, <2>6 DEF NotesPending, Waiting
<1> QED
  BY <1>3, <1>4

LEMMA PendingStep ==
  ASSUME SongInv, NotesPending, [SequencerNext]_sequencerVars PROVE NotesPending'
<1>1. ASSUME UNCHANGED <<m_MessageList, m_PlayerState, m_Voices, sounded, touched>>
      PROVE  NotesPending'
  <2>1. Ons' = Ons /\ \A i : Sings(i)' <=> Sings(i)
    BY <1>1, SameSong
  <2> QED
    BY <1>1, <2>1 DEF NotesPending, Waiting
<1>2. CASE ConvertUpdate
  BY <1>2, NotesMade DEF ConvertUpdate
<1>3. CASE ConvertPlay
  BY <1>3, NotesRendered DEF ConvertPlay
<1>4. CASE ConvertConsume
  BY <1>1, <1>4 DEF ConvertConsume, sequenceVars
<1>5. CASE CancelConversion
  BY <1>1, <1>5 DEF CancelConversion, sequenceVars
<1>6. CASE PlayerErased
  BY <1>1, <1>6 DEF PlayerErased, sequenceVars
<1>7. CASE PlayerUpdate
  BY <1>7, NotesMade DEF PlayerUpdate
<1>8. CASE PlayerPlay
  BY <1>8, NotesRendered DEF PlayerPlay
<1>9. CASE StopSequence
  BY <1>9 DEF StopSequence, NotesPending
<1>10. CASE PlayTone
  BY <1>10 DEF PlayTone, NotesPending
<1>11. CASE UNCHANGED sequencerVars
  BY <1>1, <1>11 DEF sequencerVars, sequenceVars
<1> QED
  BY <1>2, <1>3, <1>4, <1>5, <1>6, <1>7, <1>8, <1>9, <1>10, <1>11 DEF SequencerNext, ConvertStep

-----------------------------------------------------------------------------
(* The frames of a single shot *)

IsShot == song \in DOMAIN Songs /\ Songs[song].kind # "seq"

LEMMA Longer ==
  ASSUME NEW r \in Nat \ {0}, NEW k \in Nat, NEW l \in Nat, k <= l
  PROVE  k * r <= l * r /\ k <= k * r /\ k * r \in Nat /\ (k + 1) * r = k * r + r
<1>1. PICK m \in Nat : l = k + m
  <2>1. l - k \in Nat /\ l = k + (l - k)
    OBVIOUS
  <2> QED
    BY <2>1
<1>2. l * r = k * r + m * r
  BY <1>1
<1>3. m * r \in Nat /\ k * r \in Nat
  BY <1>1
<1>4. PICK q \in Nat : r = 1 + q
  <2>1. r - 1 \in Nat /\ r = 1 + (r - 1)
    OBVIOUS
  <2> QED
    BY <2>1
<1>5. k * r = k + k * q /\ k * q \in Nat
  BY <1>4
<1>6. (k + 1) * r = k * r + r
  OBVIOUS
<1> QED
  BY <1>2, <1>3, <1>5, <1>6

LEMMA ShotIs ==
  ASSUME IsShot, NEW t \in Shot, NEW d \in Pitches
  PROVE  /\ t.pan \in {"left", "both", "right"} /\ t.sustain \in Nat
         /\ FramesOf(t, d) \in Nat \ {0}
         /\ Rate[Songs[song].note] + d \in Nat \ {0}
         /\ \A k \in Nat : k <= FramesOf(t, d) <=> k * (Rate[Songs[song].note] + d) < t.size - 1
<1>1. PICK p \in DOMAIN Tones : p = Songs[song].program
  BY SequencerAssumption DEF IsShot
<1>2. PICK note \in DOMAIN Rate : note = Songs[song].note
  BY SequencerAssumption DEF IsShot
<1>3. t \in Tones[p] /\ t \in BankTones
  BY <1>1, SequencerAssumption DEF Shot
<1>4. t.pan \in {"left", "both", "right"} /\ t.sustain \in Nat /\ t.size \in Nat
  BY <1>3 DEF BankTones
<1>5. PICK r \in Nat \ {0} : r = Rate[note] + d
  <2>1. Rate[note] \in Nat \ {0} /\ d \in Nat
    BY SequencerAssumption
  <2> QED
    BY <2>1
<1>6. PICK size \in Nat : size = t.size
  BY <1>4
<1>7. size - 1 > r
  BY <1>1, <1>3, <1>5, <1>6, SequencerAssumption
<1> DEFINE fit == {k \in 0..size : k * r < size - 1}
<1>8. FramesOf(t, d) = Max(fit)
  BY <1>2, <1>5, <1>6 DEF FramesOf
<1>9. 1 \in fit
  <2>1. 1 * r = r /\ 1 \in 0..size
    BY <1>7
  <2> QED
    BY <1>7, <2>1
<1>10. fit \subseteq Nat /\ fit # {} /\ \A k \in fit : k <= size
  <2>1. \A k \in fit : k \in 0..size
    OBVIOUS
  <2>2. \A k \in 0..size : k \in Nat /\ k <= size
    OBVIOUS
  <2> HIDE DEF fit
  <2> QED
    BY <1>9, <2>1, <2>2
<1>11. Max(fit) \in fit /\ \A k \in fit : k <= Max(fit)
  <2> HIDE DEF fit
  <2> QED
    BY <1>10, LargestIs
<1>12. PICK f \in Nat : f = Max(fit)
  BY <1>10, <1>11
<1>13. f * r < size - 1 /\ f >= 1
  BY <1>9, <1>11, <1>12
<1>14. \A k \in Nat : k <= f <=> k * r < size - 1
  <2> TAKE k \in Nat
  <2>1. k <= f => k * r <= f * r
    BY Longer
  <2>2. k <= k * r /\ k * r \in Nat /\ f * r \in Nat
    BY Longer
  <2>3. k * r < size - 1 => k \in fit
    BY <2>2
  <2>4. k \in fit => k <= f
    BY <1>11, <1>12
  <2> QED
    BY <1>13, <2>1, <2>2, <2>3, <2>4
<1> QED
  BY <1>2, <1>4, <1>5, <1>6, <1>8, <1>12, <1>13, <1>14

\* A voice of the shot, n frames after its beginning.
ShotVoice(v, d, n) ==
  /\ v.tone \in Shot /\ v.tone.sustain > 0 /\ v.rate = Rate[Songs[song].note] + d
  /\ v.ignoreLoops = TRUE /\ v.usesOff = FALSE /\ v.on = TRUE /\ v.dead = FALSE
  /\ v.delay <= 0 /\ v.offset = n * v.rate /\ v.level >= 0
  /\ v.adsr # "release" /\ (v.adsr # "attack" => v.level > 0)

\* With the key down an envelope stays above 0.
LEMMA ShotEnveloped ==
  ASSUME NEW v \in Voices, v.on = TRUE, v.level >= 0, v.adsr # "release", v.tone.sustain > 0,
         v.adsr # "attack" => v.level > 0
  PROVE  Enveloped(v).level > 0 /\ Enveloped(v).adsr # "release"
<1>1. PICK level \in Int : level = v.level
  BY DEF Voices
<1>2. /\ v.tone.attack \in Nat \ {0} /\ v.tone.decay \in Nat /\ v.tone.sustain \in Nat
      /\ v.adsr \in {"attack", "decay", "sustain", "release"}
  BY ToneIs DEF Voices
<1>3. FullLevel \in Nat \ {0}
  BY SequencerAssumption
<1>4. CASE v.adsr = "attack"
  <2>1. PICK raised \in Int : raised = level + v.tone.attack /\ raised > 0
    BY <1>1, <1>2
  <2>2. \/ Enveloped(v) = [v EXCEPT !.level = FullLevel, !.adsr = "decay"]
        \/ Enveloped(v) = [v EXCEPT !.level = raised]
    BY <1>1, <1>4, <2>1 DEF Enveloped
  <2>3. CASE Enveloped(v) = [v EXCEPT !.level = FullLevel, !.adsr = "decay"]
    BY <1>3, <2>3 DEF Voices
  <2>4. CASE Enveloped(v) = [v EXCEPT !.level = raised]
    BY <1>4, <2>1, <2>4 DEF Voices
  <2> QED
    BY <2>2, <2>3, <2>4
<1>5. CASE v.adsr = "decay"
  <2>1. PICK lowered \in Int : lowered = level - v.tone.decay
    BY <1>1, <1>2
  <2>2. Enveloped(v) = IF v.tone.decay = 0 \/ lowered < v.tone.sustain
                       THEN [v EXCEPT !.level = v.tone.sustain, !.adsr = "sustain"]
                       ELSE [v EXCEPT !.level = lowered]
    BY <1>1, <1>5, <2>1 DEF Enveloped
  <2>3. CASE v.tone.decay = 0 \/ lowered < v.tone.sustain
    BY <2>2, <2>3 DEF Voices
  <2>4. CASE ~(v.tone.decay = 0 \/ lowered < v.tone.sustain)
    BY <1>2, <1>5, <2>1, <2>2, <2>4 DEF Voices
  <2> QED
    BY <2>3, <2>4
<1>6. CASE v.adsr = "sustain"
  <2>1. Enveloped(v) = v
    BY <1>6 DEF Enveloped
  <2> QED
    BY <1>1, <1>6, <2>1
<1> QED
  BY <1>2, <1>4, <1>5, <1>6

\* The shot is heard until its sample is over, and ends with it.
LEMMA ShotFrame ==
  ASSUME IsShot, NEW d \in Pitches, NEW n \in Nat, NEW v \in Voices, ShotVoice(v, d, n)
  PROVE  LET w == RenderFrame(v)
         IN IF n + 1 <= FramesOf(v.tone, d) THEN ShotVoice(w, d, n + 1) /\ w.out = v.tone.pan
            ELSE w.dead = TRUE /\ w.out = "none"
<1>0. PICK u : u = Counted(v)
  OBVIOUS
<1>1. u \in Voices /\ SameNote(v, u)
  BY <1>0, CountedIs
<1>2. /\ v.tone \in Shot /\ v.tone.sustain > 0 /\ v.rate = Rate[Songs[song].note] + d
      /\ v.ignoreLoops = TRUE /\ v.usesOff = FALSE /\ v.on = TRUE /\ v.dead = FALSE
      /\ v.delay <= 0 /\ v.offset = n * v.rate /\ v.level >= 0
      /\ v.adsr # "release" /\ (v.adsr # "attack" => v.level > 0)
  BY DEF ShotVoice
<1>3. u.delay = IF v.delay < 0 THEN v.delay ELSE v.delay - 1
  BY <1>0, CountedIs
<1>4. u.on = TRUE
  BY <1>0, <1>2, CountedIs
<1>5. /\ u.dead = v.dead /\ u.adsr = v.adsr /\ u.level = v.level /\ u.offset = v.offset
  BY <1>0, CountedIs
<1>6. /\ u.tone = v.tone /\ u.rate = v.rate /\ u.ignoreLoops = TRUE /\ u.usesOff = FALSE
  BY <1>1, <1>2 DEF SameNote
<1>7. u.delay <= 0 /\ ~(u.delay > 0) /\ u.delay \in Int
  <2>1. v.delay \in Int
    BY DEF Voices
  <2> QED
    BY <1>2, <1>3, <2>1
<1>8. RenderFrame(v) = GetSample(u)
  <2>1. RenderFrame(v) = IF u.dead \/ u.delay > 0 THEN u ELSE GetSample(u)
    BY <1>0, CountedIs
  <2> QED
    BY <1>2, <1>5, <1>7, <2>1
<1>9. PICK w : w = GetSample(u)
  OBVIOUS
<1>10. /\ w \in Voices /\ SameNote(u, w) /\ w.delay = u.delay /\ w.on = u.on
  BY <1>1, <1>9, GetSampleIs
<1>11. PICK e \in Voices :
         /\ e = Enveloped(u)
         /\ LET offset == u.offset + u.rate
                loops == u.tone.loop /\ ~u.ignoreLoops
                cut == ~loops /\ offset >= u.tone.size - 1
            IN /\ w.dead = TRUE <=> e.level <= 0 \/ cut
               /\ w.offset = (IF loops /\ offset >= u.tone.size THEN 0 ELSE offset)
               /\ w.out = IF e.level <= 0 \/ cut THEN "none" ELSE u.tone.pan
               /\ w.adsr = e.adsr /\ w.level = e.level
  BY <1>1, <1>9, SampleIs
<1>12. e.level > 0 /\ e.adsr # "release" /\ e.level \in Int
  <2>1. Enveloped(u).level > 0 /\ Enveloped(u).adsr # "release"
    BY <1>1, <1>2, <1>4, <1>5, <1>6, ShotEnveloped
  <2> QED
    BY <1>11, <2>1 DEF Voices
<1>13. PICK rate \in Nat \ {0} : rate = v.rate
  BY <1>2, ShotIs
<1>14. u.offset + u.rate = (n + 1) * rate
  <2>1. (n + 1) * rate = n * rate + rate
    BY Longer
  <2> QED
    BY <1>2, <1>5, <1>6, <1>13, <2>1
<1>15. n + 1 <= FramesOf(v.tone, d) <=> (n + 1) * rate < v.tone.size - 1
  <2>1. \A k \in Nat : k <= FramesOf(v.tone, d) <=> k * rate < v.tone.size - 1
    BY <1>2, <1>13, ShotIs
  <2> QED
    BY <2>1
<1>16. PICK next \in Nat : next = (n + 1) * rate
  OBVIOUS
<1>17. PICK size \in Nat : size = v.tone.size
  BY ToneIs
<1>18. /\ w.dead = TRUE <=> ~(next < size - 1)
       /\ w.offset = next /\ w.out = (IF ~(next < size - 1) THEN "none" ELSE v.tone.pan)
       /\ w.adsr = e.adsr /\ w.level = e.level
  <2>1. ~(u.tone.loop /\ ~u.ignoreLoops)
    BY <1>6
  <2>2. u.offset + u.rate = next /\ u.tone.size = size
    BY <1>6, <1>14, <1>16, <1>17
  <2>3. next >= size - 1 <=> ~(next < size - 1)
    OBVIOUS
  <2>4. ~(e.level <= 0)
    BY <1>12
  <2> QED
    BY <1>6, <1>11, <2>1, <2>2, <2>3, <2>4
<1>19. CASE n + 1 <= FramesOf(v.tone, d)
  <2>1. next < size - 1
    BY <1>15, <1>16, <1>17, <1>19
  <2>2. w.dead = FALSE /\ w.out = v.tone.pan
    BY <1>10, <1>18, <2>1 DEF Voices
  <2>3. w.tone = v.tone /\ w.rate = v.rate /\ w.ignoreLoops = TRUE /\ w.usesOff = FALSE
    BY <1>6, <1>10 DEF SameNote
  <2>4. w.offset = (n + 1) * w.rate
    BY <1>13, <1>16, <1>18, <2>3
  <2>5. w.level >= 0 /\ w.level > 0 /\ w.adsr # "release"
    BY <1>12, <1>18
  <2>6. w.on = TRUE /\ w.delay <= 0
    BY <1>4, <1>7, <1>10
  <2>7. ShotVoice(w, d, n + 1)
    BY <1>2, <2>2, <2>3, <2>4, <2>5, <2>6 DEF ShotVoice
  <2> QED
    BY <1>8, <1>9, <1>19, <2>2, <2>7
<1>20. CASE ~(n + 1 <= FramesOf(v.tone, d))
  <2>1. ~(next < size - 1)
    BY <1>15, <1>16, <1>17, <1>20
  <2>2. w.dead = TRUE /\ w.out = "none"
    BY <1>18, <2>1
  <2> QED
    BY <1>8, <1>9, <1>20, <2>2
<1> QED
  BY <1>19, <1>20

LEMMA DeadFrame ==
  ASSUME NEW v \in Voices, v.dead = TRUE
  PROVE  RenderFrame(v).dead = TRUE /\ RenderFrame(v).out = "none"
<1>1. PICK u : u = Counted(v)
  OBVIOUS
<1>2. u.dead = v.dead /\ u.out = "none"
  BY <1>1, CountedIs
<1>3. RenderFrame(v) = IF u.dead \/ u.delay > 0 THEN u ELSE GetSample(u)
  BY <1>1, CountedIs
<1>4. RenderFrame(v) = u
  BY <1>2, <1>3
<1> QED
  BY <1>2, <1>4

\* After k frames of a buffer that begins n frames after the shot.
LEMMA ShotBuffer ==
  ASSUME IsShot, NEW d \in Pitches, NEW n \in Nat, NEW v \in Voices, ShotVoice(v, d, n),
         n <= FramesOf(v.tone, d), NEW k \in 0..BufferFrames
  PROVE  LET w == Rendered(v)[k]
         IN IF n + k <= FramesOf(v.tone, d) THEN ShotVoice(w, d, n + k) /\ (k > 0 => w.out = v.tone.pan)
            ELSE w.dead = TRUE /\ (k > 0 => w.out = "none")
<1>0. PICK f \in Nat : f = FramesOf(v.tone, d)
  BY ShotIs DEF ShotVoice
<1>1. BufferFrames \in Nat
  BY SequencerAssumption
<1> DEFINE Good(l) ==
             IF n + l <= f THEN ShotVoice(Rendered(v)[l], d, n + l) /\ (l > 0 => Rendered(v)[l].out = v.tone.pan)
             ELSE Rendered(v)[l].dead = TRUE /\ (l > 0 => Rendered(v)[l].out = "none")
           good == {l \in 0..BufferFrames : Good(l)}
<1>2. 0 \in good
  <2>1. Rendered(v)[0] = v /\ n + 0 = n /\ 0 \in 0..BufferFrames /\ ~(0 > 0)
    BY <1>1, RenderedIs
  <2> QED
    BY <1>0, <2>1
<1>3. ASSUME NEW l \in 1..BufferFrames, l - 1 \in good PROVE l \in good
  <2>1. l \in 0..BufferFrames /\ l - 1 \in 0..BufferFrames /\ n + (l - 1) \in Nat
        /\ n + (l - 1) + 1 = n + l /\ l > 0
    BY <1>1
  <2>2. PICK w \in Voices : w = Rendered(v)[l - 1]
    BY <2>1, RenderedAre
  <2>3. w.tone = v.tone
    BY <2>1, <2>2, RenderedAre DEF SameNote
  <2>4. PICK x : x = RenderFrame(w)
    OBVIOUS
  <2>5. Rendered(v)[l] = x
    BY <2>2, <2>4, RenderedIs
  <2>6. CASE n + (l - 1) <= f
    <3>1. ShotVoice(w, d, n + (l - 1))
      BY <1>3, <2>2, <2>6
    <3>2. IF n + (l - 1) + 1 <= FramesOf(w.tone, d)
          THEN ShotVoice(x, d, n + (l - 1) + 1) /\ x.out = w.tone.pan
          ELSE x.dead = TRUE /\ x.out = "none"
      BY <2>1, <2>4, <3>1, ShotFrame
    <3>3. IF n + l <= f THEN ShotVoice(x, d, n + l) /\ x.out = v.tone.pan
          ELSE x.dead = TRUE /\ x.out = "none"
      BY <1>0, <2>1, <2>3, <3>2
    <3> QED
      BY <2>1, <2>5, <3>3
  <2>7. CASE ~(n + (l - 1) <= f)
    <3>1. w.dead = TRUE
      BY <1>3, <2>2, <2>7
    <3>2. x.dead = TRUE /\ x.out = "none"
      BY <2>4, <3>1, DeadFrame
    <3>3. ~(n + l <= f)
      BY <2>1, <2>7
    <3> QED
      BY <2>1, <2>5, <3>2, <3>3
  <2> QED
    BY <2>6, <2>7
<1>4. \A l \in 0..BufferFrames : l \in good
  <2> HIDE DEF good
  <2> QED
    BY <1>1, <1>2, <1>3, UpTo
<1> QED
  BY <1>0, <1>4

\* The last sample of a tone of the shot in its first n frames.
LastAt(t, d, n) == LastOf(IF n <= FramesOf(t, d) THEN n ELSE FramesOf(t, d), t.pan)

\* The shot after n frames.
ShotPlayed(d, n) ==
  /\ \A v \in m_Voices : v.tone \in Shot /\ n <= FramesOf(v.tone, d) /\ ShotVoice(v, d, n)
  /\ \A t \in Shot : n <= FramesOf(t, d) => \E v \in m_Voices : v.tone = t
  /\ heard = 0 \/ \E t \in Shot : n > 0 /\ heard = LastAt(t, d, n)
  /\ n > 0 => \A t \in Shot : LastAt(t, d, n) <= heard

AllSustained == \A t \in Shot : t.sustain > 0

LEMMA LastFrames ==
  ASSUME IsShot, NEW t \in Shot, NEW d \in Pitches, NEW n \in Nat
  PROVE  /\ LastAt(t, d, n) \in Int /\ LastAt(t, d, n) <= 2 * n
         /\ n > 0 => LastAt(t, d, n) >= 1
         /\ n >= FramesOf(t, d) => LastAt(t, d, n) = LastOf(FramesOf(t, d), t.pan)
         /\ n <= FramesOf(t, d) => LastAt(t, d, n) = LastOf(n, t.pan)
<1>1. PICK f \in Nat \ {0} : f = FramesOf(t, d)
  BY ShotIs
<1> QED
  BY <1>1 DEF LastAt, LastOf

\* The voices a buffer begins with are heard in its frames until they end.
LEMMA ShotSamples ==
  ASSUME SongInv, IsShot, NEW d \in Pitches, NEW n \in Nat, ShotPlayed(d, n)
  PROVE  /\ \A x \in HeardSamples : x = 0 \/
              \E v \in m_Voices, k \in 1..BufferFrames :
                n + k <= FramesOf(v.tone, d) /\ x = LastOf(k, v.tone.pan)
         /\ \A v \in m_Voices, k \in 1..BufferFrames :
              n + k <= FramesOf(v.tone, d) => LastOf(k, v.tone.pan) \in HeardSamples
<1>0. BufferFrames \in Nat
  BY SequencerAssumption
<1>1. ASSUME NEW v \in m_Voices, NEW k \in 1..BufferFrames
      PROVE  /\ n + k <= FramesOf(v.tone, d) => Rendered(v)[k].out = v.tone.pan
             /\ ~(n + k <= FramesOf(v.tone, d)) => Rendered(v)[k].out = "none"
             /\ v.tone.pan # "none"
  <2>1. v \in Voices /\ v.tone \in Shot /\ n <= FramesOf(v.tone, d) /\ ShotVoice(v, d, n)
    BY DEF ShotPlayed, SongInv
  <2>2. k \in 0..BufferFrames /\ k > 0
    BY <1>0
  <2>3. PICK w : w = Rendered(v)[k]
    OBVIOUS
  <2>4. IF n + k <= FramesOf(v.tone, d) THEN ShotVoice(w, d, n + k) /\ (k > 0 => w.out = v.tone.pan)
        ELSE w.dead = TRUE /\ (k > 0 => w.out = "none")
    BY <2>1, <2>2, <2>3, ShotBuffer
  <2>5. v.tone.pan # "none"
    BY <2>1, ToneIs
  <2> QED
    BY <2>2, <2>3, <2>4, <2>5
<1>2. \A out : \A k \in 1..BufferFrames : LastOf(k, out) \in 1..2 * BufferFrames
  BY <1>0 DEF LastOf
<1>3. ASSUME NEW x \in HeardSamples, x # 0
      PROVE  \E v \in m_Voices, k \in 1..BufferFrames :
               n + k <= FramesOf(v.tone, d) /\ x = LastOf(k, v.tone.pan)
  <2>1. PICK v \in m_Voices, k \in 1..BufferFrames :
          Rendered(v)[k].out # "none" /\ x = LastOf(k, Rendered(v)[k].out)
    BY <1>3 DEF HeardSamples
  <2>2. n + k <= FramesOf(v.tone, d)
    BY <1>1, <2>1
  <2>3. x = LastOf(k, v.tone.pan)
    BY <1>1, <2>1, <2>2
  <2> QED
    BY <2>2, <2>3
<1>4. ASSUME NEW v \in m_Voices, NEW k \in 1..BufferFrames, n + k <= FramesOf(v.tone, d)
      PROVE  LastOf(k, v.tone.pan) \in HeardSamples
  <2>1. Rendered(v)[k].out = v.tone.pan /\ v.tone.pan # "none"
    BY <1>1, <1>4
  <2>2. PICK x : x = LastOf(k, v.tone.pan)
    OBVIOUS
  <2>3. x \in 1..2 * BufferFrames /\ Rendered(v)[k].out # "none" /\ x = LastOf(k, Rendered(v)[k].out)
    BY <1>2, <2>1, <2>2
  <2> QED
    BY <2>2, <2>3 DEF HeardSamples
<1> QED
  BY <1>3, <1>4

\* The frames of a tone in a buffer of b frames that begins n frames after it.
LEMMA LastInBuffer ==
  ASSUME IsShot, NEW t \in Shot, NEW d \in Pitches, NEW n \in Nat, NEW b \in Nat \ {0},
         n < FramesOf(t, d)
  PROVE  \E k \in 1..b :
           /\ n + k <= FramesOf(t, d) /\ LastAt(t, d, n + b) = 2 * n + LastOf(k, t.pan)
           /\ \A l \in 1..b : n + l <= FramesOf(t, d) => l <= k
<1>1. PICK f \in Nat \ {0} : f = FramesOf(t, d)
  BY ShotIs
<1>2. PICK k \in Nat : k = IF n + b <= f THEN b ELSE f - n
  BY <1>1
<1>3. k \in 1..b /\ n + k <= f /\ \A l \in 1..b : n + l <= f => l <= k
  BY <1>1, <1>2
<1>4. (IF n + b <= f THEN n + b ELSE f) = n + k
  BY <1>1, <1>2
<1>5. LastAt(t, d, n + b) = LastOf(n + k, t.pan)
  BY <1>1, <1>4 DEF LastAt
<1>6. LastOf(n + k, t.pan) = 2 * n + LastOf(k, t.pan)
  BY DEF LastOf
<1> QED
  BY <1>1, <1>3, <1>5, <1>6

LEMMA ShotHeard ==
  ASSUME SongInv, IsShot, NEW d \in Pitches, NEW n \in Nat, n = mCurrentSampleIndex,
         ShotPlayed(d, n), AllWritten, AliveRenderAudio
  PROVE  /\ heard' = 0 \/ \E t \in Shot : heard' = LastAt(t, d, n + BufferFrames)
         /\ \A t \in Shot : LastAt(t, d, n + BufferFrames) <= heard'
<1>1. PICK b \in Nat \ {0} : b = BufferFrames
  BY SequencerAssumption
<1>2. PICK x \in Nat : x = Max(HeardSamples)
  <2>1. Max(HeardSamples) \in 0..2 * BufferFrames
    BY LastHeardIs
  <2> QED
    BY <1>1, <2>1
<1>3. x \in HeardSamples /\ \A y \in HeardSamples : y <= x
  BY <1>2, LastHeardIs
<1>4. heard' = IF HeardSamples = {0} THEN heard ELSE 2 * n + x
  BY <1>2, RenderAudioIs
<1>5. heard \in Nat
  BY DEF AllWritten
<1>6. /\ \A y \in HeardSamples : y = 0 \/
           \E v \in m_Voices, k \in 1..b : n + k <= FramesOf(v.tone, d) /\ y = LastOf(k, v.tone.pan)
      /\ \A v \in m_Voices, k \in 1..b :
           n + k <= FramesOf(v.tone, d) => LastOf(k, v.tone.pan) \in HeardSamples
  BY <1>1, ShotSamples
<1>7. \A k \in Nat \ {0} : \A out : LastOf(k, out) >= 1 /\ LastOf(k, out) \in Nat
  BY DEF LastOf
<1>8. ASSUME NEW t \in Shot, n < FramesOf(t, d)
      PROVE  \E y \in HeardSamples : y \in Nat /\ y >= 1 /\ LastAt(t, d, n + b) = 2 * n + y
  <2>1. PICK f \in Nat : f = FramesOf(t, d)
    BY ShotIs
  <2>2. n <= FramesOf(t, d)
    BY <1>8, <2>1
  <2>3. PICK v \in m_Voices : v.tone = t
    BY <2>2 DEF ShotPlayed
  <2>4. PICK k \in 1..b : n + k <= FramesOf(t, d) /\ LastAt(t, d, n + b) = 2 * n + LastOf(k, t.pan)
    BY <1>8, LastInBuffer
  <2>5. LastOf(k, t.pan) \in HeardSamples
    BY <1>6, <2>3, <2>4
  <2>6. LastOf(k, t.pan) >= 1 /\ LastOf(k, t.pan) \in Nat
    BY <1>7
  <2> QED
    BY <2>4, <2>5, <2>6
<1>9. ASSUME NEW t \in Shot, ~(n < FramesOf(t, d))
      PROVE  /\ LastAt(t, d, n + b) = LastAt(t, d, n) /\ n > 0
             /\ LastAt(t, d, n) <= 2 * n /\ LastAt(t, d, n) \in Int
  <2>1. PICK f \in Nat \ {0} : f = FramesOf(t, d)
    BY ShotIs
  <2>2. n >= f /\ n > 0 /\ n + b >= f /\ n + b \in Nat
    BY <1>9, <2>1
  <2> QED
    BY <2>1, <2>2, LastFrames
<1>10. CASE HeardSamples = {0}
  <2>1. ASSUME NEW t \in Shot PROVE ~(n < FramesOf(t, d))
    BY <1>8, <1>10
  <2>2. \A t \in Shot : LastAt(t, d, n + b) = LastAt(t, d, n) /\ n > 0
    BY <1>9, <2>1
  <2>3. heard' = heard
    BY <1>4, <1>10
  <2>4. heard = 0 \/ \E t \in Shot : heard = LastAt(t, d, n)
    BY DEF ShotPlayed
  <2>5. \A t \in Shot : LastAt(t, d, n) <= heard
    BY <2>2 DEF ShotPlayed
  <2> QED
    BY <1>1, <2>2, <2>3, <2>4, <2>5
<1>11. CASE HeardSamples # {0}
  <2>1. heard' = 2 * n + x
    BY <1>4, <1>11
  <2>2. x # 0
    <3>1. PICK y \in HeardSamples : y # 0
      BY <1>3, <1>11
    <3>2. y \in Nat /\ y <= x
      BY <1>3, <3>1, LastHeardIs, SequencerAssumption
    <3> QED
      BY <3>1, <3>2
  <2>3. PICK v \in m_Voices, k \in 1..b : n + k <= FramesOf(v.tone, d) /\ x = LastOf(k, v.tone.pan)
    BY <1>3, <1>6, <2>2
  <2>4. PICK t \in Shot : t = v.tone
    BY DEF ShotPlayed
  <2>5. PICK f \in Nat : f = FramesOf(t, d)
    BY ShotIs
  <2>6. n < FramesOf(t, d)
    BY <2>3, <2>4, <2>5
  <2>7. PICK l \in 1..b : /\ n + l <= FramesOf(t, d) /\ LastAt(t, d, n + b) = 2 * n + LastOf(l, t.pan)
                         /\ \A i \in 1..b : n + i <= FramesOf(t, d) => i <= l
    BY <2>6, LastInBuffer
  <2>8. k <= l
    BY <2>3, <2>4, <2>7
  <2>9. LastOf(l, t.pan) \in HeardSamples
    BY <1>6, <2>4, <2>7
  <2>10. LastOf(l, t.pan) <= x
    BY <1>3, <2>9
  <2>11. l = k
    BY <2>3, <2>4, <2>8, <2>10 DEF LastOf
  <2>12. heard' = LastAt(t, d, n + b)
    BY <2>1, <2>3, <2>4, <2>7, <2>11
  <2>13. ASSUME NEW s \in Shot PROVE LastAt(s, d, n + b) <= heard'
    <3>1. CASE n < FramesOf(s, d)
      <4>1. PICK y \in HeardSamples : y \in Nat /\ LastAt(s, d, n + b) = 2 * n + y
        BY <1>8, <3>1
      <4>2. y <= x
        BY <1>3
      <4> QED
        BY <2>1, <4>1, <4>2
    <3>2. CASE ~(n < FramesOf(s, d))
      BY <1>9, <2>1, <3>2
    <3> QED
      BY <3>1, <3>2
  <2> QED
    BY <1>1, <2>12, <2>13
<1> QED
  BY <1>10, <1>11

LEMMA ShotRendered ==
  ASSUME SongInv, IsShot, NEW d \in Pitches, ShotPlayed(d, mCurrentSampleIndex), AllWritten,
         AliveRenderAudio
  PROVE  ShotPlayed(d, mCurrentSampleIndex)'
<1>0. PICK n \in Nat : n = mCurrentSampleIndex
  BY DEF SongInv
<1>1. PICK b \in Nat \ {0} : b = BufferFrames
  BY SequencerAssumption
<1>2. /\ m_Voices' = {w \in {Rendered(v)[b] : v \in m_Voices} : ~w.dead}
      /\ mCurrentSampleIndex' = n + b /\ song' = song
  BY <1>0, <1>1, RenderAudioIs
<1>3. /\ Shot' = Shot
      /\ \A t : FramesOf(t, d)' = FramesOf(t, d)
      /\ \A v : ShotVoice(v, d, n + b)' <=> ShotVoice(v, d, n + b)
  <2>1. Shot' = Shot
    BY <1>2 DEF Shot
  <2>2. \A t : FramesOf(t, d)' = FramesOf(t, d)
    BY <1>2 DEF FramesOf
  <2>3. \A v : ShotVoice(v, d, n + b)' <=> ShotVoice(v, d, n + b)
    BY <1>2, <2>1 DEF ShotVoice
  <2> QED
    BY <2>1, <2>2, <2>3
<1>4. ASSUME NEW v \in m_Voices
      PROVE  /\ v \in Voices /\ v.tone \in Shot
             /\ Rendered(v)[b] \in Voices /\ Rendered(v)[b].tone = v.tone
             /\ IF n + b <= FramesOf(v.tone, d) THEN ShotVoice(Rendered(v)[b], d, n + b)
                ELSE Rendered(v)[b].dead = TRUE
  <2>1. v \in Voices /\ v.tone \in Shot /\ n <= FramesOf(v.tone, d) /\ ShotVoice(v, d, n)
    BY <1>0 DEF ShotPlayed, SongInv
  <2>2. b \in 0..BufferFrames
    BY <1>1
  <2>3. PICK w : w = Rendered(v)[b]
    OBVIOUS
  <2>4. w \in Voices /\ w.tone = v.tone
    BY <2>1, <2>2, <2>3, RenderedAre DEF SameNote
  <2>5. IF n + b <= FramesOf(v.tone, d) THEN ShotVoice(w, d, n + b) ELSE w.dead = TRUE
    BY <2>1, <2>2, <2>3, ShotBuffer
  <2> QED
    BY <2>1, <2>3, <2>4, <2>5
<1>5. ASSUME NEW w \in m_Voices'
      PROVE  w.tone \in Shot /\ n + b <= FramesOf(w.tone, d) /\ ShotVoice(w, d, n + b)
  <2>1. PICK v \in m_Voices : w = Rendered(v)[b] /\ ~w.dead
    BY <1>2
  <2>2. n + b <= FramesOf(v.tone, d)
    BY <1>4, <2>1
  <2> QED
    BY <1>4, <2>1, <2>2
<1>6. ASSUME NEW t \in Shot, n + b <= FramesOf(t, d) PROVE \E w \in m_Voices' : w.tone = t
  <2>1. PICK f \in Nat : f = FramesOf(t, d)
    BY ShotIs
  <2>2. n <= FramesOf(t, d)
    BY <1>6, <2>1
  <2>3. PICK v \in m_Voices : v.tone = t
    BY <1>0, <2>2 DEF ShotPlayed
  <2>4. ShotVoice(Rendered(v)[b], d, n + b) /\ Rendered(v)[b].tone = t
    BY <1>4, <1>6, <2>3
  <2>5. Rendered(v)[b].dead = FALSE
    BY <2>4 DEF ShotVoice
  <2>6. Rendered(v)[b] \in m_Voices'
    BY <1>2, <2>5
  <2> QED
    BY <2>4, <2>6
<1>7. /\ heard' = 0 \/ \E t \in Shot : heard' = LastAt(t, d, n + b)
      /\ \A t \in Shot : LastAt(t, d, n + b) <= heard'
  BY <1>0, <1>1, ShotHeard
<1>8. \A t : LastAt(t, d, n + b)' = LastAt(t, d, n + b)
  BY <1>3 DEF LastAt
<1>9. n + b > 0
  OBVIOUS
<1>10. ShotPlayed(d, n + b)'
  BY <1>3, <1>5, <1>6, <1>7, <1>8, <1>9 DEF ShotPlayed
<1> QED
  BY <1>2, <1>10 DEF ShotPlayed, ShotVoice, LastAt

-----------------------------------------------------------------------------
(* The end of a sound *)

ShotInv ==
  Songs[song].kind # "seq" /\ m_PlayerState = "FINISHED" /\ touched = FALSE /\ AllSustained =>
    \E d \in Pitches : ShotPlayed(d, mCurrentSampleIndex)

SameShot(n) ==
  /\ Shot' = Shot /\ (AllSustained' <=> AllSustained)
  /\ \A d : ShotPlayed(d, n)' <=> ShotPlayed(d, n)

LEMMA ShotStays ==
  ASSUME UNCHANGED <<song, m_Voices, heard>>, NEW n
  PROVE  SameShot(n)
<1>1. Shot' = Shot
  BY DEF Shot
<1>2. \A t, d : FramesOf(t, d)' = FramesOf(t, d)
  BY DEF FramesOf
<1>3. \A v, d : ShotVoice(v, d, n)' <=> ShotVoice(v, d, n)
  BY <1>1 DEF ShotVoice
<1>4. \A t, d : LastAt(t, d, n)' = LastAt(t, d, n)
  BY <1>2 DEF LastAt
<1>5. \A d : ShotPlayed(d, n)' <=> ShotPlayed(d, n)
  BY <1>1, <1>2, <1>3, <1>4 DEF ShotPlayed
<1> QED
  BY <1>1, <1>5 DEF SameShot, AllSustained

LEMMA ShotInit == ASSUME SequencerInit PROVE ShotInv
<1>1. SUFFICES ASSUME Songs[song].kind # "seq", AllSustained
               PROVE  \E d \in Pitches : ShotPlayed(d, 0)
  BY DEF SequencerInit, ShotInv
<1>2. IsShot /\ heard = 0
  BY <1>1 DEF SequencerInit, IsShot
<1>3. PICK d \in Pitches : ShotMade(d)
  BY <1>1 DEF SequencerInit, ShotMade
<1>4. PICK program \in DOMAIN Tones : program = Songs[song].program
  BY <1>2, SequencerAssumption DEF IsShot
<1>5. PICK note \in Nat : note = Songs[song].note /\ note \in DOMAIN Rate
  BY <1>2, SequencerAssumption DEF IsShot
<1>6. PICK rate \in Nat : rate = Rate[note] + d
  <2>1. Rate[note] \in Nat /\ d \in Nat
    BY <1>3, <1>5, SequencerAssumption
  <2> QED
    BY <2>1
<1>7. m_Voices = NewVoices(program, note, 0, rate, TRUE, 1)
  BY <1>3, <1>4, <1>5, <1>6 DEF ShotMade
<1>8. Shot = {t \in Tones[program] : note \in t.min..t.max}
  BY <1>4, <1>5 DEF Shot
<1>9. ASSUME NEW v \in m_Voices
      PROVE  v.tone \in Shot /\ 0 <= FramesOf(v.tone, d) /\ ShotVoice(v, d, 0)
  <2>1. v \in Voices /\ IsNew(v, program, note, 0, rate, TRUE, 1)
    BY <1>7, NewVoicesAre
  <2>2. v.tone \in Shot
    BY <1>8, <2>1 DEF IsNew
  <2>3. 0 <= FramesOf(v.tone, d)
    BY <1>2, <2>2, ShotIs
  <2>4. v.tone.sustain > 0
    BY <1>1, <2>2 DEF AllSustained
  <2>5. 0 * v.rate = 0
    BY <1>6, <2>1 DEF IsNew
  <2>6. v.delay <= 0 /\ v.level >= 0
    BY <2>1 DEF IsNew
  <2> QED
    BY <1>5, <1>6, <2>1, <2>2, <2>3, <2>4, <2>5, <2>6 DEF IsNew, ShotVoice
<1>10. ASSUME NEW t \in Shot PROVE \E v \in m_Voices : v.tone = t
  <2>1. t \in {tone \in Tones[program] : note \in tone.min..tone.max}
    BY <1>8
  <2>2. PICK v :
          v = [message |-> 1, tone |-> t, program |-> program, note |-> note, rate |-> rate,
               ignoreLoops |-> TRUE, delay |-> 0, usesOff |-> FALSE, offDelay |-> 0,
               on |-> TRUE, dead |-> FALSE, adsr |-> "attack", level |-> 0, offset |-> 0, out |-> "none"]
    OBVIOUS
  <2>3. v \in m_Voices
    BY <1>7, <2>1, <2>2 DEF NewVoices
  <2>4. v.tone = t
    BY <2>2
  <2> QED
    BY <2>3, <2>4
<1>11. ShotPlayed(d, 0)
  <2>1. ~(0 > 0)
    OBVIOUS
  <2> QED
    BY <1>2, <1>9, <1>10, <2>1 DEF ShotPlayed
<1> QED
  BY <1>11

LEMMA ShotBufferStep ==
  ASSUME SongInv, Played, AllWritten, ShotInv, AliveRenderAudio PROVE ShotInv'
<1>1. UNCHANGED <<song, m_PlayerState, touched>>
  BY RenderAudioIs
<1>2. AllSustained' <=> AllSustained
  BY <1>1 DEF AllSustained, Shot
<1> SUFFICES ASSUME Songs[song].kind # "seq", m_PlayerState = "FINISHED", touched = FALSE, AllSustained
             PROVE  \E d \in Pitches : ShotPlayed(d, mCurrentSampleIndex)'
  BY <1>1, <1>2 DEF ShotInv
<1>3. PICK d \in Pitches : ShotPlayed(d, mCurrentSampleIndex)
  BY DEF ShotInv
<1>4. IsShot
  BY DEF IsShot, Played
<1> QED
  BY <1>3, <1>4, ShotRendered

LEMMA ShotStep ==
  ASSUME SongInv, Played, AllWritten, ShotInv, [SequencerNext]_sequencerVars PROVE ShotInv'
<1>1. ASSUME UNCHANGED <<song, mCurrentSampleIndex, m_Voices, heard, touched>>,
             Songs[song].kind # "seq" => m_PlayerState' = m_PlayerState
      PROVE  ShotInv'
  <2>1. PICK n : n = mCurrentSampleIndex
    OBVIOUS
  <2>2. SameShot(n)
    BY <1>1, ShotStays
  <2>3. \A d : ShotPlayed(d, mCurrentSampleIndex)' <=> ShotPlayed(d, n)
    BY <1>1, <2>1, <2>2 DEF SameShot, ShotPlayed, ShotVoice, LastAt
  <2> QED
    BY <1>1, <2>1, <2>2, <2>3 DEF ShotInv, SameShot
<1>2. ASSUME NEW next, SequenceUpdate(next) PROVE ShotInv'
  <2>1. CASE Songs[song].kind # "seq"
    <3>1. m_PlayerState \in {"FINISHED", "STOPPED"}
      BY <2>1 DEF Played
    <3>2. UNCHANGED <<song, mCurrentSampleIndex, m_Voices, heard, touched, m_PlayerState>>
      BY <1>2, <3>1 DEF SequenceUpdate
    <3> QED
      BY <1>1, <3>2
  <2>2. CASE Songs[song].kind = "seq"
    BY <1>2, <2>2 DEF SequenceUpdate, ShotInv
  <2> QED
    BY <2>1, <2>2
<1>3. CASE ConvertUpdate
  BY <1>2, <1>3 DEF ConvertUpdate
<1>4. CASE ConvertPlay
  BY <1>4, ShotBufferStep DEF ConvertPlay
<1>5. CASE ConvertConsume
  BY <1>1, <1>5 DEF ConvertConsume, sequenceVars
<1>6. CASE CancelConversion
  BY <1>1, <1>6 DEF CancelConversion, sequenceVars
<1>7. CASE PlayerErased
  BY <1>1, <1>7 DEF PlayerErased, sequenceVars
<1>8. CASE PlayerUpdate
  BY <1>2, <1>8 DEF PlayerUpdate
<1>9. CASE PlayerPlay
  BY <1>9, ShotBufferStep DEF PlayerPlay
<1>10. CASE StopSequence
  BY <1>10 DEF StopSequence, ShotInv
<1>11. CASE PlayTone
  BY <1>11 DEF PlayTone, ShotInv
<1>12. CASE UNCHANGED sequencerVars
  BY <1>1, <1>12 DEF sequencerVars, sequenceVars
<1> QED
  BY <1>3, <1>4, <1>5, <1>6, <1>7, <1>8, <1>9, <1>10, <1>11, <1>12 DEF SequencerNext, ConvertStep

\* A shot none of whose voices is left was heard to the end of its longest tone.
LEMMA ShotOver ==
  ASSUME SongInv, IsShot, NEW d \in Pitches, ShotPlayed(d, mCurrentSampleIndex), m_Voices = {},
         heard \in Nat
  PROVE  heard = LastOfShot(d)
<1>1. PICK n \in Nat : n = mCurrentSampleIndex
  BY DEF SongInv
<1>2. ASSUME NEW t \in Shot
      PROVE  /\ n > 0 /\ LastAt(t, d, n) = LastOf(FramesOf(t, d), t.pan)
             /\ LastAt(t, d, n) \in Int /\ LastAt(t, d, n) <= heard
  <2>1. PICK f \in Nat \ {0} : f = FramesOf(t, d)
    BY ShotIs
  <2>2. ~(n <= FramesOf(t, d))
    BY <1>1 DEF ShotPlayed
  <2>3. n > 0 /\ n >= FramesOf(t, d)
    BY <2>1, <2>2
  <2>4. LastAt(t, d, n) <= heard
    BY <1>1, <2>3 DEF ShotPlayed
  <2> QED
    BY <2>3, <2>4, LastFrames
<1> DEFINE ends == {0} \cup {LastOf(FramesOf(t, d), t.pan) : t \in Shot}
<1>3. LastOfShot(d) = Max(ends)
  BY Zenon DEF LastOfShot, LastOf
<1>4. heard \in ends
  <2>1. heard = 0 \/ \E t \in Shot : heard = LastAt(t, d, n)
    BY <1>1 DEF ShotPlayed
  <2> QED
    BY <1>2, <2>1
<1>5. ends \subseteq Int /\ \A x \in ends : x <= heard
  <2>1. \A x \in ends : x = 0 \/ \E t \in Shot : x = LastAt(t, d, n)
    BY <1>2
  <2>2. ASSUME NEW x \in ends PROVE x \in Int /\ x <= heard
    <3>1. x = 0 \/ \E t \in Shot : x = LastAt(t, d, n)
      BY <2>1, <2>2
    <3> HIDE DEF ends
    <3> QED
      BY <1>2, <3>1
  <2> HIDE DEF ends
  <2> QED
    BY <2>2
<1>6. Max(ends) = heard
  <2> HIDE DEF ends
  <2> QED
    BY <1>4, <1>5, Largest
<1> QED
  BY <1>3, <1>6

PlayerInv == SongInv /\ Played /\ AllWritten /\ NotesPending /\ ShotInv

LEMMA PlayerInvHolds == SequencerSpec => []PlayerInv
<1>1. SequencerInit => PlayerInv
  BY SongInit, PlayedInit, ShotInit DEF PlayerInv
<1>2. PlayerInv /\ [SequencerNext]_sequencerVars => PlayerInv'
  BY SongStep, PlayedStep, WrittenStep, PendingStep, ShotStep DEF PlayerInv
<1> QED
  BY <1>1, <1>2, PTL DEF SequencerSpec

(* Whatever the song and the bank, a sound that comes to its end was heard   *)
(* as a whole, and its file has all of it (SequencePlayer::AtEnd,            *)
(* AudioConverter::Convert).                                                 *)
THEOREM SoundsToTheEnd == SequencerSpec => []EndsWithItsSound
<1>1. PlayerInv => EndsWithItsSound
  <2> SUFFICES ASSUME PlayerInv PROVE EndsWithItsSound
    OBVIOUS
  <2> USE DEF PlayerInv
  <2>1. ASSUME Converted \/ PlayedToTheEnd
        PROVE  m_Voices = {} /\ m_PlayerState = "FINISHED" /\ touched = FALSE
    BY <2>1 DEF Converted, PlayedToTheEnd, Played, AtEnd
  <2>2. ASSUME Converted \/ PlayedToTheEnd, Songs[song].kind = "seq"
        PROVE  {i \in Ons : Sings(i)} \subseteq sounded
    BY <2>1, <2>2 DEF NotesPending
  <2>3. ASSUME Converted \/ PlayedToTheEnd, Songs[song].kind # "seq", AllSustained
        PROVE  \E pitch \in Pitches : heard = LastOfShot(pitch)
    <3>1. IsShot /\ heard \in Nat
      BY <2>3 DEF Played, AllWritten, IsShot
    <3>2. PICK d \in Pitches : ShotPlayed(d, mCurrentSampleIndex)
      BY <2>1, <2>3 DEF ShotInv
    <3>3. heard = LastOfShot(d)
      BY <2>1, <2>3, <3>1, <3>2, ShotOver
    <3> QED
      BY <3>3
  <2>4. Converted => written >= heard - 1
    BY DEF Converted, AllWritten, Played
  <2> QED
    BY <2>2, <2>3, <2>4 DEF EndsWithItsSound, AllSustained
<1> QED
  BY <1>1, PlayerInvHolds, PTL

=============================================================================
