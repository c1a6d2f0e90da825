---------------------------- MODULE ResourceCache ----------------------------
(***************************************************************************)
(* ResourceCache and its user ResourceLocator (src/resourcemapper.cpp,     *)
(* include/resourcemapper.hpp): archives and animation sets are shared by  *)
(* whoever uses them and found again through weak pointers; the deleter of *)
(* the last shared pointer takes the entry out of the map.                 *)
(*                                                                         *)
(* Animations are located and dropped for the main thread, sounds by the   *)
(* jobs of the sound cache.  Locating holds ResourceLocator::mMutex from   *)
(* end to end; dropping an animation holds no mutex.  An access to a map   *)
(* is one step here: that the deleter's is not under ResourceCache::mMutex *)
(* shows only as the order of the steps, not as torn data.                 *)
(***************************************************************************)
EXTENDS Naturals, Sequences, Functions

CONSTANTS
  Main, SoundJobs,        \* the threads
  Animations,        \* the Animation objects there may be at a time
  Resources, Sounds, \* names of animations, of sounds
  Locations,         \* the archives a resource is in, in order
  SetOf,             \* the animation set (file and chunk) of an animation
  Present,           \* the archives that can be opened
  InArchive,          \* <<name, archive>>: its animation set or sound bank is there
  Objects            \* identities of archives and sets in memory

None == "none"
Threads == {Main} \cup SoundJobs

ASSUME CacheAssumption ==
  /\ Main \notin SoundJobs /\ Threads \cap Animations = {} /\ None \notin Objects \cup Threads
  /\ Resources \cap Sounds = {}

VARIABLES
  overlaps,          \* whether animations are dropped while jobs locate sounds
  mMutex,            \* ResourceLocator::mMutex: its owner or None
  cache,             \* mOpenLvls and mAnimationSets: key to weak pointer
  keyOf,             \* the key in the deleter of an object; <<>> when not in memory
  holders,           \* who has a shared pointer to an object
  doing, task, anim

cacheVars == <<overlaps, mMutex, cache, keyOf, holders, doing, task, anim>>

NoTask == [name |-> None, rest |-> <<>>, lvl |-> None, set |-> None, drop |-> <<>>]
NoAnim == [lvl |-> None, set |-> None]

CacheInit ==
  /\ overlaps \in BOOLEAN
  /\ mMutex = None
  /\ cache = [k \in {} |-> None]
  /\ keyOf = [o \in Objects |-> <<>>]
  /\ holders = [o \in Objects |-> {}]
  /\ doing = [t \in Threads |-> "idle"]
  /\ task = [t \in Threads |-> NoTask]
  /\ anim = [a \in Animations |-> NoAnim]

\* What a thread looks for: the archive first, then the set in the archive.
Key(t) ==
  LET lvl == Head(task[t].rest)
  IN IF task[t].lvl = None THEN <<lvl>> ELSE <<lvl, SetOf[task[t].name]>>
Field(t) == IF task[t].lvl = None THEN "lvl" ELSE "set"

Does(t, what) == doing' = [doing EXCEPT ![t] = what]
Got(t, o) == task' = [task EXCEPT ![t][Field(t)] = o]

-----------------------------------------------------------------------------
(* Locating *)

Quiet == \A t \in Threads : doing[t] \notin {"drop", "erase", "delete"}

LocateBegin(t, name) ==
  /\ doing[t] = "idle" /\ mMutex = None
  /\ overlaps \/ Quiet
  /\ IF t = Main THEN name \in Resources /\ \E a \in Animations : anim[a] = NoAnim
                 ELSE name \in Sounds
  /\ mMutex' = t
  /\ task' = [task EXCEPT ![t] = [NoTask EXCEPT !.name = name, !.rest = Locations[name]]]
  /\ Does(t, "get")
  /\ UNCHANGED <<overlaps, cache, keyOf, holders, anim>>

\* Every location has been tried, or the sound was in the last one.
LocateEnds(t) ==
  /\ doing[t] = "get" /\ task[t].rest = <<>>
  /\ mMutex' = None /\ Does(t, "idle") /\ task' = [task EXCEPT ![t] = NoTask]
  /\ UNCHANGED <<overlaps, cache, keyOf, holders, anim>>

\* ResourceCache::Get: lock() of an expired weak pointer is null.
Get(t) ==
  /\ doing[t] = "get" /\ task[t].rest # <<>>
  /\ Key(t) \in DOMAIN cache /\ holders[cache[Key(t)]] # {}
  /\ holders' = [holders EXCEPT ![cache[Key(t)]] = @ \cup {t}]
  /\ Got(t, cache[Key(t)]) /\ Does(t, "use")
  /\ UNCHANGED <<overlaps, mMutex, cache, keyOf, anim>>

\* FileSystem::Open finds the archive, FileByName and ChunkById find the set.
Exists(t) ==
  LET lvl == Head(task[t].rest)
  IN IF task[t].lvl = None THEN lvl \in Present ELSE <<task[t].name, lvl>> \in InArchive

\* Without an archive the next location is tried; a set that is not in its
\* archive is a null pointer that AnimationSetHolder uses.
NotCached(t) ==
  /\ doing[t] = "get" /\ task[t].rest # <<>>
  /\ Key(t) \in DOMAIN cache => holders[cache[Key(t)]] = {}
  /\ \/ Exists(t) /\ Does(t, "find") /\ UNCHANGED task
     \/ ~Exists(t) /\ task[t].lvl = None
        /\ task' = [task EXCEPT ![t].rest = Tail(@)] /\ UNCHANGED doing
     \/ ~Exists(t) /\ task[t].lvl # None /\ Does(t, "crashed") /\ UNCHANGED task
  /\ UNCHANGED <<overlaps, mMutex, cache, keyOf, holders, anim>>

\* The main thread has mMutex still, so nobody else is locating.
Crashed == doing[Main] = "crashed" /\ UNCHANGED cacheVars

\* ResourceCache::Add: the assertion, before the cache's mutex is taken.
AddAssert(t) ==
  /\ doing[t] = "find" /\ Does(t, "insert")
  /\ UNCHANGED <<overlaps, mMutex, cache, keyOf, holders, task, anim>>

\* std::map::insert changes nothing when the key is there.
CacheWith(key, o) == [k \in DOMAIN cache \cup {key} |-> IF k \in DOMAIN cache THEN cache[k] ELSE o]

\* The objects there is room for (a bound).
Unused == {o \in Objects : keyOf[o] = <<>> /\ o \notin Range(cache)}

AddInsert(t) ==
  /\ doing[t] = "insert" /\ Unused # {}
  /\ LET o == CHOOSE o \in Unused : TRUE IN
       /\ keyOf' = [keyOf EXCEPT ![o] = Key(t)]
       /\ holders' = [holders EXCEPT ![o] = {t}]
       /\ cache' = CacheWith(Key(t), o)
       /\ Got(t, o)
  /\ Does(t, "use")
  /\ UNCHANGED <<overlaps, mMutex, anim>>

\* The main thread has the archive and looks for the set.
UseLvl ==
  /\ doing[Main] = "use" /\ task[Main].set = None
  /\ Does(Main, "get")
  /\ UNCHANGED <<overlaps, mMutex, cache, keyOf, holders, task, anim>>

\* The Animation keeps what the locator's variables held.
Animate(a) ==
  /\ doing[Main] = "use" /\ task[Main].set # None
  /\ anim[a] = NoAnim
  /\ anim' = [anim EXCEPT ![a] = [lvl |-> task[Main].lvl, set |-> task[Main].set]]
  /\ holders' = [o \in Objects |-> IF Main \in holders[o] THEN (holders[o] \ {Main}) \cup {a} ELSE holders[o]]
  /\ mMutex' = None /\ Does(Main, "idle") /\ task' = [task EXCEPT ![Main] = NoTask]
  /\ UNCHANGED <<overlaps, cache, keyOf>>

\* A job reads the sound, or not, and lets go of the archive.
UseSound(t) ==
  /\ t \in SoundJobs /\ doing[t] = "use"
  /\ LET found == <<task[t].name, Head(task[t].rest)>> \in InArchive
     IN task' = [task EXCEPT ![t].lvl = None, ![t].drop = <<task[t].lvl>>,
                             ![t].rest = IF found THEN <<>> ELSE Tail(@)]
  /\ Does(t, "drop")
  /\ UNCHANGED <<overlaps, mMutex, cache, keyOf, holders, anim>>

-----------------------------------------------------------------------------
(* Dropping *)

\* ~Animation on the main thread: the set, then the archive.
DropAnimation(a) ==
  /\ doing[Main] = "idle" /\ anim[a] # NoAnim
  /\ overlaps \/ mMutex = None
  /\ task' = [task EXCEPT ![Main] = [NoTask EXCEPT !.name = a, !.drop = <<anim[a].set, anim[a].lvl>>]]
  /\ anim' = [anim EXCEPT ![a] = NoAnim]
  /\ Does(Main, "drop")
  /\ UNCHANGED <<overlaps, mMutex, cache, keyOf, holders>>

Holder(t) == IF t = Main THEN task[t].name ELSE t
Dropped(t) == task' = [task EXCEPT ![t].drop = Tail(@)]

\* A shared pointer goes; the last one calls the deleter.
DropPointer(t) ==
  /\ doing[t] = "drop" /\ task[t].drop # <<>>
  /\ LET o == Head(task[t].drop) IN
       /\ holders' = [holders EXCEPT ![o] = @ \ {Holder(t)}]
       /\ IF holders[o] = {Holder(t)} THEN Does(t, "erase") /\ UNCHANGED task
                                      ELSE Dropped(t) /\ UNCHANGED doing
  /\ UNCHANGED <<overlaps, mMutex, cache, keyOf, anim>>

\* Mutant: the entry is left for the next Add to replace.
EraseNothing(t) ==
  /\ doing[t] = "erase" /\ Does(t, "delete")
  /\ UNCHANGED <<overlaps, mMutex, cache, keyOf, holders, task, anim>>

\* AutoRemoveFromContainerDeleter: the entry of the key, whosever it is.
EraseEntry(t) ==
  /\ doing[t] = "erase" /\ Does(t, "delete")
  /\ cache' = Restrict(cache, DOMAIN cache \ {keyOf[Head(task[t].drop)]})
  /\ UNCHANGED <<overlaps, mMutex, keyOf, holders, task, anim>>

DeleteObject(t) ==
  /\ doing[t] = "delete" /\ Does(t, "drop")
  /\ keyOf' = [keyOf EXCEPT ![Head(task[t].drop)] = <<>>]
  /\ Dropped(t)
  /\ UNCHANGED <<overlaps, mMutex, cache, holders, anim>>

DropEnds(t) ==
  /\ doing[t] = "drop" /\ task[t].drop = <<>>
  /\ IF mMutex = t THEN Does(t, "get") /\ UNCHANGED task
                   ELSE Does(t, "idle") /\ task' = [task EXCEPT ![t] = NoTask]
  /\ UNCHANGED <<overlaps, mMutex, cache, keyOf, holders, anim>>

CacheNext ==
  \/ \E t \in Threads :
       \/ \E name \in Resources \cup Sounds : LocateBegin(t, name)
       \/ LocateEnds(t) \/ Get(t) \/ NotCached(t) \/ AddAssert(t) \/ AddInsert(t)
       \/ UseSound(t) \/ DropPointer(t) \/ EraseEntry(t) \/ DeleteObject(t) \/ DropEnds(t)
  \/ UseLvl \/ Crashed
  \/ \E a \in Animations : Animate(a) \/ DropAnimation(a)

CacheSpec == CacheInit /\ [][CacheNext]_cacheVars

-----------------------------------------------------------------------------
(* Properties *)

(* The deleter takes the entry of an object out before the object is freed:  *)
(* no weak pointer stays behind, on which Add's insert would do nothing from *)
(* then on (AutoRemoveFromContainerDeleter), jobs overlapping or not.        *)
EntriesAreInMemory == \A k \in DOMAIN cache : keyOf[cache[k]] = k

(* What anybody uses is what the next one that looks for it is given: as     *)
(* long as nothing is dropped while a job locates, no archive is open twice  *)
(* and no animation set is in memory twice (ResourceCache::Add and Get).     *)
UsedIsShared ==
  ~overlaps => \A o \in Objects :
    holders[o] # {} => keyOf[o] \in DOMAIN cache /\ cache[keyOf[o]] = o

(* The map and the objects agree, for whoever asks next (ResourceCache).      *)
MapAndObjectsAgree == EntriesAreInMemory /\ UsedIsShared

(* Add is called for what is not in the map: the assertion of                *)
(* resourcemapper.hpp:626, of a class that says it is "Thread safe" (:590).  *)
AddFindsNothing == \A t \in Threads : doing[t] = "find" => Key(t) \notin DOMAIN cache

=============================================================================
