--------------------------- MODULE ResourceProofs ---------------------------
(***************************************************************************)
(* For any threads, archives and animations: no entry of the cache outlives *)
(* its object, and what is in use is found by whoever looks for it.  For    *)
(* any files of a disc and any readers: a file of a CD image is a file.     *)
(* For any archives of a disc: a chunk is found and read whole.             *)
(***************************************************************************)
EXTENDS ResourceCache, LvlArchive, SequenceTheorems, TLAPS

TaskFields == {"name", "rest", "lvl", "set", "drop"}
Pointers == Objects \cup {None}

CacheTypes ==
  /\ DOMAIN doing = Threads /\ DOMAIN task = Threads
  /\ DOMAIN keyOf = Objects /\ DOMAIN holders = Objects /\ DOMAIN anim = Animations
  /\ \A t \in Threads :
       /\ DOMAIN task[t] = TaskFields /\ task[t].drop \in Seq(Objects)
       /\ task[t].lvl \in Pointers /\ task[t].set \in Pointers
       /\ doing[t] = "use" => task[t].lvl \in Objects
  /\ \A a \in Animations : anim[a] = NoAnim \/ (anim[a].lvl \in Objects /\ anim[a].set \in Objects)

\* The threads in a deleter, and the object it is about.
Deleting(t) == doing[t] \in {"erase", "delete"}
Last(t) == Head(task[t].drop)

\* Between a deleter's steps its object has no user, is in memory, and is no
\* other deleter's.
DeleterInv ==
  /\ \A t \in Threads : Deleting(t) =>
       /\ task[t].drop # <<>> /\ Last(t) \in Objects
       /\ holders[Last(t)] = {} /\ keyOf[Last(t)] # <<>>
  /\ \A t, u \in Threads : Deleting(t) /\ Deleting(u) /\ Last(t) = Last(u) => t = u

EntryInv ==
  /\ \A k \in DOMAIN cache : cache[k] \in Objects /\ keyOf[cache[k]] = k
  /\ \A o \in Objects : holders[o] # {} => keyOf[o] # <<>>
  /\ \A t \in Threads : doing[t] = "delete" => \A k \in DOMAIN cache : cache[k] # Last(t)

MemoryInv == CacheTypes /\ DeleterInv /\ EntryInv

\* While nothing is dropped during a search only one thread does anything; an
\* entry has users until its deleter has started, and is its object's only one.
OwnerInv ==
  /\ \A t \in Threads :
       doing[t] # "idle" /\ (t = Main => doing[t] \notin {"drop", "erase", "delete"}) => mMutex = t
  /\ \A t, u \in Threads : doing[t] # "idle" /\ doing[u] # "idle" => t = u

\* What is used is in the map, what is searched in vain is not.
FoundInv ==
  \A o \in Objects : holders[o] # {} => keyOf[o] \in DOMAIN cache /\ cache[keyOf[o]] = o
ErasedInv(t) ==
  doing[t] = "erase" => keyOf[Last(t)] \in DOMAIN cache /\ cache[keyOf[Last(t)]] = Last(t)
MissedInv(t) == doing[t] \in {"find", "insert"} => Key(t) \notin DOMAIN cache
LivingInv(t) ==
  \A k \in DOMAIN cache : holders[cache[k]] # {} \/ (doing[t] = "erase" /\ Last(t) = cache[k])

SharedInv ==
  ~overlaps =>
    /\ OwnerInv /\ FoundInv
    /\ \A t \in Threads : ErasedInv(t) /\ MissedInv(t)
    /\ \A k \in DOMAIN cache :
         holders[cache[k]] # {} \/ \E t \in Threads : doing[t] = "erase" /\ Last(t) = cache[k]

-----------------------------------------------------------------------------
(* Entries and deleters *)

\* Steps that touch neither the maps nor the objects, and no deleter.
LEMMA QuietStep ==
  ASSUME MemoryInv, UNCHANGED <<cache, keyOf, holders>>, CacheTypes',
         \A t \in Threads :
           Deleting(t)' => doing'[t] = doing[t] /\ task'[t] = task[t]
  PROVE  MemoryInv'
<1>1. \A t \in Threads : Deleting(t)' => Deleting(t) /\ Last(t)' = Last(t)
  BY DEF Deleting, Last
<1>2. DeleterInv'
  BY <1>1 DEF MemoryInv, DeleterInv, Last
<1>3. EntryInv'
  BY <1>1 DEF MemoryInv, EntryInv, Deleting
<1> QED
  BY <1>2, <1>3 DEF MemoryInv

LEMMA InitMemory == CacheInit => MemoryInv
<1> SUFFICES ASSUME CacheInit PROVE MemoryInv
  OBVIOUS
<1>1. NoTask.drop \in Seq(Objects) /\ NoTask.lvl \in Pointers /\ NoTask.set \in Pointers
      /\ DOMAIN NoTask = TaskFields
  BY EmptySeq DEF NoTask, Pointers, TaskFields
<1>2. CacheTypes
  BY <1>1 DEF CacheInit, CacheTypes
<1> QED
  BY <1>2 DEF CacheInit, MemoryInv, DeleterInv, EntryInv, Deleting

\* What a thread does next, and with what.
LEMMA BeginStep ==
  ASSUME MemoryInv, NEW t \in Threads, NEW name, LocateBegin(t, name)
  PROVE  MemoryInv'
<1>1. PICK new : new = [NoTask EXCEPT !.name = name, !.rest = Locations[name]]
  OBVIOUS
<1>2. /\ task' = [task EXCEPT ![t] = new] /\ doing' = [doing EXCEPT ![t] = "get"]
      /\ UNCHANGED <<cache, keyOf, holders, anim>>
  BY <1>1 DEF LocateBegin, Does
<1>3. DOMAIN new = TaskFields /\ new.drop = <<>> /\ new.lvl = None /\ new.set = None
  BY <1>1 DEF NoTask, TaskFields
<1>4. new.drop \in Seq(Objects) /\ new.lvl \in Pointers /\ new.set \in Pointers
  BY <1>3, EmptySeq DEF Pointers
<1>5. CacheTypes'
  BY <1>2, <1>3, <1>4 DEF MemoryInv, CacheTypes
<1> QED
  BY <1>2, <1>5, QuietStep DEF Deleting, MemoryInv, CacheTypes

LEMMA IdleStep ==
  ASSUME MemoryInv, NEW t \in Threads, UNCHANGED <<cache, keyOf, holders, anim>>,
         doing' = [doing EXCEPT ![t] = "idle"], task' = [task EXCEPT ![t] = NoTask]
  PROVE  MemoryInv'
<1>1. NoTask.drop \in Seq(Objects) /\ NoTask.lvl \in Pointers /\ NoTask.set \in Pointers
      /\ DOMAIN NoTask = TaskFields
  BY EmptySeq DEF NoTask, Pointers, TaskFields
<1>2. CacheTypes'
  BY <1>1 DEF MemoryInv, CacheTypes
<1> QED
  BY <1>2, QuietStep DEF Deleting, MemoryInv, CacheTypes

LEMMA TurnStep ==
  ASSUME MemoryInv, NEW t \in Threads, NEW now \in {"get", "find", "insert", "crashed"},
         UNCHANGED <<cache, keyOf, holders, task, anim>>, doing' = [doing EXCEPT ![t] = now]
  PROVE  MemoryInv'
<1>1. CacheTypes'
  BY DEF MemoryInv, CacheTypes
<1> QED
  BY <1>1, QuietStep DEF Deleting, MemoryInv, CacheTypes

\* What is found is an object, and the archive is known when anything is.
LEMMA GotTypes ==
  ASSUME CacheTypes, NEW t \in Threads, NEW o \in Objects, Got(t, o)
  PROVE  /\ DOMAIN task' = Threads /\ \A u \in Threads : u # t => task'[u] = task[u]
         /\ DOMAIN task'[t] = TaskFields /\ task'[t].drop = task[t].drop
         /\ task'[t].lvl \in Objects /\ task'[t].set \in Pointers
<1>1. /\ DOMAIN task = Threads /\ DOMAIN task[t] = TaskFields
      /\ task[t].lvl \in Pointers /\ task[t].set \in Pointers
  BY DEF CacheTypes
<1>2. CASE task[t].lvl = None
  <2>1. task' = [task EXCEPT ![t]["lvl"] = o]
    BY <1>2 DEF Got, Field
  <2> QED
    BY <1>1, <2>1 DEF TaskFields
<1>3. CASE task[t].lvl # None
  <2>1. task' = [task EXCEPT ![t]["set"] = o]
    BY <1>3 DEF Got, Field
  <2> QED
    BY <1>1, <1>3, <2>1 DEF TaskFields, Pointers
<1> QED
  BY <1>2, <1>3

LEMMA UseTypes ==
  ASSUME CacheTypes, NEW t \in Threads, NEW o \in Objects, Got(t, o),
         doing' = [doing EXCEPT ![t] = "use"], anim' = anim,
         DOMAIN keyOf' = Objects, DOMAIN holders' = Objects
  PROVE  CacheTypes'
<1>1. DOMAIN doing' = Threads /\ DOMAIN task' = Threads
  BY GotTypes DEF CacheTypes
<1>2. ASSUME NEW u \in Threads
      PROVE  /\ DOMAIN task'[u] = TaskFields /\ task'[u].drop \in Seq(Objects)
             /\ task'[u].lvl \in Pointers /\ task'[u].set \in Pointers
             /\ doing'[u] = "use" => task'[u].lvl \in Objects
  <2>1. CASE u = t
    BY <2>1, GotTypes DEF CacheTypes, Pointers
  <2>2. CASE u # t
    <3>1. task'[u] = task[u] /\ doing'[u] = doing[u]
      BY <2>2, GotTypes DEF CacheTypes
    <3> QED
      BY <3>1 DEF CacheTypes
  <2> QED
    BY <2>1, <2>2
<1> QED
  BY <1>1, <1>2 DEF CacheTypes

LEMMA GetStep == ASSUME MemoryInv, NEW t \in Threads, Get(t) PROVE MemoryInv'
<1>1. PICK o : o = cache[Key(t)]
  OBVIOUS
<1>2. /\ o \in Objects /\ holders[o] # {} /\ holders' = [holders EXCEPT ![o] = @ \cup {t}]
      /\ Got(t, o) /\ doing' = [doing EXCEPT ![t] = "use"] /\ UNCHANGED <<cache, keyOf, anim>>
  BY <1>1 DEF Get, Does, MemoryInv, EntryInv
<1>3. CacheTypes'
  <2>1. DOMAIN keyOf' = Objects /\ DOMAIN holders' = Objects
    BY <1>2 DEF MemoryInv, CacheTypes
  <2> QED
    BY <1>2, <2>1, UseTypes DEF MemoryInv
<1>4. \A u \in Threads : Deleting(u)' =>
        /\ Deleting(u) /\ Last(u)' = Last(u) /\ doing'[u] = doing[u]
        /\ u # t
  BY <1>2, GotTypes DEF Deleting, Last, MemoryInv, CacheTypes
<1>5. \A p \in Objects : holders'[p] = {} <=> holders[p] = {}
  BY <1>2 DEF MemoryInv, CacheTypes
<1>6. DeleterInv'
  <2>1. ASSUME NEW u \in Threads, Deleting(u)'
        PROVE  /\ task'[u].drop # <<>> /\ Last(u)' \in Objects
               /\ holders'[Last(u)'] = {} /\ keyOf'[Last(u)'] # <<>>
    <3>1. task'[u] = task[u]
      BY <1>2, <1>4, <2>1, GotTypes DEF MemoryInv
    <3> QED
      BY <1>2, <1>4, <1>5, <2>1, <3>1 DEF MemoryInv, DeleterInv
  <2> QED
    BY <1>4, <2>1 DEF MemoryInv, DeleterInv, Last
<1>7. EntryInv'
  BY <1>2, <1>4, <1>5 DEF MemoryInv, EntryInv, Deleting
<1> QED
  BY <1>3, <1>6, <1>7 DEF MemoryInv

\* A new object is no deleter's, and takes over nobody's entry.
LEMMA InsertStep == ASSUME MemoryInv, NEW t \in Threads, AddInsert(t) PROVE MemoryInv'
<1>1. PICK o : o = CHOOSE p \in Unused : TRUE
  OBVIOUS
<1>2. o \in Objects /\ keyOf[o] = <<>> /\ \A k \in DOMAIN cache : cache[k] # o
  <2>1. o \in Unused
    BY <1>1 DEF AddInsert
  <2> QED
    BY <2>1 DEF Unused, Range
<1>3. PICK key : key = Key(t)
  OBVIOUS
<1>4. key # <<>>
  BY <1>3 DEF Key
<1>5. /\ keyOf' = [keyOf EXCEPT ![o] = key] /\ holders' = [holders EXCEPT ![o] = {t}]
      /\ cache' = CacheWith(key, o) /\ Got(t, o)
      /\ doing' = [doing EXCEPT ![t] = "use"] /\ UNCHANGED anim
  BY <1>1, <1>3 DEF AddInsert, Does
<1>6. CacheTypes'
  <2>1. DOMAIN keyOf' = Objects /\ DOMAIN holders' = Objects
    BY <1>5 DEF MemoryInv, CacheTypes
  <2> QED
    BY <1>2, <1>5, <2>1, UseTypes DEF MemoryInv
<1>7. \A u \in Threads : Deleting(u)' =>
        /\ Deleting(u) /\ task'[u] = task[u] /\ Last(u)' = Last(u) /\ doing'[u] = doing[u]
        /\ Last(u) \in Objects /\ Last(u) # o
  <2>1. ASSUME NEW u \in Threads, Deleting(u)' PROVE Deleting(u) /\ u # t /\ doing'[u] = doing[u]
    BY <1>5, <2>1 DEF Deleting, MemoryInv, CacheTypes
  <2>2. ASSUME NEW u \in Threads, Deleting(u)' PROVE task'[u] = task[u]
    BY <1>2, <1>5, <2>1, <2>2, GotTypes DEF MemoryInv
  <2> QED
    BY <1>2, <2>1, <2>2 DEF Last, MemoryInv, DeleterInv
<1>8. DeleterInv'
  BY <1>2, <1>5, <1>7 DEF MemoryInv, DeleterInv, CacheTypes
<1>9. \A k \in DOMAIN cache' : \/ k \in DOMAIN cache /\ cache'[k] = cache[k]
                               \/ k = key /\ cache'[k] = o
  BY <1>5 DEF CacheWith
<1>10. EntryInv'
  <2>1. \A p \in Objects : /\ keyOf'[p] = IF p = o THEN key ELSE keyOf[p]
                           /\ holders'[p] = IF p = o THEN {t} ELSE holders[p]
    BY <1>5 DEF MemoryInv, CacheTypes
  <2>2. \A k \in DOMAIN cache' : cache'[k] \in Objects /\ keyOf'[cache'[k]] = k
    BY <1>2, <1>9, <2>1 DEF MemoryInv, EntryInv
  <2>3. \A p \in Objects : holders'[p] # {} => keyOf'[p] # <<>>
    BY <1>4, <2>1 DEF MemoryInv, EntryInv
  <2>4. \A u \in Threads : doing'[u] = "delete" => \A k \in DOMAIN cache' : cache'[k] # Last(u)'
    BY <1>7, <1>9 DEF MemoryInv, EntryInv, Deleting
  <2> QED
    BY <2>2, <2>3, <2>4 DEF EntryInv
<1> QED
  BY <1>6, <1>8, <1>10 DEF MemoryInv

\* The Animation takes over what the main thread has in its hands.
LEMMA AnimateStep == ASSUME MemoryInv, NEW a \in Animations, Animate(a) PROVE MemoryInv'
<1>1. Main \in Threads
  BY DEF Threads
<1>2. /\ doing[Main] = "use" /\ doing' = [doing EXCEPT ![Main] = "idle"]
      /\ task' = [task EXCEPT ![Main] = NoTask]
      /\ anim' = [anim EXCEPT ![a] = [lvl |-> task[Main].lvl, set |-> task[Main].set]]
      /\ task[Main].set # None /\ UNCHANGED <<cache, keyOf>>
  BY DEF Animate, Does
<1>3. DOMAIN holders' = Objects /\ \A o \in Objects : holders'[o] = {} <=> holders[o] = {}
  BY DEF Animate
<1>4. NoTask.drop \in Seq(Objects) /\ NoTask.lvl \in Pointers /\ NoTask.set \in Pointers
      /\ DOMAIN NoTask = TaskFields
  BY EmptySeq DEF NoTask, Pointers, TaskFields
<1>5. CacheTypes'
  <2>1. \A b \in Animations : anim'[b] = NoAnim \/ (anim'[b].lvl \in Objects /\ anim'[b].set \in Objects)
    BY <1>1, <1>2 DEF MemoryInv, CacheTypes, Pointers
  <2>2. ASSUME NEW t \in Threads
        PROVE  /\ DOMAIN task'[t] = TaskFields /\ task'[t].drop \in Seq(Objects)
               /\ task'[t].lvl \in Pointers /\ task'[t].set \in Pointers
               /\ doing'[t] = "use" => task'[t].lvl \in Objects
    BY <1>2, <1>4 DEF MemoryInv, CacheTypes
  <2>3. DOMAIN doing' = Threads /\ DOMAIN task' = Threads /\ DOMAIN keyOf' = Objects /\ DOMAIN anim' = Animations
    BY <1>2 DEF MemoryInv, CacheTypes
  <2> QED
    BY <1>3, <2>1, <2>2, <2>3 DEF CacheTypes
<1>6. \A u \in Threads : Deleting(u)' => Deleting(u) /\ doing'[u] = doing[u] /\ task'[u] = task[u]
  BY <1>2 DEF Deleting, MemoryInv, CacheTypes
<1>7. DeleterInv'
  BY <1>2, <1>3, <1>6, SMTT(30) DEF MemoryInv, DeleterInv, Last
<1>8. EntryInv'
  BY <1>2, <1>3, <1>6 DEF MemoryInv, EntryInv, Deleting, Last
<1> QED
  BY <1>5, <1>7, <1>8 DEF MemoryInv

\* A task that changes for a thread that is not in a deleter afterwards.
LEMMA TaskStep ==
  ASSUME MemoryInv, NEW t \in Threads, NEW new, task' = [task EXCEPT ![t] = new],
         DOMAIN new = TaskFields, new.drop \in Seq(Objects), new.lvl \in Pointers, new.set \in Pointers,
         NEW now \in {"get", "drop"}, doing' = [doing EXCEPT ![t] = now],
         DOMAIN anim' = Animations,
         \A a \in Animations : anim'[a] \in {anim[a], NoAnim},
         UNCHANGED <<cache, keyOf, holders>>
  PROVE  MemoryInv'
<1>1. CacheTypes'
  BY DEF MemoryInv, CacheTypes
<1> QED
  BY <1>1, QuietStep DEF Deleting, MemoryInv, CacheTypes

LEMMA UseSoundStep == ASSUME MemoryInv, NEW t \in Threads, UseSound(t) PROVE MemoryInv'
<1>1. PICK rest : task' = [task EXCEPT ![t].lvl = None, ![t].drop = <<task[t].lvl>>, ![t].rest = rest]
  <2>1. task' = [task EXCEPT ![t].lvl = None, ![t].drop = <<task[t].lvl>>,
                     ![t].rest = IF <<task[t].name, Head(task[t].rest)>> \in InArchive THEN <<>> ELSE Tail(@)]
    BY DEF UseSound
  <2> QED
    BY <2>1
<1>2. PICK new : new = [task[t] EXCEPT !.lvl = None, !.drop = <<task[t].lvl>>, !.rest = rest]
  OBVIOUS
<1>3. DOMAIN task = Threads /\ DOMAIN task[t] = TaskFields /\ task[t].lvl \in Objects /\ task[t].set \in Pointers
  BY DEF MemoryInv, CacheTypes, UseSound
<1>4. task' = [task EXCEPT ![t] = new]
  BY <1>1, <1>2, <1>3
<1>5. DOMAIN new = TaskFields /\ new.drop = <<task[t].lvl>> /\ new.lvl = None /\ new.set = task[t].set
  BY <1>2, <1>3 DEF TaskFields
<1>6. new.drop \in Seq(Objects) /\ new.lvl \in Pointers /\ new.set \in Pointers
  BY <1>3, <1>5 DEF Pointers
<1>7. doing' = [doing EXCEPT ![t] = "drop"] /\ UNCHANGED <<cache, keyOf, holders, anim>>
  BY DEF UseSound, Does
<1>8. DOMAIN anim' = Animations
  BY <1>7 DEF MemoryInv, CacheTypes
<1> QED
  BY <1>4, <1>5, <1>6, <1>7, <1>8, TaskStep

LEMMA DropAnimationStep == ASSUME MemoryInv, NEW a \in Animations, DropAnimation(a) PROVE MemoryInv'
<1>1. PICK new : new = [NoTask EXCEPT !.name = a, !.drop = <<anim[a].set, anim[a].lvl>>]
  OBVIOUS
<1>2. /\ task' = [task EXCEPT ![Main] = new] /\ doing' = [doing EXCEPT ![Main] = "drop"]
      /\ anim' = [anim EXCEPT ![a] = NoAnim] /\ UNCHANGED <<cache, keyOf, holders>>
  BY <1>1 DEF DropAnimation, Does
<1>3. DOMAIN new = TaskFields /\ new.drop = <<anim[a].set, anim[a].lvl>> /\ new.lvl = None /\ new.set = None
  BY <1>1 DEF NoTask, TaskFields
<1>4. new.drop \in Seq(Objects) /\ new.lvl \in Pointers /\ new.set \in Pointers
  BY <1>3 DEF Pointers, DropAnimation, MemoryInv, CacheTypes
<1>5. DOMAIN anim' = Animations /\ \A b \in Animations : anim'[b] \in {anim[b], NoAnim}
  BY <1>2 DEF MemoryInv, CacheTypes
<1>6. Main \in Threads
  BY DEF Threads
<1> QED
  BY <1>2, <1>3, <1>4, <1>5, <1>6, TaskStep

LEMMA NotCachedStep == ASSUME MemoryInv, NEW t \in Threads, NotCached(t) PROVE MemoryInv'
<1>1. CASE task' = [task EXCEPT ![t].rest = Tail(@)] /\ UNCHANGED doing
  <2>1. DOMAIN task' = Threads /\ (\A u \in Threads : u # t => task'[u] = task[u])
        /\ DOMAIN task'[t] = TaskFields /\ task'[t].drop = task[t].drop
        /\ task'[t].lvl = task[t].lvl /\ task'[t].set = task[t].set
    BY <1>1 DEF MemoryInv, CacheTypes, TaskFields
  <2>2. UNCHANGED <<cache, keyOf, holders, anim>> /\ doing[t] = "get"
    BY DEF NotCached
  <2>3. CacheTypes'
    <3>1. ASSUME NEW u \in Threads
          PROVE  /\ DOMAIN task'[u] = TaskFields /\ task'[u].drop \in Seq(Objects)
                 /\ task'[u].lvl \in Pointers /\ task'[u].set \in Pointers
                 /\ doing'[u] = "use" => task'[u].lvl \in Objects
      BY <1>1, <2>1 DEF MemoryInv, CacheTypes
    <3> QED
      BY <1>1, <2>1, <2>2, <3>1 DEF MemoryInv, CacheTypes
  <2> QED
    BY <1>1, <2>1, <2>2, <2>3, QuietStep DEF Deleting
<1>2. CASE Does(t, "find") /\ UNCHANGED task
  BY <1>2, TurnStep DEF NotCached, Does
<1>3. CASE Does(t, "crashed") /\ UNCHANGED task
  BY <1>3, TurnStep DEF NotCached, Does
<1>4. \/ task' = [task EXCEPT ![t].rest = Tail(@)] /\ UNCHANGED doing
      \/ Does(t, "find") /\ UNCHANGED task
      \/ Does(t, "crashed") /\ UNCHANGED task
  BY Zenon DEF NotCached
<1> QED
  BY <1>1, <1>2, <1>3, <1>4

\* A task of which only the first pointer to drop goes.
LEMMA DroppedTypes ==
  ASSUME CacheTypes, NEW t \in Threads, Dropped(t), task[t].drop # <<>>
  PROVE  /\ DOMAIN task' = Threads /\ \A u \in Threads : u # t => task'[u] = task[u]
         /\ DOMAIN task'[t] = TaskFields /\ task'[t].drop \in Seq(Objects)
         /\ task'[t].lvl = task[t].lvl /\ task'[t].set = task[t].set
<1>1. DOMAIN task = Threads /\ DOMAIN task[t] = TaskFields /\ task[t].drop \in Seq(Objects)
  BY DEF CacheTypes
<1>2. PICK remaining : remaining = Tail(task[t].drop)
  OBVIOUS
<1>3. remaining \in Seq(Objects)
  BY <1>1, <1>2, HeadTailProperties
<1>4. task' = [task EXCEPT ![t].drop = remaining]
  BY <1>2 DEF Dropped
<1> QED
  BY <1>1, <1>3, <1>4 DEF TaskFields

LEMMA FirstDropped ==
  ASSUME CacheTypes, NEW t \in Threads, task[t].drop # <<>>
  PROVE  Last(t) \in Objects
BY HeadTailProperties DEF CacheTypes, Last

\* The last pointer that goes starts the deleter, of an object that no other
\* deleter has: those have no users.
LEMMA DropPointerStep == ASSUME MemoryInv, NEW t \in Threads, DropPointer(t) PROVE MemoryInv'
<1>1. PICK o : o = Last(t)
  OBVIOUS
<1>2. o \in Objects /\ doing[t] = "drop" /\ task[t].drop # <<>>
  BY <1>1, FirstDropped DEF DropPointer, MemoryInv
<1>3. /\ holders' = [holders EXCEPT ![o] = @ \ {Holder(t)}]
      /\ UNCHANGED <<cache, keyOf, anim>>
  BY <1>1 DEF DropPointer, Last
<1>4. DOMAIN holders' = Objects /\ \A p \in Objects : holders[p] = {} => holders'[p] = {}
  BY <1>3 DEF MemoryInv, CacheTypes
<1>5. CASE holders[o] = {Holder(t)}
  <2>1. doing' = [doing EXCEPT ![t] = "erase"] /\ UNCHANGED task
    BY <1>1, <1>5 DEF DropPointer, Last, Does
  <2>2. CacheTypes'
    BY <1>3, <1>4, <2>1 DEF MemoryInv, CacheTypes
  <2>3. holders'[o] = {} /\ keyOf[o] # <<>>
    BY <1>2, <1>3, <1>5 DEF MemoryInv, CacheTypes, EntryInv
  <2>4. \A u \in Threads : Last(u)' = Last(u)
    BY <2>1 DEF Last
  <2>5. \A u \in Threads : /\ Deleting(u)' => u = t \/ Deleting(u)
                           /\ doing'[u] = "delete" => doing[u] = "delete"
    BY <2>1 DEF Deleting, MemoryInv, CacheTypes
  <2>6. DeleterInv'
    <3>1. ASSUME NEW u \in Threads, Deleting(u)'
          PROVE  /\ task'[u].drop # <<>> /\ Last(u)' \in Objects
                 /\ holders'[Last(u)'] = {} /\ keyOf'[Last(u)'] # <<>>
      BY <1>1, <1>2, <1>3, <1>4, <2>1, <2>3, <2>4, <2>5, <3>1 DEF MemoryInv, DeleterInv
    <3>2. \A u \in Threads : Deleting(u) => Last(u) # o
      BY <1>2, <1>5 DEF MemoryInv, DeleterInv
    <3>3. ASSUME NEW u \in Threads, NEW v \in Threads, Deleting(u)', Deleting(v)', Last(u)' = Last(v)'
          PROVE  u = v
      BY <1>1, <2>4, <2>5, <3>2, <3>3 DEF MemoryInv, DeleterInv
    <3> QED
      BY <3>1, <3>3 DEF DeleterInv
  <2>7. EntryInv'
    BY <1>3, <1>4, <2>4, <2>5 DEF MemoryInv, EntryInv
  <2> QED
    BY <2>2, <2>6, <2>7 DEF MemoryInv
<1>6. CASE holders[o] # {Holder(t)}
  <2>1. Dropped(t) /\ UNCHANGED doing
    BY <1>1, <1>6 DEF DropPointer, Last
  <2>2. DOMAIN task' = Threads /\ (\A u \in Threads : u # t => task'[u] = task[u])
        /\ DOMAIN task'[t] = TaskFields /\ task'[t].drop \in Seq(Objects)
        /\ task'[t].lvl = task[t].lvl /\ task'[t].set = task[t].set
    BY <1>2, <2>1, DroppedTypes DEF MemoryInv
  <2>3. CacheTypes'
    <3>1. ASSUME NEW u \in Threads
          PROVE  /\ DOMAIN task'[u] = TaskFields /\ task'[u].drop \in Seq(Objects)
                 /\ task'[u].lvl \in Pointers /\ task'[u].set \in Pointers
                 /\ doing'[u] = "use" => task'[u].lvl \in Objects
      BY <2>1, <2>2 DEF MemoryInv, CacheTypes
    <3> QED
      BY <1>3, <1>4, <2>1, <2>2, <3>1 DEF MemoryInv, CacheTypes
  <2>4. \A u \in Threads : Deleting(u)' =>
          Deleting(u) /\ task'[u] = task[u] /\ Last(u)' = Last(u) /\ doing'[u] = doing[u]
    BY <1>2, <2>1, <2>2 DEF Deleting, Last
  <2>5. DeleterInv'
    BY <1>3, <1>4, <2>4 DEF MemoryInv, DeleterInv
  <2>6. EntryInv'
    BY <1>3, <1>4, <2>1, <2>4 DEF MemoryInv, EntryInv, Deleting
  <2> QED
    BY <2>3, <2>5, <2>6 DEF MemoryInv
<1> QED
  BY <1>5, <1>6

\* The deleter takes out the entry of its key; if one was for its object, it
\* was that one.
LEMMA EraseStep == ASSUME MemoryInv, NEW t \in Threads, EraseEntry(t) PROVE MemoryInv'
<1>1. PICK o : o = Last(t)
  OBVIOUS
<1>2. /\ doing[t] = "erase" /\ doing' = [doing EXCEPT ![t] = "delete"]
      /\ cache' = Restrict(cache, DOMAIN cache \ {keyOf[o]})
      /\ UNCHANGED <<keyOf, holders, task, anim>>
  BY <1>1 DEF EraseEntry, Does, Last
<1>3. /\ DOMAIN cache' = DOMAIN cache \ {keyOf[o]}
      /\ \A k \in DOMAIN cache' : cache'[k] = cache[k]
  BY <1>2 DEF Restrict
<1>4. CacheTypes'
  BY <1>2 DEF MemoryInv, CacheTypes
<1>5. \A u \in Threads : /\ Deleting(u)' => Deleting(u)
                         /\ Last(u)' = Last(u)
                         /\ doing'[u] = "delete" => u = t \/ doing[u] = "delete"
  BY <1>2 DEF Deleting, Last, MemoryInv, CacheTypes
<1>6. DeleterInv'
  BY <1>2, <1>5 DEF MemoryInv, DeleterInv
<1>7. EntryInv'
  <2>1. \A k \in DOMAIN cache' : cache'[k] \in Objects /\ keyOf'[cache'[k]] = k
    BY <1>2, <1>3 DEF MemoryInv, EntryInv
  <2>2. \A k \in DOMAIN cache' : cache'[k] # o
    BY <1>2, <1>3 DEF MemoryInv, EntryInv
  <2>3. \A u \in Threads : doing'[u] = "delete" => \A k \in DOMAIN cache' : cache'[k] # Last(u)'
    BY <1>1, <1>3, <1>5, <2>2 DEF MemoryInv, EntryInv
  <2>4. \A p \in Objects : holders'[p] # {} => keyOf'[p] # <<>>
    BY <1>2 DEF MemoryInv, EntryInv
  <2> QED
    BY <2>1, <2>3, <2>4 DEF EntryInv
<1> QED
  BY <1>4, <1>6, <1>7 DEF MemoryInv

LEMMA DeleteStep == ASSUME MemoryInv, NEW t \in Threads, DeleteObject(t) PROVE MemoryInv'
<1>1. PICK o : o = Last(t)
  OBVIOUS
<1>2. /\ doing[t] = "delete" /\ doing' = [doing EXCEPT ![t] = "drop"]
      /\ keyOf' = [keyOf EXCEPT ![o] = <<>>] /\ Dropped(t) /\ UNCHANGED <<cache, holders, anim>>
  BY <1>1 DEF DeleteObject, Does, Last
<1>3. o \in Objects /\ holders[o] = {} /\ task[t].drop # <<>> /\ \A k \in DOMAIN cache : cache[k] # o
  BY <1>1, <1>2 DEF MemoryInv, DeleterInv, EntryInv, Deleting
<1>4. DOMAIN keyOf' = Objects /\ \A p \in Objects : keyOf'[p] = IF p = o THEN <<>> ELSE keyOf[p]
  BY <1>2 DEF MemoryInv, CacheTypes
<1>5. DOMAIN task' = Threads /\ (\A u \in Threads : u # t => task'[u] = task[u])
      /\ DOMAIN task'[t] = TaskFields /\ task'[t].drop \in Seq(Objects)
      /\ task'[t].lvl = task[t].lvl /\ task'[t].set = task[t].set
  BY <1>2, <1>3, DroppedTypes DEF MemoryInv
<1>6. CacheTypes'
  <2>1. ASSUME NEW u \in Threads
        PROVE  /\ DOMAIN task'[u] = TaskFields /\ task'[u].drop \in Seq(Objects)
               /\ task'[u].lvl \in Pointers /\ task'[u].set \in Pointers
               /\ doing'[u] = "use" => task'[u].lvl \in Objects
    BY <1>2, <1>5 DEF MemoryInv, CacheTypes
  <2> QED
    BY <1>2, <1>4, <1>5, <2>1 DEF MemoryInv, CacheTypes
<1>7. \A u \in Threads : Deleting(u)' =>
        /\ Deleting(u) /\ u # t /\ task'[u] = task[u] /\ Last(u)' = Last(u) /\ doing'[u] = doing[u]
  <2>1. \A u \in Threads : Deleting(u)' => u # t /\ doing'[u] = doing[u]
    BY <1>2 DEF Deleting, MemoryInv, CacheTypes
  <2> QED
    BY <1>5, <2>1 DEF Deleting, Last
<1>8. \A u \in Threads : Deleting(u)' => Last(u) # o
  BY <1>1, <1>2, <1>7 DEF MemoryInv, DeleterInv, Deleting
<1>9. DeleterInv'
  BY <1>2, <1>4, <1>7, <1>8 DEF MemoryInv, DeleterInv
<1>10. EntryInv'
  BY <1>2, <1>3, <1>4, <1>7 DEF MemoryInv, EntryInv, Deleting
<1> QED
  BY <1>6, <1>9, <1>10 DEF MemoryInv

LEMMA MemoryStep == MemoryInv /\ [CacheNext]_cacheVars => MemoryInv'
<1> SUFFICES ASSUME MemoryInv, [CacheNext]_cacheVars PROVE MemoryInv'
  OBVIOUS
<1>1. ASSUME NEW t \in Threads, LocateEnds(t) PROVE MemoryInv'
  BY <1>1, IdleStep DEF LocateEnds, Does
<1>2. ASSUME NEW t \in Threads, AddAssert(t) PROVE MemoryInv'
  BY <1>2, TurnStep DEF AddAssert, Does
<1>3. ASSUME NEW t \in Threads, DropEnds(t) PROVE MemoryInv'
  <2>1. CASE mMutex = t
    BY <1>3, <2>1, TurnStep DEF DropEnds, Does
  <2>2. CASE mMutex # t
    BY <1>3, <2>2, IdleStep DEF DropEnds, Does
  <2> QED
    BY <2>1, <2>2
<1>4. CASE UseLvl
  <2>1. Main \in Threads
    BY DEF Threads
  <2> QED
    BY <1>4, <2>1, TurnStep DEF UseLvl, Does
<1>5. CASE UNCHANGED cacheVars
  <2>1. CacheTypes'
    BY <1>5 DEF cacheVars, MemoryInv, CacheTypes
  <2> QED
    BY <1>5, <2>1, QuietStep DEF cacheVars
<1>6. CASE Crashed
  BY <1>5, <1>6 DEF Crashed
<1> QED
  BY <1>1, <1>2, <1>3, <1>4, <1>5, <1>6, BeginStep, GetStep, NotCachedStep, InsertStep, UseSoundStep,
     DropPointerStep, EraseStep, DeleteStep, AnimateStep, DropAnimationStep DEF CacheNext

\* The deleter takes the entry of an object out before the object is freed
\* (AutoRemoveFromContainerDeleter): no weak pointer stays behind, whoever
\* locates and drops at the same time.
THEOREM NoEntryStays == CacheSpec => []EntriesAreInMemory
<1>1. MemoryInv => EntriesAreInMemory
  BY DEF MemoryInv, EntryInv, EntriesAreInMemory
<1> QED
  BY <1>1, InitMemory, MemoryStep, PTL DEF CacheSpec

-----------------------------------------------------------------------------
(* Sharing *)

\* A thread that does something is alone, so a step of it need only be looked
\* at for itself.
LEMMA OthersIdle ==
  ASSUME SharedInv, ~overlaps, NEW t \in Threads, doing[t] # "idle"
  PROVE  /\ \A u \in Threads : u # t => doing[u] = "idle"
         /\ FoundInv /\ ErasedInv(t) /\ MissedInv(t) /\ LivingInv(t)
         /\ (t = Main => doing[t] \notin {"drop", "erase", "delete"}) => mMutex = t
<1>1. \A u \in Threads : u # t => doing[u] = "idle"
  BY DEF SharedInv, OwnerInv
<1>2. LivingInv(t)
  BY <1>1 DEF SharedInv, LivingInv
<1> QED
  BY <1>1, <1>2 DEF SharedInv, OwnerInv

LEMMA OneThread ==
  ASSUME NEW t \in Threads, \A u \in Threads : u # t => doing'[u] = "idle",
         FoundInv', ErasedInv(t)', MissedInv(t)', LivingInv(t)',
         doing'[t] # "idle" /\ (t = Main => doing'[t] \notin {"drop", "erase", "delete"}) => mMutex' = t
  PROVE  SharedInv'
<1>1. OwnerInv'
  BY DEF OwnerInv
<1>2. \A u \in Threads : ErasedInv(u)' /\ MissedInv(u)'
  BY DEF ErasedInv, MissedInv
<1> QED
  BY <1>1, <1>2 DEF SharedInv, LivingInv

\* A step of t that neither erases nor changes what is used of what is cached.
LEMMA PlainStep ==
  ASSUME NEW t \in Threads, \A u \in Threads : u # t => doing[u] = "idle",
         FoundInv, LivingInv(t), doing[t] # "erase",
         NEW now, now \notin {"erase", "find", "insert"},
         doing'[t] = now, \A u \in Threads : u # t => doing'[u] = doing[u], UNCHANGED <<cache, keyOf>>,
         \A o \in Objects : holders'[o] = {} <=> holders[o] = {},
         \A k \in DOMAIN cache : cache[k] \in Objects,
         now # "idle" /\ (t = Main => now \notin {"drop", "erase", "delete"}) => mMutex' = t
  PROVE  SharedInv'
<1>1. doing'[t] = now /\ \A u \in Threads : u # t => doing'[u] = "idle"
  OBVIOUS
<1>2. FoundInv' /\ LivingInv(t)'
  BY DEF FoundInv, LivingInv
<1>3. ErasedInv(t)' /\ MissedInv(t)'
  BY <1>1 DEF ErasedInv, MissedInv
<1>4. doing'[t] # "idle" /\ (t = Main => doing'[t] \notin {"drop", "erase", "delete"}) => mMutex' = t
  BY <1>1
<1> HIDE DEF FoundInv, LivingInv, ErasedInv, MissedInv, SharedInv
<1> QED
  BY <1>1, <1>2, <1>3, <1>4, OneThread

LEMMA OverlapsStay == [CacheNext]_cacheVars => overlaps' = overlaps
<1> SUFFICES ASSUME CacheNext PROVE overlaps' = overlaps
  BY DEF cacheVars
<1>1. ASSUME NEW t \in Threads, NEW name, LocateBegin(t, name) PROVE overlaps' = overlaps
  BY <1>1 DEF LocateBegin
<1>2. ASSUME NEW t \in Threads,
             LocateEnds(t) \/ Get(t) \/ NotCached(t) \/ AddAssert(t) \/ AddInsert(t)
      PROVE  overlaps' = overlaps
  BY <1>2 DEF LocateEnds, Get, NotCached, AddAssert, AddInsert
<1>3. ASSUME NEW t \in Threads,
             UseSound(t) \/ DropPointer(t) \/ EraseEntry(t) \/ DeleteObject(t) \/ DropEnds(t)
      PROVE  overlaps' = overlaps
  BY <1>3 DEF UseSound, DropPointer, EraseEntry, DeleteObject, DropEnds
<1>4. UseLvl => overlaps' = overlaps
  BY DEF UseLvl
<1>5. \A a \in Animations : Animate(a) \/ DropAnimation(a) => overlaps' = overlaps
  BY DEF Animate, DropAnimation
<1>6. Crashed => overlaps' = overlaps
  BY DEF Crashed, cacheVars
<1> QED
  BY <1>1, <1>2, <1>3, <1>4, <1>5, <1>6 DEF CacheNext

LEMMA SharedStep == MemoryInv /\ SharedInv /\ [CacheNext]_cacheVars => SharedInv'
<1> SUFFICES ASSUME MemoryInv, SharedInv, [CacheNext]_cacheVars, ~overlaps PROVE SharedInv'
  BY OverlapsStay DEF SharedInv
<1>0. /\ DOMAIN doing = Threads /\ DOMAIN holders = Objects /\ DOMAIN keyOf = Objects /\ Main \in Threads
      /\ \A k \in DOMAIN cache : cache[k] \in Objects /\ keyOf[cache[k]] = k
      /\ None \notin Threads
  BY CacheAssumption DEF MemoryInv, CacheTypes, EntryInv, Threads
<1>1. ASSUME NEW t \in Threads, NEW name, LocateBegin(t, name) PROVE SharedInv'
  <2>1. \A u \in Threads : doing[u] = "idle"
    BY <1>0, <1>1 DEF LocateBegin, Quiet, SharedInv, OwnerInv
  <2>2. FoundInv /\ LivingInv(t)
    BY <2>1 DEF SharedInv, LivingInv
  <2>3. doing' = [doing EXCEPT ![t] = "get"] /\ mMutex' = t /\ UNCHANGED <<cache, keyOf, holders>>
    BY <1>1 DEF LocateBegin, Does
  <2> QED
    BY <1>0, <2>1, <2>2, <2>3, PlainStep
<1>2. ASSUME NEW t \in Threads, LocateEnds(t) PROVE SharedInv'
  <2>1. doing[t] = "get" /\ doing' = [doing EXCEPT ![t] = "idle"] /\ UNCHANGED <<cache, keyOf, holders>>
    BY <1>2 DEF LocateEnds, Does
  <2> QED
    BY <1>0, <2>1, OthersIdle, PlainStep
<1>3. ASSUME NEW t \in Threads, Get(t) PROVE SharedInv'
  <2>1. /\ doing[t] = "get" /\ doing' = [doing EXCEPT ![t] = "use"] /\ UNCHANGED <<cache, keyOf, mMutex>>
        /\ Key(t) \in DOMAIN cache /\ holders[cache[Key(t)]] # {}
        /\ holders' = [holders EXCEPT ![cache[Key(t)]] = @ \cup {t}]
    BY <1>3 DEF Get, Does
  <2>2. \A o \in Objects : holders'[o] = {} <=> holders[o] = {}
    BY <1>0, <2>1
  <2> QED
    BY <1>0, <2>1, <2>2, OthersIdle, PlainStep
<1>4. ASSUME NEW t \in Threads, NotCached(t) PROVE SharedInv'
  <2>1. doing[t] = "get" /\ mMutex' = mMutex /\ UNCHANGED <<cache, keyOf, holders>>
        /\ (Key(t) \in DOMAIN cache => holders[cache[Key(t)]] = {})
    BY <1>4 DEF NotCached
  <2>2. (\A u \in Threads : u # t => doing[u] = "idle") /\ FoundInv /\ LivingInv(t) /\ mMutex = t
    <3>1. doing[t] # "idle" /\ doing[t] \notin {"drop", "erase", "delete"}
      BY <2>1
    <3> QED
      BY <3>1, OthersIdle
  <2>3. CASE UNCHANGED doing
    <3>1. doing'[t] = "get" /\ \A u \in Threads : u # t => doing'[u] = doing[u]
      BY <2>1, <2>3
    <3> QED
      BY <1>0, <2>1, <2>2, <3>1, PlainStep
  <2>4. CASE Does(t, "find") /\ UNCHANGED task
    <3>1. doing'[t] = "find" /\ \A u \in Threads : u # t => doing'[u] = "idle"
      BY <1>0, <2>2, <2>4 DEF Does
    <3>2. Key(t)' = Key(t)
      BY <2>4 DEF Key
    <3>3. MissedInv(t)'
      BY <2>1, <2>2, <3>2 DEF LivingInv, MissedInv
    <3>4. ErasedInv(t)' /\ FoundInv' /\ LivingInv(t)'
      BY <2>1, <2>2, <3>1 DEF ErasedInv, FoundInv, LivingInv
    <3> QED
      BY <2>1, <2>2, <3>1, <3>3, <3>4, OneThread
  <2>5. CASE Does(t, "crashed") /\ UNCHANGED task
    <3>1. doing'[t] = "crashed" /\ \A u \in Threads : u # t => doing'[u] = doing[u]
      BY <1>0, <2>5 DEF Does
    <3> QED
      BY <1>0, <2>1, <2>2, <3>1, PlainStep
  <2> QED
    BY <1>4, <2>3, <2>4, <2>5 DEF NotCached
<1>5. ASSUME NEW t \in Threads, AddAssert(t) PROVE SharedInv'
  <2>1. doing[t] = "find" /\ doing' = [doing EXCEPT ![t] = "insert"] /\ UNCHANGED <<cache, keyOf, holders, task, mMutex>>
    BY <1>5 DEF AddAssert, Does
  <2>2. (\A u \in Threads : u # t => doing[u] = "idle") /\ FoundInv /\ MissedInv(t) /\ LivingInv(t) /\ mMutex = t
    BY <2>1, OthersIdle
  <2>3. doing'[t] = "insert" /\ \A u \in Threads : u # t => doing'[u] = "idle"
    BY <1>0, <2>1, <2>2
  <2>4. Key(t)' = Key(t)
    BY <2>1 DEF Key
  <2>5. MissedInv(t)'
    BY <2>1, <2>2, <2>4 DEF MissedInv
  <2>6. ErasedInv(t)' /\ FoundInv' /\ LivingInv(t)'
    BY <2>1, <2>2, <2>3 DEF ErasedInv, FoundInv, LivingInv
  <2> QED
    BY <2>1, <2>2, <2>3, <2>5, <2>6, OneThread
<1>6. ASSUME NEW t \in Threads, AddInsert(t) PROVE SharedInv'
  <2>1. PICK o : o = CHOOSE p \in Unused : TRUE
    OBVIOUS
  <2>2. o \in Objects /\ \A k \in DOMAIN cache : cache[k] # o
    <3>1. o \in Unused
      BY <1>6, <2>1 DEF AddInsert
    <3> QED
      BY <3>1 DEF Unused, Range
  <2>3. PICK key : key = Key(t)
    OBVIOUS
  <2>4. /\ doing[t] = "insert" /\ doing' = [doing EXCEPT ![t] = "use"]
        /\ keyOf' = [keyOf EXCEPT ![o] = key] /\ holders' = [holders EXCEPT ![o] = {t}]
        /\ cache' = CacheWith(key, o) /\ mMutex' = mMutex
    BY <1>6, <2>1, <2>3 DEF AddInsert, Does
  <2>5. (\A u \in Threads : u # t => doing[u] = "idle") /\ FoundInv /\ MissedInv(t) /\ LivingInv(t) /\ mMutex = t
    BY <2>4, OthersIdle
  <2>6. key \notin DOMAIN cache
    BY <2>3, <2>4, <2>5 DEF MissedInv
  <2>7. DOMAIN cache' = DOMAIN cache \cup {key} /\ cache'[key] = o
        /\ \A k \in DOMAIN cache : cache'[k] = cache[k]
    BY <2>4, <2>6 DEF CacheWith
  <2>8. \A p \in Objects : /\ keyOf'[p] = IF p = o THEN key ELSE keyOf[p]
                           /\ holders'[p] = IF p = o THEN {t} ELSE holders[p]
    BY <1>0, <2>4
  <2>9. doing'[t] = "use" /\ \A u \in Threads : u # t => doing'[u] = "idle"
    BY <1>0, <2>4, <2>5
  <2>10. FoundInv'
    BY <2>5, <2>7, <2>8 DEF FoundInv
  <2>11. LivingInv(t)'
    BY <1>0, <2>2, <2>4, <2>5, <2>7, <2>8 DEF LivingInv
  <2>12. ErasedInv(t)' /\ MissedInv(t)'
    BY <2>9 DEF ErasedInv, MissedInv
  <2> QED
    BY <2>4, <2>5, <2>9, <2>10, <2>11, <2>12, OneThread
<1>7. ASSUME NEW t \in Threads, UseSound(t) PROVE SharedInv'
  <2>1. /\ doing[t] = "use" /\ t # Main /\ doing' = [doing EXCEPT ![t] = "drop"]
        /\ UNCHANGED <<cache, keyOf, holders, mMutex>>
    BY <1>7, CacheAssumption DEF UseSound, Does
  <2> QED
    BY <1>0, <2>1, OthersIdle, PlainStep
<1>8. ASSUME NEW t \in Threads, DropPointer(t) PROVE SharedInv'
  <2>1. PICK o : o = Last(t)
    OBVIOUS
  <2>2. o \in Objects /\ doing[t] = "drop" /\ UNCHANGED <<cache, keyOf, mMutex>>
        /\ holders' = [holders EXCEPT ![o] = @ \ {Holder(t)}]
    BY <1>8, <2>1, FirstDropped DEF DropPointer, MemoryInv, Last
  <2>3. /\ \A u \in Threads : u # t => doing[u] = "idle"
        /\ FoundInv /\ LivingInv(t) /\ (t # Main => mMutex = t)
    BY <2>2, OthersIdle
  <2>4. \A p \in Objects : holders'[p] = IF p = o THEN holders[p] \ {Holder(t)} ELSE holders[p]
    BY <1>0, <2>2
  <2>5. CASE holders[o] = {Holder(t)}
    <3>1. doing' = [doing EXCEPT ![t] = "erase"] /\ UNCHANGED task
      BY <1>8, <2>1, <2>5 DEF DropPointer, Last, Does
    <3>2. doing'[t] = "erase" /\ (\A u \in Threads : u # t => doing'[u] = "idle") /\ Last(t)' = o
      BY <1>0, <2>1, <2>3, <3>1 DEF Last
    <3>3. FoundInv'
      BY <2>2, <2>3, <2>4 DEF FoundInv
    <3>4. ErasedInv(t)'
      BY <2>2, <2>3, <2>5, <3>2 DEF FoundInv, ErasedInv
    <3>5. LivingInv(t)'
      BY <1>0, <2>2, <2>3, <2>4, <3>2 DEF LivingInv
    <3>6. MissedInv(t)'
      BY <3>2 DEF MissedInv
    <3> QED
      BY <2>2, <2>3, <3>2, <3>3, <3>4, <3>5, <3>6, OneThread
  <2>6. CASE holders[o] # {Holder(t)}
    <3>0. doing' = doing
      BY <1>8, <2>1, <2>6 DEF DropPointer, Last
    <3>1. doing'[t] = "drop" /\ \A u \in Threads : u # t => doing'[u] = doing[u]
      BY <2>2, <3>0
    <3>2. \A p \in Objects : holders'[p] = {} <=> holders[p] = {}
      BY <2>4, <2>6
    <3> QED
      BY <1>0, <2>2, <2>3, <3>1, <3>2, PlainStep
  <2> QED
    BY <2>5, <2>6
<1>9. ASSUME NEW t \in Threads, EraseEntry(t) PROVE SharedInv'
  <2>1. PICK o : o = Last(t)
    OBVIOUS
  <2>2. /\ doing[t] = "erase" /\ doing' = [doing EXCEPT ![t] = "delete"]
        /\ cache' = Restrict(cache, DOMAIN cache \ {keyOf[o]})
        /\ UNCHANGED <<keyOf, holders, mMutex>>
    BY <1>9, <2>1 DEF EraseEntry, Does, Last
  <2>3. /\ \A u \in Threads : u # t => doing[u] = "idle"
        /\ FoundInv /\ ErasedInv(t) /\ LivingInv(t) /\ (t # Main => mMutex = t)
    BY <2>2, OthersIdle
  <2>4. DOMAIN cache' = DOMAIN cache \ {keyOf[o]} /\ \A k \in DOMAIN cache' : cache'[k] = cache[k]
    BY <2>2 DEF Restrict
  <2>5. o \in Objects /\ holders[o] = {} /\ cache[keyOf[o]] = o
    BY <2>1, <2>2, <2>3 DEF MemoryInv, DeleterInv, Deleting, ErasedInv
  <2>6. FoundInv'
    BY <2>2, <2>3, <2>4, <2>5 DEF FoundInv
  <2>7. LivingInv(t)'
    BY <1>0, <2>1, <2>2, <2>3, <2>4 DEF LivingInv
  <2>8. doing'[t] = "delete" /\ \A u \in Threads : u # t => doing'[u] = "idle"
    BY <1>0, <2>2, <2>3
  <2>9. ErasedInv(t)' /\ MissedInv(t)'
    BY <2>8 DEF ErasedInv, MissedInv
  <2> QED
    BY <2>2, <2>3, <2>6, <2>7, <2>8, <2>9, OneThread
<1>10. ASSUME NEW t \in Threads, DeleteObject(t) PROVE SharedInv'
  <2>1. PICK o : o = Last(t)
    OBVIOUS
  <2>2. /\ doing[t] = "delete" /\ doing' = [doing EXCEPT ![t] = "drop"]
        /\ keyOf' = [keyOf EXCEPT ![o] = <<>>] /\ UNCHANGED <<cache, holders, mMutex>>
    BY <1>10, <2>1 DEF DeleteObject, Does, Last
  <2>3. /\ \A u \in Threads : u # t => doing[u] = "idle"
        /\ FoundInv /\ LivingInv(t) /\ (t # Main => mMutex = t)
    BY <2>2, OthersIdle
  <2>4. holders[o] = {} /\ \A p \in Objects : p # o => keyOf'[p] = keyOf[p]
    BY <1>0, <2>1, <2>2 DEF MemoryInv, DeleterInv, Deleting
  <2>5. FoundInv'
    BY <2>2, <2>3, <2>4 DEF FoundInv
  <2>6. LivingInv(t)'
    BY <2>2, <2>3 DEF LivingInv
  <2>7. doing'[t] = "drop" /\ \A u \in Threads : u # t => doing'[u] = "idle"
    BY <1>0, <2>2, <2>3
  <2>8. ErasedInv(t)' /\ MissedInv(t)'
    BY <2>7 DEF ErasedInv, MissedInv
  <2> QED
    BY <2>2, <2>3, <2>5, <2>6, <2>7, <2>8, OneThread
<1>11. ASSUME NEW t \in Threads, DropEnds(t) PROVE SharedInv'
  <2>1. doing[t] = "drop" /\ UNCHANGED <<cache, keyOf, holders, mMutex>>
    BY <1>11 DEF DropEnds
  <2>2. PICK now \in {"get", "idle"} : doing' = [doing EXCEPT ![t] = now] /\ (now = "get" => mMutex = t)
    BY <1>11 DEF DropEnds, Does
  <2> QED
    BY <1>0, <2>1, <2>2, OthersIdle, PlainStep
<1>12. CASE UseLvl
  <2>1. doing[Main] = "use" /\ doing' = [doing EXCEPT ![Main] = "get"] /\ UNCHANGED <<cache, keyOf, holders, mMutex>>
    BY <1>12 DEF UseLvl, Does
  <2> QED
    BY <1>0, <2>1, OthersIdle, PlainStep
<1>13. ASSUME NEW a \in Animations, Animate(a) PROVE SharedInv'
  <2>1. doing[Main] = "use" /\ doing' = [doing EXCEPT ![Main] = "idle"] /\ UNCHANGED <<cache, keyOf>>
    BY <1>13 DEF Animate, Does
  <2>2. \A o \in Objects : holders'[o] = {} <=> holders[o] = {}
    BY <1>13 DEF Animate
  <2> QED
    BY <1>0, <2>1, <2>2, OthersIdle, PlainStep
<1>14. ASSUME NEW a \in Animations, DropAnimation(a) PROVE SharedInv'
  <2>1. /\ doing[Main] = "idle" /\ mMutex = None /\ doing' = [doing EXCEPT ![Main] = "drop"]
        /\ UNCHANGED <<cache, keyOf, holders>>
    BY <1>14 DEF DropAnimation, Does
  <2>2. \A u \in Threads : doing[u] = "idle"
    BY <1>0, <2>1 DEF SharedInv, OwnerInv
  <2>3. FoundInv /\ LivingInv(Main)
    BY <2>2 DEF SharedInv, LivingInv
  <2> QED
    BY <1>0, <2>1, <2>2, <2>3, PlainStep
<1>15. CASE UNCHANGED cacheVars
  BY <1>15 DEF cacheVars, SharedInv, OwnerInv, FoundInv, ErasedInv, MissedInv, Last, Key
<1>16. CASE Crashed
  BY <1>15, <1>16 DEF Crashed
<1> QED
  BY <1>1, <1>2, <1>3, <1>4, <1>5, <1>6, <1>7, <1>8, <1>9, <1>10, <1>11, <1>12, <1>13, <1>14, <1>15,
     <1>16 DEF CacheNext

LEMMA InitShared == CacheInit => SharedInv
BY DEF CacheInit, SharedInv, OwnerInv, FoundInv, ErasedInv, MissedInv

\* What anybody uses is what the next one that looks for it is given
\* (ResourceCache::Add, Get), for any archives and any number of jobs, as long
\* as nothing is dropped while a job locates.
THEOREM SharedByAll == CacheSpec => []UsedIsShared
<1>1. SharedInv => UsedIsShared
  BY DEF SharedInv, FoundInv, UsedIsShared
<1> QED
  BY <1>1, InitMemory, MemoryStep, InitShared, SharedStep, PTL DEF CacheSpec

\* The map and the objects agree: no entry stays behind, and what is used is
\* what is found.
THEOREM MapRight == CacheSpec => []MapAndObjectsAgree
<1>1. EntriesAreInMemory /\ UsedIsShared => MapAndObjectsAgree
  BY DEF MapAndObjectsAgree
<1> QED
  BY <1>1, NoEntryStays, SharedByAll, PTL


-----------------------------------------------------------------------------
(* The files of a CD image that the archives are read from *)

(* Where the stream of the image is: its sector of the file and the place in *)
(* it, whose data has a raw header before it.                                *)
Sector == mStream \div kRawSectorSize - mDr.location
Offset == mStream % kRawSectorSize

StreamTypes ==
  /\ mDr.location \in Nat /\ mDr.data_length \in Nat /\ mDr.mov \in BOOLEAN
  /\ mPos \in Nat /\ mSector \in Nat /\ mStream \in Nat
  /\ left \in [Callers -> Nat \cup {-1}] /\ fresh \in BOOLEAN

FileInPlace ==
  ~mDr.mov =>
    /\ Sector \in Nat
    /\ Offset = 0 \/ Offset \in RawHeader..(RawHeader + 2048)
    /\ mPos = Sector * 2048 + (IF Offset = 0 THEN 0 ELSE Offset - RawHeader)
    /\ fresh => mPos = 0 /\ \A c \in Callers : left[c] <= 2048
    /\ ~fresh => mSector = Sector

MovieInPlace ==
  mDr.mov => mSector = mDr.location + mPos \div 2048 /\ mPos % 2048 = 0 /\ \A c \in Callers : Idle(c)

InPlace == StreamTypes /\ FileInPlace /\ MovieInPlace

LEMMA SectorOf ==
  ASSUME NEW s \in Nat, NEW o \in Nat, o < 2352
  PROVE  (s * 2352 + o) \div 2352 = s /\ (s * 2352 + o) % 2352 = o
  OBVIOUS

LEMMA ReopenedInPlace ==
  ASSUME NEW dr, dr.location \in Nat, dr.data_length \in Nat, dr.mov \in BOOLEAN, Reopened(dr)
  PROVE  InPlace' /\ File!Reopen
<1>1. mStream' \div 2352 = dr.location /\ mStream' % 2352 = 0
  BY SectorOf DEF Reopened, kRawSectorSize
<1>2. StreamTypes'
  BY DEF Reopened, StreamTypes, kRawSectorSize
<1>3. FileInPlace'
  <2>1. Sector' = 0 /\ Offset' = 0
    BY <1>1 DEF Reopened, Sector, Offset, kRawSectorSize
  <2>2. mPos' = 0 /\ fresh' = TRUE /\ \A c \in Callers : left'[c] = -1
    BY DEF Reopened
  <2> QED
    BY <2>1, <2>2 DEF FileInPlace
<1>4. MovieInPlace'
  BY DEF Reopened, MovieInPlace, Idle
<1>5. FilePlace(piece.at)' = 0
  <2>1. piece'.at = dr.location * 2352 + (IF dr.mov THEN 16 ELSE 24)
    BY DEF Reopened, FirstByte, kRawSectorSize, RawHeader, MovHeader
  <2>2. piece'.at \div 2352 = dr.location /\ piece'.at % 2352 = IF dr.mov THEN 16 ELSE 24
    BY <2>1, SectorOf
  <2> QED
    BY <2>2 DEF Reopened, FilePlace, kRawSectorSize, RawHeader, MovHeader
<1>6. FilePlace(piece.at + piece.length)' = 0
  <2>1. piece'.at \in Int /\ piece'.length = 0
    BY DEF Reopened, FirstByte, kRawSectorSize, RawHeader, MovHeader
  <2> QED
    BY <1>5, <2>1 DEF FilePlace
<1> QED
  BY <1>2, <1>3, <1>4, <1>5, <1>6 DEF InPlace, File!Reopen, Reopened

LEMMA Unmoved ==
  ASSUME UNCHANGED mDr
  PROVE  \A at \in Int : FilePlace(at)' = FilePlace(at)
  BY DEF FilePlace

LEMMA ReadBytesInPlace ==
  ASSUME InPlace, NEW c \in Callers, NEW n \in Nat, ReadBytes(c, n)
  PROVE  InPlace' /\ File!Ask(c)
<1> USE DEF InPlace
<1>1. left' = [left EXCEPT ![c] = n] /\ left'[c] = n /\ left \in [Callers -> Nat \cup {-1}]
  BY DEF ReadBytes, StreamTypes
<1>2. StreamTypes'
  BY <1>1 DEF ReadBytes, StreamTypes
<1>3. FileInPlace'
  <2>1. Sector' = Sector /\ Offset' = Offset
    BY DEF ReadBytes, Sector, Offset
  <2>2. ASSUME fresh PROVE \A d \in Callers : left'[d] <= 2048
    BY <1>1, <2>2 DEF ReadBytes, FileInPlace
  <2> QED
    BY <2>1, <2>2 DEF ReadBytes, FileInPlace
<1>4. MovieInPlace'
  BY DEF ReadBytes, MovieInPlace
<1>5. UNCHANGED <<mDr, mPos, piece>>
  BY DEF ReadBytes
<1>6. FilePlace(piece.at)' = FilePlace(piece.at)
      /\ FilePlace(piece.at + piece.length)' = FilePlace(piece.at + piece.length)
  BY <1>5 DEF FilePlace
<1> QED
  BY <1>1, <1>2, <1>3, <1>4, <1>5, <1>6 DEF File!Ask, ReadBytes, Idle

\* The reading goes on at w in the file's sector s, and l sectors more of the image.
Starts(s, l, w) ==
  /\ s = Sector /\ l = mDr.location /\ w = posWithinSector /\ w <= 2048
  /\ mPos = s * 2048 + w
  /\ DataPlace = (s + l) * 2352 + (w + 24)
  /\ DataPlace \div 2352 = s + l

(* Where the reading goes on: after the raw header. *)
LEMMA DataIsInPlace ==
  ASSUME InPlace, ~mDr.mov
  PROVE  \E s \in Nat, l \in Nat, w \in Nat : Starts(s, l, w)
<1> USE DEF InPlace
<1>1. PICK l \in Nat : l = mDr.location
  BY DEF StreamTypes
<1>2. PICK s \in Nat : s = Sector
  BY DEF FileInPlace
<1>3. PICK a \in Nat : a = mStream
  BY DEF StreamTypes
<1>4. PICK o \in Nat : o = a % 2352
  OBVIOUS
<1>5. o < 2352 /\ a = (a \div 2352) * 2352 + o
  BY <1>4
<1>6. a \div 2352 = s + l
  BY <1>1, <1>2, <1>3, <1>5 DEF Sector, kRawSectorSize
<1>7. a = (s + l) * 2352 + o
  BY <1>5, <1>6
<1>8. Offset = o
  BY <1>3, <1>4 DEF Offset, kRawSectorSize
<1>9. CASE o = 0
  <2>1. DataPlace = (s + l) * 2352 + 24
    BY <1>3, <1>4, <1>7, <1>9 DEF DataPlace, kRawSectorSize, RawHeader
  <2>2. DataPlace \div 2352 = s + l /\ DataPlace % 2352 = 24
    BY <2>1, SectorOf
  <2>3. posWithinSector = 0
    BY <2>2 DEF posWithinSector, kRawSectorSize, RawHeader
  <2>4. mPos = s * 2048
    BY <1>2, <1>8, <1>9 DEF FileInPlace
  <2>5. Starts(s, l, 0)
    BY <1>1, <1>2, <2>1, <2>2, <2>3, <2>4 DEF Starts
  <2> QED
    BY <2>5
<1>10. CASE o # 0
  <2>1. o \in 24..2072 /\ mPos = s * 2048 + (o - 24)
    BY <1>2, <1>8, <1>10 DEF FileInPlace, RawHeader
  <2>2. DataPlace = a
    BY <1>3, <1>4, <1>10 DEF DataPlace, kRawSectorSize
  <2>3. posWithinSector = o - 24
    BY <1>4, <2>2 DEF posWithinSector, kRawSectorSize, RawHeader
  <2>4. PICK w \in Nat : w = o - 24 /\ w <= 2048
    BY <2>1
  <2>5. w = posWithinSector /\ mPos = s * 2048 + w
    BY <2>1, <2>3, <2>4
  <2>6. DataPlace = (s + l) * 2352 + (w + 24)
    BY <1>7, <2>2, <2>4
  <2>7. DataPlace \div 2352 = s + l
    BY <1>6, <2>2
  <2>8. Starts(s, l, w)
    BY <1>1, <1>2, <2>4, <2>5, <2>6, <2>7 DEF Starts
  <2> QED
    BY <2>8, Zenon
<1> QED
  BY <1>9, <1>10

\* What was read began at the place in the file and is what the place has moved by.
ReadOn == FilePlace(piece'.at) = mPos /\ piece'.length = mPos' - mPos

LEMMA SpanSectorInPlace ==
  ASSUME InPlace, NEW c \in Callers, SpanSector(c)
  PROVE  InPlace' /\ File!Give(c) /\ ReadOn
<1> USE DEF InPlace
<1>1. ~mDr.mov /\ mDr' = mDr /\ fresh' = FALSE /\ Spans(c)
  BY DEF SpanSector
<1>a. PICK s \in Nat, l \in Nat, w \in Nat : Starts(s, l, w)
  BY <1>1, DataIsInPlace
<1>2. s = Sector /\ l = mDr.location /\ w = posWithinSector /\ w <= 2048
      /\ mPos = s * 2048 + w /\ DataPlace = (s + l) * 2352 + (w + 24)
  BY <1>a DEF Starts
<1>3. PICK n \in Nat : n = left[c]
  BY DEF SpanSector, Idle, StreamTypes
<1>4. w + n > 2048
  BY <1>1, <1>2, <1>3 DEF Spans
<1>5. PICK k \in Nat : k = 2048 - w
  BY <1>2
<1>6. n - k \in Nat /\ n - k # 0 /\ k \in 0..n
  BY <1>4, <1>5
<1>7. left' = [left EXCEPT ![c] = n - k] /\ piece' = [at |-> DataPlace, length |-> k]
  BY <1>2, <1>3, <1>5 DEF SpanSector
<1>8. ~fresh
  <2>1. ASSUME fresh PROVE mPos = 0 /\ n <= 2048
    BY <1>1, <1>3, <2>1 DEF FileInPlace
  <2>2. ASSUME mPos = 0, n <= 2048 PROVE FALSE
    BY <1>2, <1>4, <2>2
  <2> QED
    BY <2>1, <2>2
<1>9. mSector = s /\ mSector' = s + 1
  BY <1>1, <1>2, <1>8 DEF SpanSector, FileInPlace
<1>10. mStream' = (s + 1 + l) * 2352 /\ mPos' = (s + 1) * 2048
  BY <1>2, <1>9 DEF SpanSector, kRawSectorSize
<1>11. StreamTypes'
  <2>1. left' \in [Callers -> Nat \cup {-1}]
    BY <1>6, <1>7 DEF StreamTypes
  <2>2. mPos' \in Nat /\ mSector' \in Nat /\ mStream' \in Nat
    BY <1>9, <1>10
  <2>3. fresh' \in BOOLEAN
    BY <1>1, Zenon
  <2> QED
    BY <1>1, <2>1, <2>2, <2>3 DEF StreamTypes
<1>12. Sector' = s + 1 /\ Offset' = 0
  <2>1. mStream' \div 2352 = s + 1 + l /\ mStream' % 2352 = 0
    BY <1>10, SectorOf
  <2> QED
    BY <1>1, <1>2, <2>1 DEF Sector, Offset, kRawSectorSize
<1>13. FileInPlace'
  BY <1>1, <1>9, <1>10, <1>12 DEF FileInPlace
<1>14. MovieInPlace'
  BY <1>1 DEF MovieInPlace
<1>15. FilePlace(piece.at)' = mPos
  <2>1. DataPlace \div 2352 = s + l /\ DataPlace % 2352 = w + 24
    BY <1>2, SectorOf
  <2>2. w + 24 \in 24..(24 + 2048) /\ s * 2048 + (w + 24) - 24 = mPos
    BY <1>2
  <2>3. FilePlace(DataPlace) = mPos
    <3>1. PICK b \in 24..(24 + 2048) : b = w + 24
      BY <2>2
    <3>2. PICK a, q, r : a = DataPlace /\ q = a \div kRawSectorSize /\ r = a % kRawSectorSize
      OBVIOUS
    <3>3. ~mDr.mov /\ mDr.location = l /\ q = s + l /\ r = b
      BY <1>1, <1>2, <2>1, <3>1, <3>2 DEF kRawSectorSize
    <3>4. FilePlace(a) = s * 2048 + b - 24
      BY <3>2, <3>3 DEF FilePlace, RawHeader
    <3> QED
      BY <2>2, <3>1, <3>2, <3>4
  <2> QED
    BY <1>1, <1>7, <2>3 DEF FilePlace
<1>16. FilePlace(piece.at + piece.length)' = mPos'
  <2>1. DataPlace + k = (s + l) * 2352 + 2072
    BY <1>2, <1>5
  <2>2. (DataPlace + k) \div 2352 = s + l /\ (DataPlace + k) % 2352 = 2072
    BY <2>1, SectorOf
  <2>3. FilePlace(DataPlace + k) = s * 2048 + 2072 - 24
    <3>1. PICK b \in 24..(24 + 2048) : b = 2072
      OBVIOUS
    <3>2. PICK a, q, r : a = DataPlace + k /\ q = a \div kRawSectorSize /\ r = a % kRawSectorSize
      OBVIOUS
    <3>3. ~mDr.mov /\ mDr.location = l /\ q = s + l /\ r = b
      BY <1>1, <1>2, <2>2, <3>1, <3>2 DEF kRawSectorSize
    <3>4. FilePlace(a) = s * 2048 + b - 24
      BY <3>2, <3>3 DEF FilePlace, RawHeader
    <3> QED
      BY <3>1, <3>2, <3>4
  <2>4. s * 2048 + 2072 - 24 = mPos'
    BY <1>10
  <2> QED
    BY <1>1, <1>7, <2>3, <2>4 DEF FilePlace
<1>17. File!Give(c)
  <2>1. mPos' - mPos = k
    BY <1>2, <1>5, <1>10
  <2>2. mPos' - mPos \in 0..left[c] /\ mPos' - mPos # left[c]
    BY <1>3, <1>6, <2>1
  <2>3. left' = [left EXCEPT ![c] = left[c] - (mPos' - mPos)]
    BY <1>3, <1>7, <2>1, Zenon
  <2>4. piece' = [at |-> DataPlace, length |-> k]
    BY <1>7
  <2> QED
    BY <1>15, <1>16, <2>2, <2>3 DEF File!Give
<1>18. ReadOn
  <2>1. mPos' - mPos = k
    BY <1>2, <1>5, <1>10
  <2>2. FilePlace(piece'.at) = mPos
    BY <1>1, <1>15 DEF FilePlace
  <2> QED
    BY <1>7, <2>1, <2>2 DEF ReadOn
<1> QED
  BY <1>11, <1>13, <1>14, <1>17, <1>18

LEMMA ReadRestInPlace ==
  ASSUME InPlace, NEW c \in Callers, ReadRest(c)
  PROVE  InPlace' /\ File!Give(c) /\ ReadOn
<1> USE DEF InPlace
<1>1. ~mDr.mov /\ mDr' = mDr /\ ~Spans(c)
  BY DEF ReadRest
<1>a. PICK s \in Nat, l \in Nat, w \in Nat : Starts(s, l, w)
  BY <1>1, DataIsInPlace
<1>2. s = Sector /\ l = mDr.location /\ w = posWithinSector /\ w <= 2048
      /\ mPos = s * 2048 + w /\ DataPlace = (s + l) * 2352 + (w + 24)
  BY <1>a DEF Starts
<1>b. DataPlace \div 2352 = s + l
  BY <1>a DEF Starts
<1>3. PICK n \in Nat : n = left[c]
  BY DEF ReadRest, Idle, StreamTypes
<1>4. w + n <= 2048
  BY <1>1, <1>2, <1>3 DEF Spans
<1>5. PICK o \in Nat : o = w + n + 24 /\ 24 <= o /\ o <= 2072
  BY <1>4
<1>6. left' = [left EXCEPT ![c] = -1] /\ piece' = [at |-> DataPlace, length |-> n]
  BY <1>3 DEF ReadRest
<1>7. DataPlace + n = (s + l) * 2352 + o
  BY <1>2, <1>5
<1>8. mStream' = (s + l) * 2352 + o /\ mPos' = s * 2048 + (o - 24)
  <2>1. mPos' = s * 2048 + w + n
    BY <1>2, <1>3 DEF ReadRest
  <2> QED
    BY <1>3, <1>5, <1>7, <2>1 DEF ReadRest
<1>9. mSector' = (IF n = 0 THEN mSector ELSE s) /\ fresh' = (fresh /\ n = 0)
  <2>1. mSector' = IF n = 0 THEN mSector ELSE (s + l) - l
    BY <1>2, <1>b, <1>3 DEF ReadRest, kRawSectorSize
  <2>2. (s + l) - l = s
    OBVIOUS
  <2> QED
    BY <1>3, <2>1, <2>2 DEF ReadRest
<1>10. StreamTypes'
  <2>1. left' \in [Callers -> Nat \cup {-1}]
    BY <1>6 DEF StreamTypes
  <2>2. mPos' \in Nat /\ mStream' \in Nat
    BY <1>5, <1>8
  <2>3. mSector' \in Nat /\ fresh' \in BOOLEAN
    BY <1>9 DEF StreamTypes
  <2> QED
    BY <1>1, <2>1, <2>2, <2>3 DEF StreamTypes
<1>11. Sector' = s /\ Offset' = o
  <2>1. mStream' \div 2352 = s + l /\ mStream' % 2352 = o
    BY <1>5, <1>8, SectorOf
  <2> QED
    BY <1>1, <1>2, <2>1 DEF Sector, Offset, kRawSectorSize
<1>12. FileInPlace'
  <2>1. CASE fresh /\ n = 0
    <3>1. mPos = 0 /\ \A d \in Callers : left[d] <= 2048
      BY <1>1, <2>1 DEF FileInPlace
    <3>2. \A d \in Callers : left'[d] <= 2048
      BY <1>6, <3>1 DEF StreamTypes
    <3>3. mPos' = 0
      BY <1>2, <1>5, <1>8, <2>1, <3>1
    <3>4. fresh' = TRUE
      BY <1>9, <2>1, Zenon
    <3>5. Sector' \in Nat /\ Offset' \in RawHeader..(RawHeader + 2048) /\ Offset' # 0
      BY <1>5, <1>11 DEF RawHeader
    <3>6. mPos' = Sector' * 2048 + (Offset' - RawHeader)
      BY <1>8, <1>11 DEF RawHeader
    <3> QED
      BY <3>2, <3>3, <3>4, <3>5, <3>6 DEF FileInPlace
  <2>2. CASE ~(fresh /\ n = 0)
    <3>1. mSector' = s
      BY <1>1, <1>2, <1>9, <2>2 DEF FileInPlace
    <3>2. fresh' = FALSE
      BY <1>9, <2>2, Zenon
    <3> QED
      BY <1>a, <1>5, <1>8, <1>11, <3>1, <3>2 DEF FileInPlace, RawHeader
  <2> QED
    BY <2>1, <2>2
<1>13. MovieInPlace'
  BY <1>1 DEF MovieInPlace
<1>14. FilePlace(piece.at)' = mPos
  <2>1. DataPlace \div 2352 = s + l /\ DataPlace % 2352 = w + 24
    BY <1>2, SectorOf
  <2>2. w + 24 \in 24..(24 + 2048) /\ s * 2048 + (w + 24) - 24 = mPos
    BY <1>2
  <2>3. FilePlace(DataPlace) = mPos
    <3>1. PICK b \in 24..(24 + 2048) : b = w + 24
      BY <2>2
    <3>2. PICK a, q, r : a = DataPlace /\ q = a \div kRawSectorSize /\ r = a % kRawSectorSize
      OBVIOUS
    <3>3. ~mDr.mov /\ mDr.location = l /\ q = s + l /\ r = b
      BY <1>1, <1>2, <2>1, <3>1, <3>2 DEF kRawSectorSize
    <3>4. FilePlace(a) = s * 2048 + b - 24
      BY <3>2, <3>3 DEF FilePlace, RawHeader
    <3> QED
      BY <2>2, <3>1, <3>2, <3>4
  <2> QED
    BY <1>1, <1>6, <2>3 DEF FilePlace
<1>15. FilePlace(piece.at + piece.length)' = mPos'
  <2>1. (DataPlace + n) \div 2352 = s + l /\ (DataPlace + n) % 2352 = o
    BY <1>5, <1>7, SectorOf
  <2>4. o \in 24..(24 + 2048)
    BY <1>5
  <2>2. FilePlace(DataPlace + n) = s * 2048 + o - 24
    <3>1. PICK a, q, r : a = DataPlace + n /\ q = a \div kRawSectorSize /\ r = a % kRawSectorSize
      OBVIOUS
    <3>2. ~mDr.mov /\ mDr.location = l /\ q = s + l /\ r = o
      BY <1>1, <1>2, <2>1, <3>1 DEF kRawSectorSize
    <3>3. FilePlace(a) = s * 2048 + o - 24
      BY <2>4, <3>1, <3>2 DEF FilePlace, RawHeader
    <3> QED
      BY <3>1, <3>3
  <2>3. s * 2048 + o - 24 = mPos'
    BY <1>5, <1>8
  <2> QED
    BY <1>1, <1>6, <2>2, <2>3 DEF FilePlace
<1>16. File!Give(c)
  <2>1. mPos' - mPos = n
    BY <1>2, <1>5, <1>8
  <2> QED
    BY <1>3, <1>6, <1>14, <1>15, <2>1 DEF File!Give
<1>17. ReadOn
  <2>1. mPos' - mPos = n
    BY <1>2, <1>5, <1>8
  <2>2. FilePlace(piece'.at) = mPos
    BY <1>1, <1>14 DEF FilePlace
  <2> QED
    BY <1>6, <2>1, <2>2 DEF ReadOn
<1> QED
  BY <1>10, <1>12, <1>13, <1>16, <1>17

LEMMA SeekInPlace ==
  ASSUME InPlace, NEW p \in Nat, Seek(p)
  PROVE  InPlace' /\ File!SeekTo
<1> USE DEF InPlace
<1>1. PICK s \in Nat, w \in Nat : s = p \div 2048 /\ w = p % 2048 /\ w < 2048 /\ p = s * 2048 + w
  OBVIOUS
<1>2. PICK l \in Nat : l = mDr.location
  BY DEF StreamTypes
<1>3. PICK o \in Nat : o = w + 24 /\ 24 <= o /\ o < 2352 /\ o <= 2072
  BY <1>1
<1>4. ~mDr.mov /\ mDr' = mDr /\ left' = left /\ piece' = [at |-> mStream', length |-> 0]
  BY DEF Seek
<1>5. mSector' = s /\ mStream' = (s + l) * 2352 + o /\ mPos' = s * 2048 + (o - 24)
  BY <1>1, <1>2, <1>3 DEF Seek, kRawSectorSize, RawHeader
<1>6. fresh' = FALSE
  BY DEF Seek
<1>7. StreamTypes'
  <2>1. mPos' \in Nat /\ mSector' \in Nat /\ mStream' \in Nat
    BY <1>3, <1>5
  <2>2. fresh' \in BOOLEAN
    BY <1>6, Zenon
  <2> QED
    BY <1>4, <2>1, <2>2 DEF StreamTypes
<1>8. Sector' = s /\ Offset' = o
  <2>1. mStream' \div 2352 = s + l /\ mStream' % 2352 = o
    BY <1>3, <1>5, SectorOf
  <2> QED
    BY <1>2, <1>4, <2>1 DEF Sector, Offset, kRawSectorSize
<1>9. FileInPlace'
  BY <1>3, <1>5, <1>6, <1>8 DEF FileInPlace, RawHeader
<1>10. MovieInPlace'
  BY <1>4 DEF MovieInPlace
<1>11. mPos' \in Nat
  BY <1>3, <1>5
<1>12. PICK at \in Nat : at = mStream' /\ at = (s + l) * 2352 + o
  BY <1>5
<1>13. FilePlace(at)' = mPos'
  <2>1. at \div 2352 = s + l /\ at % 2352 = o
    BY <1>3, <1>12, SectorOf
  <2>2. o \in 24..(24 + 2048) /\ (s + l) - l = s /\ s * 2048 + o - 24 = mPos'
    BY <1>3, <1>5
  <2> QED
    BY <1>2, <1>4, <2>1, <2>2 DEF FilePlace, kRawSectorSize, RawHeader
<1>14. at + 0 = at
  OBVIOUS
<1> QED
  BY <1>4, <1>7, <1>9, <1>10, <1>11, <1>12, <1>13, <1>14 DEF File!SeekTo

LEMMA ReadSectorInPlace ==
  ASSUME InPlace, NEW n \in {4, kRawSectorSize - MovHeader}, ReadSector(n)
  PROVE  InPlace' /\ File!GiveSector(2048)
<1> USE DEF InPlace
<1>1. mDr.mov /\ mDr' = mDr /\ left' = left
  BY DEF ReadSector
<1>2. PICK t \in Nat : t = mSector
  BY DEF StreamTypes
<1>3. PICK l \in Nat : l = mDr.location
  BY DEF StreamTypes
<1>4. PICK q \in Nat : q = mPos \div 2048 /\ mPos = q * 2048 /\ t = l + q
  BY <1>1, <1>2, <1>3 DEF StreamTypes, MovieInPlace
<1>5. mSector' = l + q + 1 /\ mPos' = (q + 1) * 2048
  BY <1>2, <1>4 DEF ReadSector
<1>6. PICK a \in Nat : a = (l + q) * 2352 + 16
  OBVIOUS
<1>7. piece' = [at |-> a, length |-> n] /\ mStream' = a + n
  BY <1>2, <1>4, <1>6 DEF ReadSector, kRawSectorSize, MovHeader
<1>8. n \in {4, 2336}
  BY DEF kRawSectorSize, MovHeader
<1>9. StreamTypes'
  <2>1. mPos' \in Nat /\ mSector' \in Nat /\ mStream' \in Nat
    BY <1>5, <1>7, <1>8
  <2>2. fresh' = FALSE
    BY DEF ReadSector
  <2>3. fresh' \in BOOLEAN
    BY <2>2, Zenon
  <2> QED
    BY <1>1, <2>1, <2>3 DEF StreamTypes
<1>10. FileInPlace'
  BY <1>1 DEF FileInPlace
<1>11. MovieInPlace'
  <2>1. mPos' \div 2048 = q + 1 /\ mPos' % 2048 = 0
    BY <1>5
  <2>2. mSector' = l + (q + 1)
    BY <1>5
  <2> QED
    BY <1>1, <1>3, <2>1, <2>2 DEF MovieInPlace, Idle
<1>12. FilePlace(a)' = mPos
  <2>1. a \div 2352 = l + q /\ a % 2352 = 16
    BY <1>6, SectorOf
  <2>2. l + q - l = q
    OBVIOUS
  <2> QED
    BY <1>1, <1>3, <1>4, <2>1, <2>2 DEF FilePlace, kRawSectorSize, MovHeader
<1>13. FilePlace(a + n)' = mPos'
  <2>1. CASE n = 4
    <3>1. a + n = (l + q) * 2352 + 20
      BY <1>6, <2>1
    <3>2. (a + n) \div 2352 = l + q /\ (a + n) % 2352 = 20
      BY <3>1, SectorOf
    <3>3. l + q - l + 1 = q + 1
      OBVIOUS
    <3> QED
      BY <1>1, <1>3, <1>5, <3>2, <3>3 DEF FilePlace, kRawSectorSize, MovHeader
  <2>2. CASE n = 2336
    <3>1. a + n = (l + q + 1) * 2352 + 0
      BY <1>6, <2>2
    <3>2. (a + n) \div 2352 = l + q + 1 /\ (a + n) % 2352 = 0
      BY <3>1, SectorOf
    <3>3. l + q + 1 - l = q + 1
      OBVIOUS
    <3> QED
      BY <1>1, <1>3, <1>5, <3>2, <3>3 DEF FilePlace, kRawSectorSize, MovHeader
  <2> QED
    BY <1>8, <2>1, <2>2
<1>14. mPos' = mPos + 2048
  BY <1>4, <1>5
<1> QED
  BY <1>1, <1>7, <1>9, <1>10, <1>11, <1>12, <1>13, <1>14 DEF File!GiveSector

LEMMA SeekStartInPlace ==
  ASSUME InPlace, SeekStart
  PROVE  InPlace' /\ File!SeekTo
<1> USE DEF InPlace
<1>1. mDr.mov /\ mDr' = mDr /\ left' = left /\ fresh' = fresh
  BY DEF SeekStart
<1>2. mPos' = 0 /\ mSector' = mDr.location /\ mStream' = mDr.location * 2352 + 16
  BY DEF SeekStart, kRawSectorSize, MovHeader
<1>3. StreamTypes'
  <2>1. mPos' \in Nat /\ mSector' \in Nat
    BY <1>2 DEF StreamTypes
  <2>2. PICK l \in Nat : l = mDr.location
    BY DEF StreamTypes
  <2>3. mStream' \in Nat
    BY <1>2, <2>2
  <2> QED
    BY <1>1, <2>1, <2>3 DEF StreamTypes
<1>4. FileInPlace'
  BY <1>1 DEF FileInPlace
<1>5. MovieInPlace'
  BY <1>1, <1>2 DEF MovieInPlace, StreamTypes, Idle
<1>6. PICK l \in Nat : l = mDr.location
  BY DEF StreamTypes
<1>7. PICK at \in Nat : at = l * 2352 + 16
  OBVIOUS
<1>8. piece' = [at |-> at, length |-> 0] /\ at + 0 = at
  BY <1>2, <1>6, <1>7 DEF SeekStart
<1>9. FilePlace(at)' = 0
  <2>1. at \div 2352 = l /\ at % 2352 = 16
    BY <1>7, SectorOf
  <2> QED
    BY <1>1, <1>6, <2>1 DEF FilePlace, kRawSectorSize, MovHeader
<1> QED
  BY <1>1, <1>2, <1>3, <1>4, <1>5, <1>8, <1>9 DEF File!SeekTo

LEMMA CloneInPlace ==
  ASSUME InPlace, Clone
  PROVE  InPlace' /\ File!Reopen
<1>1. PICK s \in SubFiles : Reopened(subDir(s))
  BY DEF Clone
<1>2. s[1] \in Nat /\ s[2] \in Nat
  BY CdAssumption
<1>3. PICK a \in Nat, n \in Nat, l \in Nat : a = s[1] /\ n = s[2] /\ l = mDr.location
  BY <1>2 DEF InPlace, StreamTypes
<1>4. subDir(s).location = l + a /\ subDir(s).data_length = n * 2048 /\ subDir(s).mov = mDr.mov
  BY <1>3 DEF subDir, InPlace, StreamTypes
<1>5. subDir(s).location \in Nat /\ subDir(s).data_length \in Nat /\ subDir(s).mov \in BOOLEAN
  BY <1>3, <1>4 DEF InPlace, StreamTypes
<1> QED
  BY <1>1, <1>5, ReopenedInPlace

LEMMA InitInPlace ==
  ASSUME CdInit
  PROVE  InPlace /\ File!ByteInit
<1>a. mDr.location \in Nat /\ mDr.data_length \in Nat /\ mDr.mov \in BOOLEAN
  BY CdAssumption DEF CdInit
<1> PICK l \in Nat : l = mDr.location
  BY <1>a
<1>1. mStream = l * 2352 + 0 /\ mPos = 0 /\ mSector = l /\ left = [c \in Callers |-> -1]
  BY DEF CdInit, kRawSectorSize
<1>2. StreamTypes
  <2>1. fresh \in BOOLEAN
    BY Zenon DEF CdInit
  <2> QED
    BY <1>a, <1>1, <2>1 DEF StreamTypes
<1>3. FileInPlace
  <2>1. mStream \div 2352 = l /\ mStream % 2352 = 0
    BY <1>1, SectorOf
  <2>2. Sector = 0 /\ Offset = 0
    BY <2>1 DEF Sector, Offset, kRawSectorSize
  <2> QED
    BY <1>1, <2>2 DEF CdInit, FileInPlace
<1>4. MovieInPlace
  BY <1>1 DEF MovieInPlace, Idle
<1>5. PICK a \in Nat, o \in Nat :
        a = l * 2352 + o /\ o = (IF mDr.mov THEN 16 ELSE 24) /\ piece = [at |-> a, length |-> 0]
  BY DEF CdInit, FirstByte, kRawSectorSize, RawHeader, MovHeader
<1>6. FilePlace(a) = 0
  <2>1. o < 2352
    BY <1>5
  <2>a. a = l * 2352 + o
    BY <1>5
  <2>2. a \div 2352 = l /\ a % 2352 = o
    BY <2>1, <2>a, SectorOf, SMTT(30)
  <2> QED
    <3>1. CASE mDr.mov
      BY <1>5, <2>2, <3>1 DEF FilePlace, kRawSectorSize, MovHeader
    <3>2. CASE ~mDr.mov
      <4>1. PICK b \in 24..(24 + 2048), s \in Nat : b = 24 /\ s = 0
        OBVIOUS
      <4>4. PICK q, r : q = a \div kRawSectorSize /\ r = a % kRawSectorSize
        OBVIOUS
      <4>2. ~mDr.mov /\ mDr.location = l /\ q = s + l /\ r = b
        BY <1>5, <2>2, <3>2, <4>1, <4>4 DEF kRawSectorSize
      <4>3. FilePlace(a) = s * 2048 + b - 24
        BY <4>2, <4>4 DEF FilePlace, RawHeader
      <4> QED
        BY <4>1, <4>3
    <3> QED
      BY <3>1, <3>2
<1>7. a + 0 = a
  OBVIOUS
<1> QED
  BY <1>1, <1>2, <1>3, <1>4, <1>5, <1>6, <1>7 DEF InPlace, File!ByteInit

LEMMA StepInPlace ==
  ASSUME InPlace, [CdNext]_cdVars
  PROVE  InPlace' /\ [File!ByteNext]_(File!byteVars)
<1>1. CASE UNCHANGED cdVars
  BY <1>1 DEF cdVars, InPlace, StreamTypes, FileInPlace, MovieInPlace, Idle, Sector, Offset,
     File!byteVars, FilePlace
<1>2. ASSUME NEW c \in Callers, NEW n \in Amounts, ReadBytes(c, n)
      PROVE  InPlace' /\ File!ByteNext
  BY <1>2, CdAssumption, ReadBytesInPlace DEF File!ByteNext
<1>3. ASSUME NEW c \in Callers, SpanSector(c)
      PROVE  InPlace' /\ File!ByteNext
  BY <1>3, SpanSectorInPlace DEF File!ByteNext
<1>4. ASSUME NEW c \in Callers, ReadRest(c)
      PROVE  InPlace' /\ File!ByteNext
  BY <1>4, ReadRestInPlace DEF File!ByteNext
<1>5. ASSUME NEW p \in Places, Seek(p)
      PROVE  InPlace' /\ File!ByteNext
  BY <1>5, CdAssumption, SeekInPlace DEF File!ByteNext
<1>6. ASSUME NEW n \in {4, kRawSectorSize - MovHeader}, ReadSector(n)
      PROVE  InPlace' /\ File!ByteNext
  BY <1>6, ReadSectorInPlace DEF File!ByteNext
<1>7. CASE SeekStart
  BY <1>7, SeekStartInPlace DEF File!ByteNext
<1>8. CASE Clone
  BY <1>8, CloneInPlace DEF File!ByteNext
<1> QED
  BY <1>1, <1>2, <1>3, <1>4, <1>5, <1>6, <1>7, <1>8 DEF CdNext

(* The sector that the stream remembers and its place in the image are those *)
(* of its place in the file, whoever reads and seeks (CdFileStream).         *)
THEOREM StreamInPlace == CdSpec => []InPlace
<1>1. CdInit => InPlace
  BY InitInPlace
<1>2. InPlace /\ [CdNext]_cdVars => InPlace'
  BY StepInPlace
<1> QED
  BY <1>1, <1>2, PTL DEF CdSpec

(* A file of a CD image is read like any file, for every file of the image,  *)
(* any reads and any seeks (CdFileStream).                                   *)
THEOREM StreamIsFile == CdSpec => ImplementsFile
<1>1. CdInit => File!ByteInit
  BY InitInPlace
<1>2. InPlace /\ [CdNext]_cdVars => [File!ByteNext]_(File!byteVars)
  BY StepInPlace
<1> QED
  BY <1>1, <1>2, StreamInPlace, PTL DEF CdSpec, ImplementsFile, File!ByteSpec

-----------------------------------------------------------------------------
(* Archives: while LocateVab locates nothing, whoever has the mutex is the    *)
(* stream's only reader, so what it reads comes from where it sought          *)

Upto(F, n) == [i \in 1..n |-> F[i]]
Wanted(t) == IF left[t] = -1 THEN 0 ELSE left[t]

LvlTypes ==
  /\ ~mDr.mov
  /\ locatorMutex \in Callers \cup {NoMutex}
  /\ loading \in {"closed", "header", "records", "file", "chunk", "loaded"}
  /\ reads \in [Callers -> Seq(Nat)]
  /\ began \in [Callers -> Nat \cup {-1}] /\ next \in [Callers -> Nat \cup {-1}]

\* Only the owner of the mutex is in the middle of something.
OneReader ==
  /\ \A t \in Callers : began[t] = -1 => Ready(t)
  /\ \A t \in Callers : began[t] # -1 => locatorMutex = t /\ next[t] = mPos
  /\ loading \notin {"closed", "loaded"} => locatorMutex \in Callers
  /\ loading = "file" => \A t \in Callers : began[t] = -1
  /\ loading = "closed" => locatorMutex = NoMutex /\ mPos = 0
  /\ loading = "header" => began[locatorMutex] # -1

\* The owner reads the fields of the header that begins there.
ReadsHeader(t, place) ==
  /\ began[t] = place
  /\ \A k \in DOMAIN reads[t] : reads[t][k] = 4
  /\ next[t] + Wanted(t) + 4 * Len(reads[t]) = place + 16

ReadsChunk(t, chunk) ==
  /\ chunk.mFilePos = began[t]
  /\ IF reads[t] = <<>> THEN next[t] + Wanted(t) = chunk.mFilePos + chunk.mDataSize
     ELSE reads[t] = <<chunk.mDataSize>> /\ next[t] = chunk.mFilePos /\ Idle(t)

\* n files are found, and m chunks of the one whose headers are being read.
FoundSoFar(n, m) ==
  /\ n <= Len(Lvl)
  /\ loading \in {"closed", "header", "records"} => n = 0
  /\ loading = "loaded" => n = Len(Lvl)
  /\ loading # "chunk" => mFiles = Upto(LvlContents, n)
  /\ loading = "chunk" =>
       /\ n < Len(Lvl) /\ ~Lvl[n + 1].blob /\ m < Len(Lvl[n + 1].headers)
       /\ mFiles = Append(Upto(LvlContents, n), Upto(LvlContents[n + 1], m))
       /\ ReadsHeader(locatorMutex, Lvl[n + 1].headers[m + 1].at)

ChunkInv ==
  loading = "loaded" =>
    \A t \in Callers : began[t] # -1 => \E chunk \in Chunks : ReadsChunk(t, chunk)

ArchiveInv == LvlTypes /\ OneReader /\ (\E n, m \in Nat : FoundSoFar(n, m)) /\ ChunkInv

LEMMA UptoIs ==
  ASSUME NEW F, NEW n \in Nat
  PROVE  /\ Upto(F, n) \in Seq({F[i] : i \in 1..n}) /\ Len(Upto(F, n)) = n
         /\ Append(Upto(F, n), F[n + 1]) = Upto(F, n + 1)
  BY DEF Upto

LEMMA AppendedLast ==
  ASSUME NEW F, NEW n \in Nat, NEW x, NEW y
  PROVE  /\ Len(Append(Upto(F, n), x)) = n + 1
         /\ Append(Upto(F, n), x)[n + 1] = x
         /\ [Append(Upto(F, n), x) EXCEPT ![n + 1] = y] = Append(Upto(F, n), y)
<1>1. Upto(F, n) \in Seq({F[i] : i \in 1..n}) /\ Len(Upto(F, n)) = n
  BY UptoIs
<1>2. \A z : Append(Upto(F, n), z) = [i \in 1..(n + 1) |-> IF i = n + 1 THEN z ELSE Upto(F, n)[i]]
  <2> SUFFICES ASSUME NEW z
               PROVE  Append(Upto(F, n), z) = [i \in 1..(n + 1) |-> IF i = n + 1 THEN z ELSE Upto(F, n)[i]]
    OBVIOUS
  <2> DEFINE T == {F[i] : i \in 1..n} \cup {z}
  <2>1. Upto(F, n) \in Seq(T)
    BY DEF Upto
  <2>2. /\ Append(Upto(F, n), z) \in Seq(T) /\ Len(Append(Upto(F, n), z)) = n + 1
        /\ \A i \in 1..n : Append(Upto(F, n), z)[i] = Upto(F, n)[i]
        /\ Append(Upto(F, n), z)[n + 1] = z
    <3>1. z \in T
      OBVIOUS
    <3> HIDE DEF T
    <3> QED
      BY <1>1, <2>1, <3>1, AppendProperties
  <2>3. Append(Upto(F, n), z) \in [1..(n + 1) -> T]
    BY <2>2, LenProperties
  <2> HIDE DEF T
  <2>4. PICK g : g = Append(Upto(F, n), z)
    OBVIOUS
  <2>5. \A i \in 1..(n + 1) : g[i] = IF i = n + 1 THEN z ELSE Upto(F, n)[i]
    <3>1. \A i \in 1..(n + 1) : i = n + 1 \/ i \in 1..n
      OBVIOUS
    <3> QED
      BY <2>2, <2>4, <3>1
  <2>6. g \in [1..(n + 1) -> T]
    BY <2>3, <2>4
  <2>7. g = [i \in 1..(n + 1) |-> g[i]]
    BY <2>6
  <2> QED
    BY <2>4, <2>5, <2>7, Zenon
<1>3. n + 1 \in 1..(n + 1)
  OBVIOUS
<1>4. Len(Append(Upto(F, n), x)) = n + 1
  BY <1>1
<1>5. [Append(Upto(F, n), x) EXCEPT ![n + 1] = y] = Append(Upto(F, n), y)
  <2>1. [[i \in 1..(n + 1) |-> IF i = n + 1 THEN x ELSE Upto(F, n)[i]] EXCEPT ![n + 1] = y]
        = [i \in 1..(n + 1) |-> IF i = n + 1 THEN y ELSE Upto(F, n)[i]]
    BY <1>3
  <2> QED
    BY <1>2, <2>1
<1> QED
  BY <1>2, <1>3, <1>4, <1>5

\* What is in the archive lies at places of the file.
LEMMA ContentsAre ==
  /\ Len(Lvl) \in Nat /\ DOMAIN LvlContents = 1..Len(Lvl)
  /\ \A i \in 1..Len(Lvl) : \A k \in DOMAIN LvlContents[i] :
       LvlContents[i][k].mFilePos \in Nat /\ LvlContents[i][k].mDataSize \in Nat
<1>1. Len(Lvl) \in Nat /\ DOMAIN LvlContents = 1..Len(Lvl)
  BY LvlAssumption DEF LvlContents
<1>2. ASSUME NEW i \in 1..Len(Lvl), NEW k \in DOMAIN LvlContents[i]
      PROVE  LvlContents[i][k].mFilePos \in Nat /\ LvlContents[i][k].mDataSize \in Nat
  <2>1. CASE Lvl[i].blob
    <3>1. LvlContents[i] = <<[id |-> "0", mFilePos |-> Lvl[i].start * 2048, mDataSize |-> Lvl[i].size]>>
      BY <2>1, LvlAssumption DEF LvlContents
    <3>2. Lvl[i].start \in Nat /\ Lvl[i].size \in Nat
      BY LvlAssumption
    <3> QED
      BY <1>2, <3>1, <3>2
  <2>2. CASE ~Lvl[i].blob
    <3> DEFINE h == Lvl[i].headers
    <3>1. LvlContents[i] = [j \in 1..(Len(h) - 1) |->
             [id |-> h[j].id, mFilePos |-> h[j].at + 16, mDataSize |-> h[j].size - 16]]
      BY <2>2, LvlAssumption DEF LvlContents
    <3>2. Len(h) \in Nat /\ k \in 1..(Len(h) - 1) /\ k \in DOMAIN h
      BY <1>2, <3>1, LvlAssumption
    <3>3. h[k].at \in Nat /\ h[k].size \in Nat
      BY <3>2, LvlAssumption
    <3>4. h[k].size >= 16
      BY <2>2, <3>2, <3>3, LvlAssumption, HeadersAssumption
    <3> QED
      BY <3>1, <3>2, <3>3, <3>4, SMTT(30)
  <2> QED
    BY <2>1, <2>2
<1> QED
  BY <1>1, <1>2

\* The stream, as its users know it.
LEMMA StreamPlace ==
  ASSUME InPlace
  PROVE  mPos \in Nat /\ left \in [Callers -> Nat \cup {-1}]
  BY DEF InPlace, StreamTypes

LEMMA Asked ==
  ASSUME InPlace, NEW t \in Callers, NEW n \in Nat, ReadBytes(t, n)
  PROVE  InPlace' /\ Idle(t) /\ left' = [left EXCEPT ![t] = n] /\ UNCHANGED <<mDr, mPos>>
<1>1. InPlace'
  BY ReadBytesInPlace
<1> QED
  BY <1>1 DEF ReadBytes

LEMMA Given ==
  ASSUME InPlace, NEW t \in Callers, SpanSector(t) \/ ReadRest(t)
  PROVE  InPlace' /\ ~Idle(t) /\ mDr' = mDr /\ ReadOn /\ File!Give(t)
<1>1. CASE SpanSector(t)
  <2>1. ~Idle(t) /\ mDr' = mDr
    BY <1>1 DEF SpanSector
  <2> QED
    BY <1>1, <2>1, SpanSectorInPlace
<1>2. CASE ReadRest(t)
  <2>1. ~Idle(t) /\ mDr' = mDr
    BY <1>2 DEF ReadRest
  <2> QED
    BY <1>2, <2>1, ReadRestInPlace
<1> QED
  BY <1>1, <1>2

LEMMA Sought ==
  ASSUME InPlace, NEW p \in Nat, Seek(p)
  PROVE  InPlace' /\ mPos' = p /\ UNCHANGED <<mDr, left>>
<1>1. InPlace'
  BY SeekInPlace
<1> QED
  BY <1>1 DEF Seek

\* While nothing is read the owner may start to, from the place of the stream.
LEMMA NowReads ==
  ASSUME InPlace, LvlTypes, OneReader, NEW t \in Callers, NEW place \in Nat \cup {-1},
         NEW fields \in Seq(Nat), WillRead(t, place, fields),
         \A u \in Callers : u # t => began[u] = -1, Ready(t),
         ~mDr'.mov, UNCHANGED left,
         locatorMutex' \in Callers \cup {NoMutex},
         loading' \in {"closed", "header", "records", "file", "chunk", "loaded"},
         IF place = -1 THEN fields = <<>> ELSE locatorMutex' = t /\ place = mPos'
  PROVE  /\ LvlTypes'
         /\ \A u \in Callers : began'[u] = -1 => Ready(u)'
         /\ \A u \in Callers : began'[u] # -1 => locatorMutex' = u /\ next'[u] = mPos'
         /\ \A u \in Callers : u # t => began'[u] = -1
         /\ began'[t] = place /\ next'[t] = place /\ reads'[t] = fields /\ Ready(t)' = (fields = <<>>)
<1>1. LvlTypes'
  BY DEF LvlTypes, WillRead
<1>2. \A u \in Callers : Idle(u)' = Idle(u)
  BY DEF Idle
<1>3. /\ began'[t] = place /\ next'[t] = place /\ reads'[t] = fields
      /\ \A u \in Callers : u # t => began'[u] = -1 /\ reads'[u] = reads[u]
  BY DEF LvlTypes, WillRead
<1>4. \A u \in Callers : u # t => Ready(u)'
  BY <1>2, <1>3 DEF OneReader, Ready
<1>5. Ready(t)' = (fields = <<>>)
  BY <1>2, <1>3 DEF Ready
<1> QED
  BY <1>1, <1>3, <1>4, <1>5

LEMMA ReadNextStep ==
  ASSUME InPlace, ArchiveInv, NEW t \in Callers, ReadNext(t)
  PROVE  InPlace' /\ ArchiveInv'
<1> USE DEF ArchiveInv
<1>1. reads \in [Callers -> Seq(Nat)] /\ reads[t] # <<>>
  BY DEF LvlTypes, ReadNext
<1>2. PICK s \in Seq(Nat), n \in Nat, rest \in Seq(Nat) :
        /\ s = reads[t] /\ n = Head(s) /\ rest = Tail(s)
        /\ Len(s) = Len(rest) + 1 /\ Len(rest) \in Nat
        /\ n = s[1] /\ \A k \in 1..Len(rest) : rest[k] = s[k + 1]
  <2>1. PICK s \in Seq(Nat) : s = reads[t] /\ s # <<>>
    BY <1>1
  <2>2. Head(s) \in Nat /\ Tail(s) \in Seq(Nat) /\ Len(s) = Len(Tail(s)) + 1 /\ Len(Tail(s)) \in Nat
        /\ Head(s) = s[1] /\ \A k \in 1..Len(Tail(s)) : Tail(s)[k] = s[k + 1]
    BY <2>1
  <2> QED
    BY <2>1, <2>2
<1>3. ReadBytes(t, n) /\ reads' = [reads EXCEPT ![t] = rest]
      /\ UNCHANGED <<locatorMutex, loading, mFiles, began, next>>
  BY <1>2 DEF ReadNext
<1>4. InPlace' /\ Idle(t) /\ left' = [left EXCEPT ![t] = n] /\ UNCHANGED <<mDr, mPos>>
  BY <1>3, Asked
<1>5. left \in [Callers -> Nat \cup {-1}]
  BY StreamPlace
<1>6. began[t] # -1 /\ locatorMutex = t /\ \A u \in Callers : u # t => began[u] = -1
  BY <1>1 DEF OneReader, Ready
<1>7. LvlTypes'
  BY <1>3, <1>4 DEF LvlTypes
<1>8. OneReader'
  BY <1>1, <1>3, <1>4, <1>5, <1>6 DEF OneReader, Ready, Idle
<1>9. Wanted(t) = 0 /\ Wanted(t)' = n /\ next'[t] = next[t] /\ next[t] \in Nat \cup {-1}
  BY <1>3, <1>4, <1>5 DEF Wanted, Idle, LvlTypes
<1>10. reads'[t] = rest
  BY <1>1, <1>3
<1>11. ASSUME NEW place \in Nat, ReadsHeader(t, place) PROVE ReadsHeader(t, place)'
  <2>1. n = 4 /\ \A k \in DOMAIN rest : rest[k] = 4
    <3>1. DOMAIN s = 1..Len(s) /\ DOMAIN rest = 1..Len(rest)
      BY LenProperties
    <3>2. \A k \in 1..Len(s) : s[k] = 4
      BY <1>2, <1>11, <3>1, Zenon DEF ReadsHeader
    <3>3. 1 \in 1..Len(s) /\ \A k \in 1..Len(rest) : k + 1 \in 1..Len(s)
      BY <1>2
    <3>4. n = 4
      BY <1>2, <3>2, <3>3, Zenon
    <3>5. ASSUME NEW k \in DOMAIN rest PROVE rest[k] = 4
      <4>1. k \in 1..Len(rest)
        BY <3>1
      <4>2. rest[k] = s[k + 1]
        BY <1>2, <4>1, Zenon
      <4> QED
        BY <3>2, <3>3, <4>1, <4>2, Zenon
    <3> QED
      BY <3>4, <3>5, Zenon
  <2>2. next[t] + 4 * (Len(rest) + 1) = place + 16
    BY <1>2, <1>9, <1>11 DEF ReadsHeader
  <2>3. next'[t] + Wanted(t)' + 4 * Len(rest) = place + 16
    BY <1>9, <2>1, <2>2
  <2> QED
    BY <1>3, <1>10, <1>11, <2>1, <2>3 DEF ReadsHeader
<1>12. \E i, j \in Nat : FoundSoFar(i, j)'
  <2>1. PICK i \in Nat, j \in Nat : FoundSoFar(i, j)
    OBVIOUS
  <2>2. ASSUME loading = "chunk"
        PROVE  ReadsHeader(locatorMutex, Lvl[i + 1].headers[j + 1].at)'
    <3>1. ReadsHeader(t, Lvl[i + 1].headers[j + 1].at)
      BY <1>6, <2>1, <2>2 DEF FoundSoFar
    <3>2. Lvl[i + 1].headers[j + 1].at \in Nat
      BY <1>6, <3>1 DEF ReadsHeader, LvlTypes
    <3> QED
      BY <1>3, <1>6, <1>11, <3>1, <3>2
  <2>3. FoundSoFar(i, j)'
    BY <1>3, <2>1, <2>2 DEF FoundSoFar
  <2> QED
    BY <2>3
<1>13. ChunkInv'
  <2>1. ASSUME loading = "loaded" PROVE \E chunk \in Chunks : ReadsChunk(t, chunk)'
    <3>1. PICK chunk \in Chunks : ReadsChunk(t, chunk)
      BY <1>6, <2>1 DEF ChunkInv
    <3>2. reads[t] = <<chunk.mDataSize>> /\ next[t] = chunk.mFilePos
      BY <1>1, <3>1 DEF ReadsChunk
    <3>3. rest = <<>> /\ n = chunk.mDataSize
      BY <1>2, <3>2
    <3>4. ReadsChunk(t, chunk)'
      BY <1>3, <1>9, <1>10, <3>1, <3>2, <3>3 DEF ReadsChunk
    <3> QED
      BY <3>4
  <2>2. Chunks' = Chunks
    BY <1>3 DEF Chunks
  <2> QED
    BY <1>3, <1>6, <2>1, <2>2 DEF ChunkInv
<1> QED
  BY <1>4, <1>7, <1>8, <1>12, <1>13

LEMMA ReceiveStep ==
  ASSUME InPlace, ArchiveInv, NEW t \in Callers, Receive(t)
  PROVE  InPlace' /\ ArchiveInv'
<1> USE DEF ArchiveInv
<1>1. InPlace' /\ ~Idle(t) /\ mDr' = mDr /\ ReadOn /\ File!Give(t)
  BY Given DEF Receive
<1>2. UNCHANGED <<locatorMutex, loading, mFiles, reads, began>>
      /\ next' = [next EXCEPT ![t] =
           IF piece'.length = 0 \/ FilePlace(piece'.at) = @ THEN @ + piece'.length ELSE -1]
  BY DEF Receive
<1>3. left \in [Callers -> Nat \cup {-1}] /\ mPos \in Nat /\ mPos' \in Nat
  BY <1>1, StreamPlace DEF InPlace, StreamTypes
<1>4. PICK w \in Nat, k \in Nat : /\ w = left[t] /\ k <= w /\ mPos' = mPos + k
                                  /\ left' = [left EXCEPT ![t] = IF k = w THEN -1 ELSE w - k]
  <2>1. PICK w \in Nat : w = left[t]
    BY <1>1, <1>3 DEF Idle
  <2>2. PICK k \in Nat : k = mPos' - mPos /\ k <= w
    BY <1>1, <2>1 DEF File!Give
  <2>3. left' = [left EXCEPT ![t] = IF k = w THEN -1 ELSE w - k]
    BY <1>1, <2>1, <2>2 DEF File!Give
  <2>4. mPos' = mPos + k
    <3>1. PICK p \in Nat, q \in Nat : p = mPos /\ q = mPos'
      BY <1>3
    <3>2. k = q - p
      BY <2>2, <3>1
    <3>3. q = p + k
      BY <3>2
    <3> QED
      BY <3>1, <3>3
  <2> QED
    BY <2>1, <2>2, <2>3, <2>4, Zenon
<1>5. began[t] # -1 /\ locatorMutex = t /\ next[t] = mPos /\ \A u \in Callers : u # t => began[u] = -1
  BY <1>1 DEF OneReader, Ready
<1>6. next' = [next EXCEPT ![t] = mPos']
  <2>1. FilePlace(piece'.at) = next[t] /\ piece'.length = k
    BY <1>1, <1>3, <1>4, <1>5 DEF ReadOn
  <2> QED
    BY <1>2, <1>4, <1>5, <2>1
<1>7. LvlTypes'
  BY <1>1, <1>2, <1>3, <1>6 DEF LvlTypes
<1>8. OneReader'
  <2>1. \A u \in Callers : u # t => Idle(u)' = Idle(u)
    BY <1>3, <1>4 DEF Idle
  <2>2. next'[t] = mPos'
    BY <1>6 DEF LvlTypes
  <2>3. loading # "closed" /\ loading # "file"
    BY <1>5, LvlAssumption DEF OneReader
  <2> QED
    BY <1>2, <1>5, <2>1, <2>2, <2>3 DEF OneReader, Ready
<1>9. next'[t] + Wanted(t)' = next[t] + Wanted(t)
  <2>1. Wanted(t) = w
    BY <1>4 DEF Wanted
  <2>2. Wanted(t)' = w - k
    <3>1. left'[t] = IF k = w THEN -1 ELSE w - k
      BY <1>3, <1>4
    <3>2. CASE k = w
      BY <3>1, <3>2 DEF Wanted
    <3>3. CASE k # w
      BY <1>4, <3>1, <3>3 DEF Wanted
    <3> QED
      BY <3>2, <3>3
  <2>3. next'[t] = mPos + k /\ next[t] = mPos
    BY <1>4, <1>5, <1>6 DEF LvlTypes
  <2> QED
    BY <1>3, <2>1, <2>2, <2>3
<1>10. ASSUME NEW place \in Nat, ReadsHeader(t, place) PROVE ReadsHeader(t, place)'
  BY <1>2, <1>9, <1>10 DEF ReadsHeader
<1>11. \E i, j \in Nat : FoundSoFar(i, j)'
  <2>1. PICK i \in Nat, j \in Nat : FoundSoFar(i, j)
    OBVIOUS
  <2>2. ASSUME loading = "chunk"
        PROVE  ReadsHeader(locatorMutex, Lvl[i + 1].headers[j + 1].at)'
    <3>1. ReadsHeader(t, Lvl[i + 1].headers[j + 1].at)
      BY <1>5, <2>1, <2>2 DEF FoundSoFar
    <3>2. Lvl[i + 1].headers[j + 1].at \in Nat
      BY <1>5, <3>1 DEF ReadsHeader, LvlTypes
    <3> QED
      BY <1>2, <1>5, <1>10, <3>1, <3>2
  <2>3. FoundSoFar(i, j)'
    BY <1>2, <2>1, <2>2 DEF FoundSoFar
  <2> QED
    BY <2>3
<1>12. ChunkInv'
  <2>1. ASSUME loading = "loaded" PROVE \E chunk \in Chunks : ReadsChunk(t, chunk)'
    <3>1. PICK chunk \in Chunks : ReadsChunk(t, chunk)
      BY <1>5, <2>1 DEF ChunkInv
    <3>2. ReadsChunk(t, chunk)'
      BY <1>1, <1>2, <1>9, <3>1 DEF ReadsChunk
    <3> QED
      BY <3>2
  <2>2. Chunks' = Chunks
    BY <1>2 DEF Chunks
  <2> QED
    BY <1>2, <1>5, <2>1, <2>2 DEF ChunkInv
<1> QED
  BY <1>1, <1>7, <1>8, <1>11, <1>12

LEMMA FieldsAreNumbers ==
  /\ HeaderFields \in Seq(Nat)
  /\ [k \in 1..(4 * Len(Lvl)) |-> RecordFields[((k - 1) % 4) + 1]] \in Seq(Nat)
  /\ ChunkFields \in Seq(Nat) /\ Len(ChunkFields) = 4 /\ ChunkFields # <<>>
  /\ \A k \in DOMAIN ChunkFields : ChunkFields[k] = 4
<1>1. HeaderFields \in Seq(Nat)
  BY DEF HeaderFields
<1>2. PICK n \in Nat : n = 4 * Len(Lvl)
  BY LvlAssumption
<1>3. \A k \in 1..n : ((k - 1) % 4) + 1 \in 1..4
  OBVIOUS
<1>4. \A i \in 1..4 : RecordFields[i] \in Nat
  BY DEF RecordFields
<1>5. [k \in 1..n |-> RecordFields[((k - 1) % 4) + 1]] \in Seq(Nat)
  BY <1>3, <1>4
<1>6. ChunkFields \in Seq(Nat) /\ Len(ChunkFields) = 4 /\ ChunkFields # <<>>
      /\ \A k \in DOMAIN ChunkFields : ChunkFields[k] = 4
  BY DEF ChunkFields
<1> QED
  BY <1>1, <1>2, <1>5, <1>6

\* Without LocateVab the mutex is everybody's.
LEMMA Alone ==
  ASSUME OneReader, NEW t \in Callers, locatorMutex \in {t, NoMutex}
  PROVE  \A u \in Callers : u # t => began[u] = -1
  BY LvlAssumption DEF OneReader

LEMMA OpenStep ==
  ASSUME InPlace, ArchiveInv, NEW t \in Callers, OpenLvl(t)
  PROVE  InPlace' /\ ArchiveInv'
<1> USE DEF ArchiveInv
<1>1. /\ loading = "closed" /\ locatorMutex = NoMutex /\ locatorMutex' = t /\ loading' = "header"
      /\ WillRead(t, 0, HeaderFields) /\ UNCHANGED <<cdVars, mFiles>>
  BY DEF OpenLvl
<1>2. InPlace'
  BY <1>1, StepInPlace
<1>3. UNCHANGED <<mDr, mPos, left>> /\ mPos = 0
  BY <1>1 DEF cdVars, OneReader
<1>4. \A u \in Callers : u # t => began[u] = -1
  BY <1>1, Alone
<1>5. began[t] = -1 /\ Ready(t)
  BY <1>1, LvlAssumption DEF OneReader
<1>6. /\ LvlTypes'
      /\ \A u \in Callers : began'[u] = -1 => Ready(u)'
      /\ \A u \in Callers : began'[u] # -1 => locatorMutex' = u /\ next'[u] = mPos'
      /\ began'[t] = 0
  BY <1>1, <1>3, <1>4, <1>5, FieldsAreNumbers, NowReads DEF LvlTypes
<1>7. OneReader'
  BY <1>1, <1>6 DEF OneReader
<1>8. \E i, j \in Nat : FoundSoFar(i, j)'
  BY <1>1 DEF FoundSoFar
<1>9. ChunkInv'
  BY <1>1 DEF ChunkInv
<1> QED
  BY <1>2, <1>6, <1>7, <1>8, <1>9

LEMMA HeaderStep ==
  ASSUME InPlace, ArchiveInv, NEW t \in Callers, HeaderRead(t)
  PROVE  InPlace' /\ ArchiveInv'
<1> USE DEF ArchiveInv
<1> DEFINE fields == [k \in 1..(4 * Len(Lvl)) |-> RecordFields[((k - 1) % 4) + 1]]
<1>1. /\ loading = "header" /\ locatorMutex = t /\ Ready(t) /\ loading' = "records"
      /\ WillRead(t, next[t], fields) /\ UNCHANGED <<cdVars, locatorMutex, mFiles>>
  BY DEF HeaderRead
<1> fields \in Seq(Nat)
  BY FieldsAreNumbers
<1> HIDE DEF fields
<1>2. InPlace'
  BY <1>1, StepInPlace
<1>3. UNCHANGED <<mDr, mPos, left>>
  BY <1>1 DEF cdVars
<1>4. \A u \in Callers : u # t => began[u] = -1
  BY <1>1, Alone
<1>5. next[t] = mPos /\ mPos \in Nat
  BY <1>1, StreamPlace DEF OneReader
<1>6. /\ LvlTypes'
      /\ \A u \in Callers : began'[u] = -1 => Ready(u)'
      /\ \A u \in Callers : began'[u] # -1 => locatorMutex' = u /\ next'[u] = mPos'
  <2>1. IF mPos = -1 THEN fields = <<>> ELSE locatorMutex' = t /\ mPos = mPos'
    BY <1>1, <1>3, <1>5
  <2> QED
    BY <1>1, <1>3, <1>4, <1>5, <2>1, NowReads DEF LvlTypes
<1>7. OneReader'
  BY <1>1, <1>6 DEF OneReader
<1>8. \E i, j \in Nat : FoundSoFar(i, j)'
  BY <1>1 DEF FoundSoFar
<1>9. ChunkInv'
  BY <1>1 DEF ChunkInv
<1> QED
  BY <1>2, <1>6, <1>7, <1>8, <1>9

LEMMA InvalidStep ==
  ASSUME InPlace, ArchiveInv, NEW t \in Callers, HeaderInvalid(t)
  PROVE  InPlace' /\ ArchiveInv'
<1> USE DEF ArchiveInv
<1>1. /\ loading = "header" /\ locatorMutex = t /\ Ready(t) /\ loading' = "closed" /\ locatorMutex' = NoMutex
      /\ Reopened(mDr) /\ WillRead(t, -1, <<>>) /\ UNCHANGED mFiles
  BY DEF HeaderInvalid, WillReadNothing
<1>2. InPlace'
  <2>1. mDr.location \in Nat /\ mDr.data_length \in Nat /\ mDr.mov \in BOOLEAN
    BY DEF InPlace, StreamTypes
  <2> QED
    BY <1>1, <2>1, ReopenedInPlace
<1>3. mDr' = mDr /\ mPos' = 0 /\ left' = [c \in Callers |-> -1]
  BY <1>1 DEF Reopened
<1>4. \A u \in Callers : u # t => began[u] = -1
  BY <1>1, Alone
<1>5. /\ reads' = [reads EXCEPT ![t] = <<>>] /\ began' = [began EXCEPT ![t] = -1]
      /\ next' = [next EXCEPT ![t] = -1]
  BY <1>1 DEF WillRead
<1>6. LvlTypes'
  BY <1>1, <1>3, <1>5, EmptySeq DEF LvlTypes
<1>7. \A u \in Callers : began'[u] = -1 /\ Ready(u)'
  BY <1>3, <1>4, <1>5 DEF OneReader, LvlTypes, Ready, Idle
<1>8. OneReader'
  BY <1>1, <1>3, <1>7 DEF OneReader
<1>9. \E i, j \in Nat : FoundSoFar(i, j)'
  BY <1>1 DEF FoundSoFar
<1>10. ChunkInv'
  BY <1>1 DEF ChunkInv
<1> QED
  BY <1>2, <1>6, <1>8, <1>9, <1>10

LEMMA RecordsStep ==
  ASSUME InPlace, ArchiveInv, NEW t \in Callers, RecordsRead(t)
  PROVE  InPlace' /\ ArchiveInv'
<1> USE DEF ArchiveInv
<1>1. /\ loading = "records" /\ locatorMutex = t /\ Ready(t) /\ loading' = "file"
      /\ WillRead(t, -1, <<>>) /\ UNCHANGED <<cdVars, locatorMutex, mFiles>>
  BY DEF RecordsRead, WillReadNothing
<1>2. InPlace'
  BY <1>1, StepInPlace
<1>3. UNCHANGED <<mDr, mPos, left>>
  BY <1>1 DEF cdVars
<1>4. \A u \in Callers : u # t => began[u] = -1
  BY <1>1, Alone
<1>5. /\ LvlTypes'
      /\ \A u \in Callers : began'[u] = -1 => Ready(u)'
      /\ \A u \in Callers : u # t => began'[u] = -1
      /\ began'[t] = -1
  BY <1>1, <1>3, <1>4, NowReads, EmptySeq DEF LvlTypes
<1>6. OneReader'
  BY <1>1, <1>5 DEF OneReader
<1>7. \E i, j \in Nat : FoundSoFar(i, j)'
  BY <1>1 DEF FoundSoFar
<1>8. ChunkInv'
  BY <1>1 DEF ChunkInv
<1> QED
  BY <1>2, <1>5, <1>6, <1>7, <1>8

LEMMA FilesLoadedStep ==
  ASSUME InPlace, ArchiveInv, NEW t \in Callers, FilesLoaded(t)
  PROVE  InPlace' /\ ArchiveInv'
<1> USE DEF ArchiveInv
<1>1. /\ loading = "file" /\ Len(mFiles) = Len(Lvl) /\ loading' = "loaded" /\ locatorMutex' = NoMutex
      /\ UNCHANGED <<cdVars, mFiles, reads, began, next>>
  BY DEF FilesLoaded
<1>2. InPlace'
  BY <1>1, StepInPlace
<1>3. UNCHANGED <<mDr, mPos, left>>
  BY <1>1 DEF cdVars
<1>4. \A u \in Callers : began[u] = -1
  BY <1>1 DEF OneReader
<1>5. LvlTypes'
  BY <1>1, <1>3 DEF LvlTypes
<1>6. OneReader'
  BY <1>1, <1>3, <1>4 DEF OneReader, Ready, Idle
<1>7. \E i, j \in Nat : FoundSoFar(i, j)'
  <2>1. PICK i \in Nat, j \in Nat : FoundSoFar(i, j)
    OBVIOUS
  <2>2. mFiles = Upto(LvlContents, i) /\ i <= Len(Lvl)
    BY <1>1, <2>1 DEF FoundSoFar
  <2>3. i = Len(Lvl)
    BY <1>1, <2>2, UptoIs
  <2>4. FoundSoFar(i, j)'
    BY <1>1, <2>2, <2>3 DEF FoundSoFar
  <2> QED
    BY <2>4
<1>8. ChunkInv'
  BY <1>1, <1>4 DEF ChunkInv
<1> QED
  BY <1>2, <1>5, <1>6, <1>7, <1>8

\* What was found is what there is.
LEMMA AllFound ==
  ASSUME NEW i \in Nat, NEW j \in Nat, FoundSoFar(i, j), loading = "loaded"
  PROVE  mFiles = LvlContents
<1>1. mFiles = Upto(LvlContents, Len(Lvl))
  BY DEF FoundSoFar
<1>2. DOMAIN LvlContents = 1..Len(Lvl)
  BY ContentsAre
<1>3. LvlContents = [k \in DOMAIN LvlContents |-> LvlContents[k]]
  BY DEF LvlContents
<1> QED
  BY <1>1, <1>2, <1>3 DEF Upto

LEMMA ChunkTypes ==
  ASSUME ArchiveInv, loading = "loaded", NEW chunk \in Chunks
  PROVE  chunk.mFilePos \in Nat /\ chunk.mDataSize \in Nat
<1>1. mFiles = LvlContents
  BY AllFound DEF ArchiveInv
<1>2. \E i \in DOMAIN LvlContents : \E k \in DOMAIN LvlContents[i] : chunk = LvlContents[i][k]
  BY <1>1 DEF Chunks
<1> QED
  BY <1>2, ContentsAre

LEMMA LocatedStep ==
  ASSUME InPlace, ArchiveInv, NEW t \in Callers, Located(t)
  PROVE  InPlace' /\ ArchiveInv'
<1> USE DEF ArchiveInv
<1>1. /\ loading = "loaded" /\ Ready(t) /\ (began[t] # -1 \/ locatorMutex = t)
      /\ locatorMutex' = IF locatorMutex = t THEN NoMutex ELSE locatorMutex
      /\ WillRead(t, -1, <<>>) /\ UNCHANGED <<cdVars, loading, mFiles>>
  BY DEF Located, WillReadNothing
<1>2. InPlace'
  BY <1>1, StepInPlace
<1>3. UNCHANGED <<mDr, mPos, left>>
  BY <1>1 DEF cdVars
<1>4. locatorMutex = t /\ \A u \in Callers : u # t => began[u] = -1
  BY <1>1, Alone DEF OneReader
<1>5. /\ LvlTypes'
      /\ \A u \in Callers : began'[u] = -1 => Ready(u)'
      /\ \A u \in Callers : began'[u] = -1
  <2>1. <<>> \in Seq(Nat) /\ ~mDr'.mov /\ locatorMutex' \in Callers \cup {NoMutex}
    BY <1>1, <1>3, <1>4, EmptySeq DEF LvlTypes
  <2>2. loading' \in {"closed", "header", "records", "file", "chunk", "loaded"}
    BY <1>1
  <2>3. /\ LvlTypes'
        /\ \A u \in Callers : began'[u] = -1 => Ready(u)'
        /\ \A u \in Callers : u # t => began'[u] = -1
        /\ began'[t] = -1
    BY <1>1, <1>3, <1>4, <2>1, <2>2, NowReads
  <2> QED
    BY <2>3
<1>6. OneReader'
  BY <1>1, <1>5 DEF OneReader
<1>7. \E i, j \in Nat : FoundSoFar(i, j)'
  BY <1>1 DEF FoundSoFar
<1>8. ChunkInv'
  BY <1>5 DEF ChunkInv
<1> QED
  BY <1>2, <1>5, <1>6, <1>7, <1>8

LEMMA LocateStep ==
  ASSUME InPlace, ArchiveInv, Browsers = {}, NEW t \in Callers, NEW chunk \in Chunks, LocateIn(t, chunk)
  PROVE  InPlace' /\ ArchiveInv'
<1> USE DEF ArchiveInv
<1>1. /\ loading = "loaded" /\ Ready(t) /\ began[t] = -1 /\ locatorMutex = NoMutex /\ locatorMutex' = t
      /\ UNCHANGED <<loading, mFiles>>
  BY DEF LocateIn
<1>2. chunk.mFilePos \in Nat /\ chunk.mDataSize \in Nat
  BY <1>1, ChunkTypes
<1>3. \A u \in Callers : u # t => began[u] = -1
  BY <1>1, Alone
<1>4. \E i, j \in Nat : FoundSoFar(i, j)'
  BY <1>1 DEF FoundSoFar
<1>5. CASE chunk.mDataSize = 0
  <2>1. WillRead(t, -1, <<>>) /\ UNCHANGED cdVars
    BY <1>5 DEF LocateIn, WillReadNothing
  <2>2. InPlace'
    BY <2>1, StepInPlace
  <2>3. UNCHANGED <<mDr, mPos, left>>
    BY <2>1 DEF cdVars
  <2>4. /\ LvlTypes'
        /\ \A u \in Callers : began'[u] = -1 => Ready(u)'
        /\ \A u \in Callers : began'[u] = -1
    <3>1. PICK place, fields : place = -1 /\ fields = <<>>
      OBVIOUS
    <3>2. place \in Nat \cup {-1} /\ fields \in Seq(Nat) /\ WillRead(t, place, fields)
      BY <2>1, <3>1, EmptySeq
    <3>3. /\ LvlTypes /\ OneReader /\ Ready(t) /\ ~mDr'.mov /\ UNCHANGED left
          /\ locatorMutex' \in Callers \cup {NoMutex}
          /\ loading' \in {"closed", "header", "records", "file", "chunk", "loaded"}
      BY <1>1, <2>3 DEF LvlTypes
    <3>4. IF place = -1 THEN fields = <<>> ELSE locatorMutex' = t /\ place = mPos'
      BY <3>1
    <3>5. /\ LvlTypes'
          /\ \A u \in Callers : began'[u] = -1 => Ready(u)'
          /\ \A u \in Callers : u # t => began'[u] = -1
          /\ began'[t] = place
      BY <1>3, <3>2, <3>3, <3>4, NowReads
    <3> QED
      BY <3>1, <3>5
  <2>5. OneReader'
    BY <1>1, <2>4 DEF OneReader
  <2>6. ChunkInv'
    BY <2>4 DEF ChunkInv
  <2> QED
    BY <1>4, <2>2, <2>4, <2>5, <2>6
<1>6. CASE chunk.mDataSize # 0
  <2>1. WillRead(t, chunk.mFilePos, <<chunk.mDataSize>>) /\ Seek(chunk.mFilePos)
    BY <1>6 DEF LocateIn
  <2>2. InPlace' /\ mPos' = chunk.mFilePos /\ UNCHANGED <<mDr, left>>
    BY <1>2, <2>1, Sought
  <2>3. /\ LvlTypes'
        /\ \A u \in Callers : began'[u] = -1 => Ready(u)'
        /\ \A u \in Callers : began'[u] # -1 => locatorMutex' = u /\ next'[u] = mPos'
        /\ \A u \in Callers : u # t => began'[u] = -1
        /\ began'[t] = chunk.mFilePos /\ next'[t] = chunk.mFilePos /\ reads'[t] = <<chunk.mDataSize>>
    <3>1. PICK place \in Nat, fields \in Seq(Nat) :
            place = chunk.mFilePos /\ fields = <<chunk.mDataSize>> /\ place # -1
      <4>1. PICK place \in Nat, n \in Nat : place = chunk.mFilePos /\ n = chunk.mDataSize
        BY <1>2
      <4>2. <<n>> \in Seq(Nat) /\ place # -1
        OBVIOUS
      <4> QED
        BY <4>1, <4>2
    <3>2. ~mDr'.mov /\ locatorMutex' \in Callers \cup {NoMutex}
          /\ loading' \in {"closed", "header", "records", "file", "chunk", "loaded"}
      BY <1>1, <2>2 DEF LvlTypes
    <3>3. WillRead(t, place, fields) /\ UNCHANGED left /\ locatorMutex' = t /\ place = mPos'
      BY <1>1, <2>1, <2>2, <3>1
    <3>4. IF place = -1 THEN fields = <<>> ELSE locatorMutex' = t /\ place = mPos'
      BY <3>1, <3>3
    <3>5. /\ LvlTypes'
          /\ \A u \in Callers : began'[u] = -1 => Ready(u)'
          /\ \A u \in Callers : began'[u] # -1 => locatorMutex' = u /\ next'[u] = mPos'
          /\ \A u \in Callers : u # t => began'[u] = -1
          /\ began'[t] = place /\ next'[t] = place /\ reads'[t] = fields
      BY <1>1, <1>3, <3>2, <3>3, <3>4, NowReads
    <3> QED
      BY <3>1, <3>5
  <2>4. OneReader'
    BY <1>1, <2>3 DEF OneReader
  <2>5. Idle(t)'
    BY <1>1, <2>2 DEF Ready, Idle
  <2>6. ReadsChunk(t, chunk)'
    BY <2>3, <2>5 DEF ReadsChunk
  <2>7. chunk \in Chunks'
    BY <1>1 DEF Chunks
  <2>8. ChunkInv'
    BY <2>3, <2>6, <2>7 DEF ChunkInv
  <2> QED
    BY <1>4, <2>2, <2>3, <2>4, <2>8
<1> QED
  BY <1>5, <1>6

LEMMA BlobContents ==
  ASSUME NEW f \in DOMAIN Lvl, Lvl[f].blob
  PROVE  LvlContents[f] = <<[id |-> "0", mFilePos |-> Lvl[f].start * 2048, mDataSize |-> Lvl[f].size]>>
  BY DEF LvlContents

LEMMA ChunkContents ==
  ASSUME NEW f \in DOMAIN Lvl, ~Lvl[f].blob, NEW h, h = Lvl[f].headers
  PROVE  LvlContents[f] =
           [k \in 1..(Len(h) - 1) |-> [id |-> h[k].id, mFilePos |-> h[k].at + 16, mDataSize |-> h[k].size - 16]]
  BY DEF LvlContents

LEMMA EmptyContents ==
  ASSUME NEW f \in DOMAIN Lvl, ~Lvl[f].blob, Lvl[f].size = 0
  PROVE  LvlContents[f] = <<>>
<1>1. PICK h : h = Lvl[f].headers
  OBVIOUS
<1>2. h = <<>>
  BY <1>1, HeadersAssumption
<1>3. 1..(Len(h) - 1) = {}
  BY <1>2
<1>4. LvlContents[f] =
        [k \in 1..(Len(h) - 1) |-> [id |-> h[k].id, mFilePos |-> h[k].at + 16, mDataSize |-> h[k].size - 16]]
  BY <1>1, ChunkContents
<1>5. LvlContents[f] = [k \in {} |-> [id |-> h[k].id, mFilePos |-> h[k].at + 16, mDataSize |-> h[k].size - 16]]
  BY <1>3, <1>4
<1> QED
  BY <1>5

LEMMA HeadersOf ==
  ASSUME NEW f \in DOMAIN Lvl, ~Lvl[f].blob, NEW h, h = Lvl[f].headers, h # <<>> \/ Lvl[f].size # 0
  PROVE  /\ Len(h) \in Nat /\ DOMAIN h = 1..Len(h) /\ 0 < Len(h) /\ h[1].at = Lvl[f].start * 2048
         /\ \A k \in 1..Len(h) :
              /\ h[k].at \in Nat /\ h[k].size \in Nat
              /\ h[k].id = "End!" <=> k = Len(h)
              /\ h[k].size >= 16 \/ (h[k].size = 0 /\ k = Len(h))
              /\ k < Len(h) => h[k + 1].at = h[k].at + h[k].size
<1>1. /\ Len(h) \in Nat /\ DOMAIN h = 1..Len(h)
      /\ \A k \in 1..Len(h) : h[k].at \in Nat /\ h[k].size \in Nat
  BY LvlAssumption
<1>2. Lvl[f].size # 0 /\ h # <<>>
  BY HeadersAssumption
<1>3. h[1].at = Lvl[f].start * 2048
  BY <1>2, HeadersAssumption
<1>4. ASSUME NEW k \in 1..Len(h)
      PROVE  /\ h[k].id = "End!" <=> k = Len(h)
             /\ h[k].size >= 16 \/ (h[k].size = 0 /\ k = Len(h))
             /\ k < Len(h) => h[k + 1].at = h[k].at + h[k].size
  <2>1. k \in DOMAIN h
    BY <1>1
  <2>2. h[k].id = "End!" <=> k = Len(h)
    BY <1>2, <2>1, HeadersAssumption
  <2>3. h[k].size >= 16 \/ (h[k].size = 0 /\ k = Len(h))
    BY <1>2, <2>1, HeadersAssumption
  <2>4. k < Len(h) => h[k + 1].at = h[k].at + h[k].size
    BY <1>2, <2>1, HeadersAssumption
  <2> QED
    BY <2>2, <2>3, <2>4
<1>5. 0 < Len(h)
  BY <1>1, <1>2, HeadersAssumption
<1> QED
  BY <1>1, <1>3, <1>4, <1>5

\* The files before the one that is read next.
LEMMA FileNext ==
  ASSUME NEW i \in Nat, NEW j \in Nat, FoundSoFar(i, j), loading = "file", Len(mFiles) < Len(Lvl)
  PROVE  /\ i + 1 \in DOMAIN Lvl /\ Lvl[i + 1] = Lvl[Len(mFiles) + 1]
         /\ mFiles = Upto(LvlContents, i) /\ i < Len(Lvl)
         /\ Lvl[i + 1].start \in Nat /\ Lvl[i + 1].start * 2048 \in Nat
<1>1. mFiles = Upto(LvlContents, i) /\ Len(mFiles) = i
  BY UptoIs DEF FoundSoFar
<1>2. i + 1 \in DOMAIN Lvl
  BY <1>1, LvlAssumption
<1>3. Lvl[i + 1].start \in Nat
  BY <1>2, LvlAssumption
<1> QED
  BY <1>1, <1>2, <1>3

LEMMA FileStep ==
  ASSUME InPlace, ArchiveInv, NEW t \in Callers, FileBegin(t)
  PROVE  InPlace' /\ ArchiveInv'
<1> USE DEF ArchiveInv
<1>1. loading = "file" /\ locatorMutex = t /\ Len(mFiles) < Len(Lvl) /\ locatorMutex' = t
  BY DEF FileBegin
<1>2. PICK i \in Nat, j \in Nat : FoundSoFar(i, j)
  OBVIOUS
<1>3. /\ i + 1 \in DOMAIN Lvl /\ Lvl[i + 1] = Lvl[Len(mFiles) + 1]
      /\ mFiles = Upto(LvlContents, i) /\ i < Len(Lvl)
      /\ Lvl[i + 1].start \in Nat /\ Lvl[i + 1].start * 2048 \in Nat
  BY <1>1, <1>2, FileNext
<1>4. PICK place \in Nat : place = Lvl[i + 1].start * 2048
  BY <1>3
<1>5. Seek(place)
  BY <1>3, <1>4 DEF FileBegin
<1>6. InPlace' /\ mPos' = place /\ UNCHANGED <<mDr, left>>
  BY <1>5, Sought
<1>7. \A u \in Callers : began[u] = -1 /\ Ready(u)
  BY <1>1 DEF OneReader
<1>8. CASE Lvl[i + 1].blob \/ Lvl[i + 1].size = 0
  <2>1. /\ mFiles' = Append(mFiles, LvlContents[i + 1])
        /\ UNCHANGED <<loading, reads, began, next>>
    <3>1. /\ mFiles' = Append(mFiles, IF Lvl[i + 1].blob
              THEN <<[id |-> "0", mFilePos |-> mPos', mDataSize |-> Lvl[i + 1].size]>> ELSE <<>>)
          /\ UNCHANGED <<loading, reads, began, next>>
      BY <1>3, <1>8 DEF FileBegin
    <3>2. CASE Lvl[i + 1].blob
      <4>1. LvlContents[i + 1] = <<[id |-> "0", mFilePos |-> mPos', mDataSize |-> Lvl[i + 1].size]>>
        BY <1>3, <1>4, <1>6, <3>2, BlobContents
      <4> QED
        BY <3>1, <3>2, <4>1
    <3>3. CASE ~Lvl[i + 1].blob
      <4>1. LvlContents[i + 1] = <<>>
        BY <1>3, <1>8, <3>3, EmptyContents
      <4> QED
        BY <3>1, <3>3, <4>1
    <3> QED
      BY <3>2, <3>3
  <2>3. mFiles' = Upto(LvlContents, i + 1)
    <3>1. Append(Upto(LvlContents, i), LvlContents[i + 1]) = Upto(LvlContents, i + 1)
      BY UptoIs
    <3>2. mFiles' = Append(Upto(LvlContents, i), LvlContents[i + 1])
      BY <1>3, <2>1
    <3> QED
      BY <3>1, <3>2
  <2>4. \E k, l \in Nat : FoundSoFar(k, l)'
    <3>1. i + 1 \in Nat /\ i + 1 <= Len(Lvl)
      BY <1>3, ContentsAre
    <3>2. FoundSoFar(i + 1, j)'
      BY <1>1, <2>1, <2>3, <3>1 DEF FoundSoFar
    <3> QED
      BY <3>1, <3>2
  <2>5. LvlTypes'
    BY <1>1, <1>6, <2>1 DEF LvlTypes
  <2>6. OneReader'
    BY <1>1, <1>6, <1>7, <2>1 DEF OneReader, Ready, Idle
  <2>7. ChunkInv'
    BY <1>1, <2>1 DEF ChunkInv
  <2> QED
    BY <1>6, <2>4, <2>5, <2>6, <2>7
<1>9. CASE ~Lvl[i + 1].blob /\ Lvl[i + 1].size # 0
  <2>1. mFiles' = Append(mFiles, <<>>) /\ loading' = "chunk" /\ WillRead(t, place, ChunkFields)
    BY <1>3, <1>6, <1>9 DEF FileBegin
  <2>2. /\ LvlTypes'
        /\ \A u \in Callers : began'[u] = -1 => Ready(u)'
        /\ \A u \in Callers : began'[u] # -1 => locatorMutex' = u /\ next'[u] = mPos'
        /\ began'[t] = place /\ next'[t] = place /\ reads'[t] = ChunkFields
    <3>1. ~mDr'.mov
      BY <1>6 DEF LvlTypes
    <3> QED
      BY <1>1, <1>6, <1>7, <2>1, <3>1, FieldsAreNumbers, NowReads
  <2>3. OneReader'
    BY <1>1, <2>1, <2>2 DEF OneReader
  <2>4. ReadsHeader(t, place)'
    <3>1. left[t] = -1
      BY <1>7 DEF Ready, Idle
    <3>2. Wanted(t)' = 0
      BY <1>6, <3>1 DEF Wanted
    <3>3. place + 0 + 4 * 4 = place + 16
      OBVIOUS
    <3> QED
      BY <2>2, <3>2, <3>3, FieldsAreNumbers DEF ReadsHeader
  <2>5. Lvl[i + 1].headers[1].at = place /\ 0 < Len(Lvl[i + 1].headers)
    <3>1. PICK f \in DOMAIN Lvl : f = i + 1
      BY <1>3
    <3>2. PICK h : h = Lvl[f].headers
      OBVIOUS
    <3>3. h[1].at = Lvl[f].start * 2048 /\ 0 < Len(h)
      BY <1>9, <3>1, <3>2, HeadersOf
    <3> QED
      BY <1>4, <3>1, <3>2, <3>3
  <2>6. \E k, l \in Nat : FoundSoFar(k, l)'
    <3>1. Upto(LvlContents[i + 1], 0) = <<>>
      BY DEF Upto
    <3>2. FoundSoFar(i, 0)'
      <4>1. i <= Len(Lvl) /\ i < Len(Lvl) /\ 0 < Len(Lvl[i + 1].headers)
        BY <1>3, <2>5, ContentsAre
      <4>2. mFiles' = Append(Upto(LvlContents, i), Upto(LvlContents[i + 1], 0))
        BY <1>3, <2>1, <3>1
      <4>3. loading' = "chunk" /\ ~Lvl[i + 1].blob
        BY <1>9, <2>1
      <4>4. PICK z \in Nat : z = 0
        OBVIOUS
      <4>5. ReadsHeader(locatorMutex, Lvl[i + 1].headers[z + 1].at)'
        BY <1>1, <2>4, <2>5, <4>4
      <4>6. FoundSoFar(i, z)'
        BY <4>1, <4>2, <4>3, <4>4, <4>5 DEF FoundSoFar
      <4> QED
        BY <4>4, <4>6
    <3> QED
      BY <3>2
  <2>7. ChunkInv'
    BY <2>1 DEF ChunkInv
  <2> QED
    BY <1>6, <2>2, <2>3, <2>6, <2>7
<1> QED
  BY <1>8, <1>9

\* The header that was read is the next one of the file.
LEMMA ParsedIsNext ==
  ASSUME InPlace, ArchiveInv, NEW t \in Callers, loading = "chunk", locatorMutex = t, Ready(t),
         NEW i \in Nat, NEW j \in Nat, FoundSoFar(i, j)
  PROVE  LET h == Lvl[i + 1].headers IN
         /\ i + 1 \in DOMAIN Lvl /\ ~Lvl[i + 1].blob /\ j + 1 \in 1..Len(h)
         /\ Parsed(t) = {h[j + 1]} /\ mPos = h[j + 1].at + 16
<1> DEFINE h == Lvl[i + 1].headers
<1>1. /\ i < Len(Lvl) /\ ~Lvl[i + 1].blob /\ j < Len(h)
      /\ ReadsHeader(t, h[j + 1].at)
  BY DEF FoundSoFar
<1>2. i + 1 \in DOMAIN Lvl
  BY <1>1, LvlAssumption
<1>3. Len(h) \in Nat /\ DOMAIN h = 1..Len(h) /\ j + 1 \in 1..Len(h)
  BY <1>1, <1>2, LvlAssumption
<1>4. PICK place \in Nat : place = h[j + 1].at
  BY <1>2, <1>3, LvlAssumption
<1>5. began[t] = place /\ next[t] = place + 16 /\ mPos = next[t]
  <2>1. began[t] = place /\ reads[t] = <<>> /\ Wanted(t) = 0 /\ next[t] + Wanted(t) + 4 * Len(reads[t]) = place + 16
    BY <1>1, <1>4 DEF ReadsHeader, Ready, Idle, Wanted
  <2>2. mPos = next[t] /\ mPos \in Nat
    BY <2>1, StreamPlace DEF ArchiveInv, OneReader
  <2>3. Len(reads[t]) = 0
    BY <2>1
  <2> QED
    BY <2>1, <2>2, <2>3
<1>6. h[j + 1] \in Parsed(t)
  <2>1. h[j + 1] \in ChunkHeaders
    BY <1>2, <1>3 DEF ChunkHeaders
  <2> QED
    BY <1>4, <1>5, <2>1 DEF Parsed
<1>7. ASSUME NEW g \in Parsed(t) PROVE g = h[j + 1]
  <2>1. g \in ChunkHeaders /\ g.at = place
    BY <1>5 DEF Parsed
  <2>2. PICK f \in DOMAIN Lvl : \E k \in DOMAIN Lvl[f].headers : g = Lvl[f].headers[k]
    BY <2>1 DEF ChunkHeaders
  <2> QED
    BY <1>2, <1>3, <1>4, <2>1, <2>2, PlacesAssumption
<1> QED
  BY <1>1, <1>2, <1>3, <1>4, <1>5, <1>6, <1>7

LEMMA ChunkReadStep ==
  ASSUME InPlace, ArchiveInv, NEW t \in Callers, ChunkRead(t)
  PROVE  InPlace' /\ ArchiveInv'
<1> USE DEF ArchiveInv
<1>1. loading = "chunk" /\ locatorMutex = t /\ Ready(t) /\ locatorMutex' = t
  BY DEF ChunkRead
<1>2. PICK i \in Nat, j \in Nat : FoundSoFar(i, j)
  OBVIOUS
<1>3. PICK h : h = Lvl[i + 1].headers
  OBVIOUS
<1>4. /\ i + 1 \in DOMAIN Lvl /\ ~Lvl[i + 1].blob /\ j + 1 \in 1..Len(h)
      /\ Parsed(t) = {h[j + 1]} /\ mPos = h[j + 1].at + 16
  BY <1>1, <1>2, <1>3, ParsedIsNext
<1>5. PICK g : g = h[j + 1]
  OBVIOUS
<1>6. /\ IF g.size = 0 THEN UNCHANGED cdVars ELSE Seek(mPos + g.size - 16)
      /\ IF g.id = "End!" THEN loading' = "file" /\ UNCHANGED mFiles /\ WillRead(t, -1, <<>>)
         ELSE /\ mFiles' = [mFiles EXCEPT ![Len(mFiles)] =
                   Append(@, [id |-> g.id, mFilePos |-> mPos, mDataSize |-> g.size - 16])]
              /\ WillRead(t, mPos', ChunkFields) /\ UNCHANGED loading
  BY <1>4, <1>5 DEF ChunkRead, WillReadNothing
<1>7. PICK at \in Nat, size \in Nat, n \in Nat : at = g.at /\ size = g.size /\ n = Len(h)
  <2>1. PICK f \in DOMAIN Lvl : f = i + 1 /\ ~Lvl[f].blob /\ h = Lvl[f].headers
    BY <1>3, <1>4
  <2>2. h # <<>>
    BY <1>4
  <2>3. /\ Len(h) \in Nat
        /\ \A k \in 1..Len(h) : h[k].at \in Nat /\ h[k].size \in Nat
    <3>1. h # <<>> \/ Lvl[f].size # 0
      BY <2>2
    <3> QED
      BY <2>1, <3>1, HeadersOf
  <2>4. h[j + 1].at \in Nat /\ h[j + 1].size \in Nat
    BY <1>4, <2>3
  <2> QED
    BY <1>5, <2>3, <2>4
<1>8. /\ g.id = "End!" <=> j + 1 = n
      /\ size >= 16 \/ (size = 0 /\ j + 1 = n)
      /\ j + 1 < n => h[j + 2].at = at + size
  <2>1. PICK f \in DOMAIN Lvl, k \in 1..Len(h) : f = i + 1 /\ k = j + 1
    BY <1>4
  <2>2. /\ h[k].id = "End!" <=> k = Len(h)
        /\ h[k].size >= 16 \/ (h[k].size = 0 /\ k = Len(h))
        /\ k < Len(h) => h[k + 1].at = h[k].at + h[k].size
    <3>1. ~Lvl[f].blob /\ h = Lvl[f].headers /\ h # <<>>
      BY <1>3, <1>4, <2>1
    <3>2. k \in DOMAIN h
      BY <3>1, LvlAssumption
    <3>3. h[k].id = "End!" <=> k = Len(h)
      BY <3>1, <3>2, HeadersAssumption
    <3>4. h[k].size >= 16 \/ (h[k].size = 0 /\ k = Len(h))
      BY <3>1, <3>2, HeadersAssumption
    <3>5. k < Len(h) => h[k + 1].at = h[k].at + h[k].size
      BY <3>1, <3>2, HeadersAssumption
    <3> QED
      BY <3>3, <3>4, <3>5
  <2>3. j + 2 = k + 1
    BY <2>1
  <2> QED
    BY <1>5, <1>7, <2>1, <2>2, <2>3
<1>9. mFiles = Append(Upto(LvlContents, i), Upto(LvlContents[i + 1], j)) /\ i < Len(Lvl)
  BY <1>1, <1>2 DEF FoundSoFar
<1>10. LvlContents[i + 1] =
         [k \in 1..(n - 1) |-> [id |-> h[k].id, mFilePos |-> h[k].at + 16, mDataSize |-> h[k].size - 16]]
  <2>1. PICK f \in DOMAIN Lvl : f = i + 1
    BY <1>4
  <2>2. LvlContents[f] =
          [k \in 1..(Len(h) - 1) |-> [id |-> h[k].id, mFilePos |-> h[k].at + 16, mDataSize |-> h[k].size - 16]]
    <3>1. ~Lvl[f].blob /\ h = Lvl[f].headers
      BY <1>3, <1>4, <2>1
    <3> QED
      BY <3>1 DEF LvlContents
  <2> QED
    BY <1>7, <2>1, <2>2
<1>11. mPos = at + 16 /\ mPos \in Nat
  BY <1>4, <1>5, <1>7
<1>12. InPlace' /\ UNCHANGED <<mDr, left>> /\ (size # 0 => mPos' = at + size)
  <2>1. CASE size = 0
    <3>1. UNCHANGED cdVars
      BY <1>6, <1>7, <2>1
    <3> QED
      BY <2>1, <3>1, StepInPlace DEF cdVars
  <2>2. CASE size # 0
    <3>1. PICK p \in Nat : p = mPos + g.size - 16 /\ p = at + size
      <4>1. PICK p \in Nat : p = at + size
        OBVIOUS
      <4>2. at + 16 + size - 16 = p
        BY <4>1
      <4> QED
        BY <1>7, <1>11, <4>1, <4>2
    <3>2. Seek(p)
      BY <1>6, <1>7, <2>2, <3>1
    <3> QED
      BY <3>1, <3>2, Sought
  <2> QED
    BY <2>1, <2>2
<1>13. /\ \A u \in Callers : u # t => began[u] = -1
       /\ ~mDr'.mov
  BY <1>1, <1>12, Alone DEF LvlTypes
<1>14. CASE g.id = "End!"
  <2>1. loading' = "file" /\ mFiles' = mFiles /\ WillRead(t, -1, <<>>)
    BY <1>6, <1>14
  <2>2. /\ LvlTypes'
        /\ \A u \in Callers : began'[u] = -1 => Ready(u)'
        /\ \A u \in Callers : u # t => began'[u] = -1
        /\ began'[t] = -1
    <3>1. <<>> \in Seq(Nat)
      BY EmptySeq
    <3>2. /\ LvlTypes /\ OneReader /\ Ready(t) /\ ~mDr'.mov /\ UNCHANGED left
          /\ \A u \in Callers : u # t => began[u] = -1
          /\ locatorMutex' \in Callers \cup {NoMutex}
          /\ loading' \in {"closed", "header", "records", "file", "chunk", "loaded"}
      BY <1>1, <1>12, <1>13, <2>1
    <3> QED
      BY <2>1, <3>1, <3>2, <1>13, NowReads
  <2>3. OneReader'
    BY <1>1, <2>1, <2>2 DEF OneReader
  <2>4. Upto(LvlContents[i + 1], j) = LvlContents[i + 1]
    <3>1. j = n - 1
      BY <1>8, <1>14
    <3> QED
      BY <1>10, <3>1 DEF Upto
  <2>5. mFiles' = Upto(LvlContents, i + 1)
    BY <1>9, <2>1, <2>4, UptoIs
  <2>6. \E k, l \in Nat : FoundSoFar(k, l)'
    <3>1. i + 1 \in Nat /\ i + 1 <= Len(Lvl)
      BY <1>9, ContentsAre
    <3>2. FoundSoFar(i + 1, j)'
      BY <2>1, <2>5, <3>1 DEF FoundSoFar
    <3> QED
      BY <3>1, <3>2
  <2>7. ChunkInv'
    BY <2>1 DEF ChunkInv
  <2> QED
    BY <1>12, <2>2, <2>3, <2>6, <2>7
<1>15. CASE g.id # "End!"
  <2>1. /\ mFiles' = [mFiles EXCEPT ![Len(mFiles)] =
               Append(@, [id |-> g.id, mFilePos |-> mPos, mDataSize |-> g.size - 16])]
        /\ WillRead(t, mPos', ChunkFields) /\ loading' = "chunk"
    BY <1>1, <1>6, <1>15
  <2>2. j + 1 < n /\ size # 0
    BY <1>3, <1>4, <1>7, <1>8, <1>15
  <2>3. PICK place \in Nat : place = mPos' /\ place = h[j + 2].at
    BY <1>8, <1>12, <2>2
  <2>4. /\ LvlTypes'
        /\ \A u \in Callers : began'[u] = -1 => Ready(u)'
        /\ \A u \in Callers : began'[u] # -1 => locatorMutex' = u /\ next'[u] = mPos'
        /\ began'[t] = place /\ next'[t] = place /\ reads'[t] = ChunkFields
    <3>1. IF place = -1 THEN ChunkFields = <<>> ELSE locatorMutex' = t /\ place = mPos'
      BY <1>1, <2>3
    <3>2. WillRead(t, place, ChunkFields)
      BY <2>1, <2>3
    <3>3. /\ LvlTypes /\ OneReader /\ Ready(t) /\ ~mDr'.mov /\ UNCHANGED left
          /\ \A u \in Callers : u # t => began[u] = -1
      BY <1>1, <1>12, <1>13
    <3>4. /\ locatorMutex' \in Callers \cup {NoMutex}
          /\ loading' \in {"closed", "header", "records", "file", "chunk", "loaded"}
          /\ place \in Nat \cup {-1} /\ ChunkFields \in Seq(Nat)
      BY <1>1, <2>1, <3>1, FieldsAreNumbers
    <3> QED
      BY <3>1, <3>2, <3>3, <3>4, NowReads
  <2>5. OneReader'
    BY <1>1, <2>1, <2>4 DEF OneReader
  <2>6. ReadsHeader(t, place)'
    <3>1. left[t] = -1
      BY <1>1 DEF Ready, Idle
    <3>2. Wanted(t)' = 0
      BY <1>12, <3>1 DEF Wanted
    <3>3. place + 0 + 4 * 4 = place + 16
      OBVIOUS
    <3> QED
      BY <2>4, <3>2, <3>3, FieldsAreNumbers DEF ReadsHeader
  <2>7. PICK new : new = [id |-> g.id, mFilePos |-> mPos, mDataSize |-> g.size - 16]
    OBVIOUS
  <2>8. new = LvlContents[i + 1][j + 1]
    <3>1. j + 1 \in 1..(n - 1)
      BY <2>2
    <3> QED
      BY <1>5, <1>7, <1>10, <1>11, <2>7, <3>1
  <2>9. mFiles' = Append(Upto(LvlContents, i), Upto(LvlContents[i + 1], j + 1))
    <3>1. Append(Upto(LvlContents[i + 1], j), new) = Upto(LvlContents[i + 1], j + 1)
      BY <2>8, UptoIs
    <3>2. Len(mFiles) = i + 1 /\ mFiles[i + 1] = Upto(LvlContents[i + 1], j)
      BY <1>9, AppendedLast
    <3>3. mFiles' = [mFiles EXCEPT ![i + 1] = Upto(LvlContents[i + 1], j + 1)]
      BY <2>1, <2>7, <3>1, <3>2
    <3>4. PICK x, y : x = Upto(LvlContents[i + 1], j) /\ y = Upto(LvlContents[i + 1], j + 1)
      OBVIOUS
    <3>5. [Append(Upto(LvlContents, i), x) EXCEPT ![i + 1] = y] = Append(Upto(LvlContents, i), y)
      BY AppendedLast
    <3> QED
      BY <1>9, <3>3, <3>4, <3>5
  <2>10. \E k, l \in Nat : FoundSoFar(k, l)'
    <3>1. Lvl[i + 1].headers[(j + 1) + 1].at = place /\ j + 1 < Len(Lvl[i + 1].headers)
      BY <1>3, <1>7, <2>2, <2>3
    <3>2. PICK k \in Nat : k = j + 1
      OBVIOUS
    <3>3. ReadsHeader(locatorMutex, Lvl[i + 1].headers[k + 1].at)'
      BY <1>1, <2>6, <3>1, <3>2
    <3>4. FoundSoFar(i, k)'
      <4>1. i <= Len(Lvl) /\ i < Len(Lvl) /\ k < Len(Lvl[i + 1].headers)
        BY <1>9, <3>1, <3>2, ContentsAre
      <4>2. mFiles' = Append(Upto(LvlContents, i), Upto(LvlContents[i + 1], k))
        BY <2>9, <3>2
      <4>3. loading' = "chunk" /\ ~Lvl[i + 1].blob
        BY <1>4, <2>1
      <4> QED
        BY <3>3, <4>1, <4>2, <4>3 DEF FoundSoFar
    <3> QED
      BY <3>4
  <2>11. ChunkInv'
    BY <2>1 DEF ChunkInv
  <2> QED
    BY <1>12, <2>4, <2>5, <2>10, <2>11
<1> QED
  BY <1>14, <1>15

LEMMA ArchiveStep ==
  ASSUME Browsers = {}, InPlace, ArchiveInv, [ArchiveNext]_lvlVars
  PROVE  InPlace' /\ ArchiveInv'
<1>1. CASE UNCHANGED lvlVars
  <2>1. UNCHANGED cdVars /\ UNCHANGED <<locatorMutex, loading, mFiles, reads, began, next>>
    BY <1>1 DEF lvlVars, archiveVars
  <2>2. InPlace' /\ UNCHANGED <<mDr, mPos, left>>
    BY <2>1, StepInPlace DEF cdVars
  <2>3. LvlTypes' /\ OneReader'
    BY <2>1, <2>2 DEF ArchiveInv, LvlTypes, OneReader, Ready, Idle
  <2>4. \A k, l \in Nat : FoundSoFar(k, l) => FoundSoFar(k, l)'
    BY <2>1, <2>2 DEF FoundSoFar, ReadsHeader, Wanted
  <2>5. ChunkInv'
    BY <2>1, <2>2 DEF ArchiveInv, ChunkInv, Chunks, ReadsChunk, Wanted, Idle
  <2> QED
    BY <2>2, <2>3, <2>4, <2>5 DEF ArchiveInv
<1>2. CASE ArchiveNext
  <2>1. PICK t \in Callers :
          \/ OpenLvl(t) \/ HeaderRead(t) \/ HeaderInvalid(t) \/ RecordsRead(t) \/ FileBegin(t) \/ ChunkRead(t)
          \/ FilesLoaded(t) \/ ReadNext(t) \/ Receive(t)
          \/ \E chunk \in Chunks : LocateIn(t, chunk)
          \/ Located(t)
    BY <1>2 DEF ArchiveNext
  <2> QED
    BY <2>1, OpenStep, HeaderStep, InvalidStep, RecordsStep, FileStep, ChunkReadStep, FilesLoadedStep,
       ReadNextStep, ReceiveStep, LocateStep, LocatedStep
<1> QED
  BY <1>1, <1>2

LEMMA InitArchive == ArchiveInit => InPlace /\ ArchiveInv
<1> SUFFICES ASSUME ArchiveInit PROVE InPlace /\ ArchiveInv
  OBVIOUS
<1>1. InPlace
  BY InitInPlace DEF ArchiveInit
<1>2. /\ ~mDr.mov /\ mPos = 0 /\ left = [t \in Callers |-> -1]
      /\ locatorMutex = NoMutex /\ loading = "closed" /\ mFiles = <<>>
      /\ reads = [t \in Callers |-> <<>>] /\ began = [t \in Callers |-> -1] /\ next = [t \in Callers |-> -1]
  BY DEF ArchiveInit, CdInit, NothingOpen
<1>3. LvlTypes
  BY <1>2, EmptySeq DEF LvlTypes
<1>4. OneReader
  BY <1>2 DEF OneReader, Ready, Idle
<1>5. FoundSoFar(0, 0)
  <2>1. Upto(LvlContents, 0) = <<>> /\ 0 <= Len(Lvl)
    BY ContentsAre DEF Upto
  <2> QED
    BY <1>2, <2>1 DEF FoundSoFar
<1>6. ChunkInv
  BY <1>2 DEF ChunkInv
<1> QED
  BY <1>1, <1>3, <1>4, <1>5, <1>6 DEF ArchiveInv

LEMMA InvIsWhole == InPlace /\ ArchiveInv => ChunksAreWhole
<1> SUFFICES ASSUME InPlace, ArchiveInv PROVE ChunksAreWhole
  OBVIOUS
<1>1. PICK i \in Nat, j \in Nat : FoundSoFar(i, j)
  BY DEF ArchiveInv
<1>2. ASSUME NEW t \in Callers, loading = "chunk", locatorMutex = t, Ready(t) PROVE Parsed(t) # {}
  BY <1>1, <1>2, ParsedIsNext
<1>3. ASSUME loading = "loaded" PROVE mFiles = LvlContents
  BY <1>1, <1>3, AllFound
<1>4. ASSUME loading = "loaded", NEW t \in Callers, Ready(t), began[t] # -1
      PROVE  \E chunk \in Chunks : chunk.mFilePos = began[t] /\ next[t] = chunk.mFilePos + chunk.mDataSize
  <2>1. PICK chunk \in Chunks : ReadsChunk(t, chunk)
    BY <1>4 DEF ArchiveInv, ChunkInv
  <2>2. next[t] + Wanted(t) = chunk.mFilePos + chunk.mDataSize /\ Wanted(t) = 0 /\ chunk.mFilePos = began[t]
    BY <1>4, <2>1 DEF ReadsChunk, Ready, Idle, Wanted
  <2>3. next[t] \in Nat \cup {-1}
    BY DEF ArchiveInv, LvlTypes
  <2> QED
    BY <2>2, <2>3
<1> QED
  BY <1>2, <1>3, <1>4 DEF ChunksAreWhole

(* Of every archive all chunks are found, and whoever locates what is in one *)
(* gets its bytes and no others, however many threads locate, as long as no  *)
(* LocateVab moves the stream without the mutex (LvlArchive, FileChunk).     *)
THEOREM WholeChunks ==
  ASSUME Browsers = {}
  PROVE  ArchiveSpec => []ChunksAreWhole
<1>1. ArchiveInit => InPlace /\ ArchiveInv
  BY InitArchive
<1>2. InPlace /\ ArchiveInv /\ [ArchiveNext]_lvlVars => InPlace' /\ ArchiveInv'
  BY ArchiveStep
<1>3. InPlace /\ ArchiveInv => ChunksAreWhole
  BY InvIsWhole
<1> QED
  BY <1>1, <1>2, <1>3, PTL DEF ArchiveSpec
====
