---------------------------- MODULE ScreenProofs ----------------------------
(***************************************************************************)
(* The screens outside of the world.  The game selection: the directories  *)
(* of the data sets survive a restart of the program, and the game that is *)
(* run has all the data sets it needs, in their order.  The movies:        *)
(* mExclusiveAudio never points to a destroyed movie, and the picture is   *)
(* never ahead of the sound, whatever the movies, their streams and the    *)
(* audio device's demands.                                                 *)
(***************************************************************************)
EXTENDS Engine, Fmv, SequenceTheorems, FiniteSetTheorems, WellFoundedInduction, TLAPS

-----------------------------------------------------------------------------
(* The game selection: directories and the data sets they are identified as *)

\* The first of some places is one of them.
LEMMA FirstPlace ==
  ASSUME NEW S, S \subseteq Nat, S # {} PROVE Min(S) \in S
<1>1. PICK n \in S : \A k \in S : ~(<<k, n>> \in OpToRel(<, Nat))
  BY NatLessThanWellFounded, WFMin, Zenon
<1>2. \A k \in S : n <= k
  <2> TAKE k \in S
  <2>1. k \in Nat /\ n \in Nat
    OBVIOUS
  <2>2. ~(k < n)
    BY <1>1, <2>1 DEF OpToRel
  <2> QED
    BY <2>1, <2>2
<1>3. \E x \in S : \A y \in S : x <= y
  BY <1>2
<1> QED
  BY <1>3, Zenon DEF Min

LEMMA IdentifiedAsId ==
  ASSUME NEW dir, Identified(dir) # None PROVE Identified(dir) \in Ids
<1> DEFINE fitting == {i \in DOMAIN IdOrder : Matches(Contents[dir], Rules[IdOrder[i]])}
<1>1. fitting # {} /\ Identified(dir) = IdOrder[Min(fitting)]
  BY DEF Identified
<1>2. fitting \subseteq Nat
  BY GameSelectionAssumption
<1>3. Min(fitting) \in DOMAIN IdOrder
  BY <1>1, <1>2, FirstPlace
<1> QED
  BY <1>1, <1>3 DEF Ids, Range

\* The path kept is the one that was identified, the given one or its parent.
LEMMA IdentifyAgrees ==
  ASSUME NEW dir
  PROVE  Identified(Identify(dir).path) = Identify(dir).id
BY DEF Identify

LEMMA KeepsItsPath ==
  ASSUME NEW dir, Identified(dir) # None
  PROVE  Identify(dir).id = Identified(dir) /\ Identify(dir).path = dir
BY DEF Identify

\* Every known data set has a directory that is identified as it.
Known(paths) ==
  /\ paths = [id \in DOMAIN paths |-> paths[id]]
  /\ DOMAIN paths \subseteq Ids
  /\ \A id \in DOMAIN paths : Identified(paths[id]) = id

LEMMA AddedKnown ==
  ASSUME NEW paths, Known(paths), NEW dir, NEW expected, Accepts(paths, dir, expected)
  PROVE  Known(Added(paths, dir))
<1> DEFINE id == Identify(dir).id
<1>1. id # None
  BY DEF Accepts
<1>2. Identified(Identify(dir).path) = id
  BY IdentifyAgrees
<1>3. id \in Ids
  BY <1>1, <1>2, IdentifiedAsId
<1>4. DOMAIN Added(paths, dir) = DOMAIN paths \cup {id}
  BY DEF Added
<1>5. ASSUME NEW i \in DOMAIN Added(paths, dir) PROVE Identified(Added(paths, dir)[i]) = i
  BY <1>2, <1>5 DEF Added, Known
<1>6. Added(paths, dir) = [i \in DOMAIN Added(paths, dir) |-> Added(paths, dir)[i]]
  BY DEF Added
<1> QED
  BY <1>3, <1>4, <1>5, <1>6 DEF Known

LEMMA PathsFromIs ==
  ASSUME NEW dirs, DOMAIN dirs \subseteq Nat
  PROVE  PathsFrom(dirs) =
           [id \in {Identify(dirs[i]).id : i \in DOMAIN dirs} \ {None} |->
              Identify(dirs[Min({i \in DOMAIN dirs : Identify(dirs[i]).id = id})]).path]
<1> DEFINE given == [i \in DOMAIN dirs |-> Identify(dirs[i])]
           As(id) == {i \in DOMAIN dirs : Identify(dirs[i]).id = id}
           ids == {Identify(dirs[i]).id : i \in DOMAIN dirs} \ {None}
<1>1. PathsFrom(dirs) =
        [id \in {given[i].id : i \in DOMAIN given} \ {None} |->
           given[Min({i \in DOMAIN given : given[i].id = id})].path]
  BY DEF PathsFrom
<1>2. DOMAIN given = DOMAIN dirs /\ \A i \in DOMAIN dirs : given[i] = Identify(dirs[i])
  OBVIOUS
<1>3. ASSUME NEW id \in ids
      PROVE  given[Min({i \in DOMAIN given : given[i].id = id})] = Identify(dirs[Min(As(id))])
  <2>1. {i \in DOMAIN given : given[i].id = id} = As(id)
    BY <1>2
  <2>2. As(id) # {} /\ As(id) \subseteq Nat
    OBVIOUS
  <2>3. Min(As(id)) \in DOMAIN dirs
    BY <2>2, FirstPlace
  <2> QED
    BY <1>2, <2>1, <2>3
<1>4. {given[i].id : i \in DOMAIN given} \ {None} = ids
  BY <1>2
<1> HIDE DEF given, As, ids
<1>5. PathsFrom(dirs) = [id \in ids |-> Identify(dirs[Min(As(id))]).path]
  BY <1>1, <1>3, <1>4
<1> QED
  BY <1>5 DEF ids, As

LEMMA ReadKnown ==
  ASSUME NEW dirs, DOMAIN dirs \subseteq Nat PROVE Known(PathsFrom(dirs))
<1> DEFINE As(id) == {i \in DOMAIN dirs : Identify(dirs[i]).id = id}
           ids == {Identify(dirs[i]).id : i \in DOMAIN dirs} \ {None}
<1>1. PathsFrom(dirs) = [id \in ids |-> Identify(dirs[Min(As(id))]).path]
  BY PathsFromIs
<1>2. ASSUME NEW id \in ids
      PROVE  id \in Ids /\ Identified(PathsFrom(dirs)[id]) = id
  <2>1. As(id) # {} /\ As(id) \subseteq Nat
    OBVIOUS
  <2>2. Min(As(id)) \in As(id)
    BY <2>1, FirstPlace
  <2>3. Identify(dirs[Min(As(id))]).id = id
    BY <2>2
  <2>4. Identified(Identify(dirs[Min(As(id))]).path) = id
    BY <2>3, IdentifyAgrees
  <2>5. PathsFrom(dirs)[id] = Identify(dirs[Min(As(id))]).path
    BY <1>1
  <2>6. id # None
    OBVIOUS
  <2>7. Identified(PathsFrom(dirs)[id]) = id
    BY <2>4, <2>5
  <2> QED
    BY <2>6, <2>7, IdentifiedAsId
<1>3. DOMAIN PathsFrom(dirs) = ids
  BY <1>1
<1>4. PathsFrom(dirs) = [id \in DOMAIN PathsFrom(dirs) |-> PathsFrom(dirs)[id]]
  BY <1>1
<1> QED
  BY <1>2, <1>3, <1>4 DEF Known

\* What is written is read as it was: each entry is identified as its data set.
LEMMA WrittenIsRead ==
  ASSUME NEW paths, Known(paths) PROVE PathsFrom(Persisted(paths)) = paths
<1> DEFINE dirs == Persisted(paths)
           As(id) == {i \in DOMAIN dirs : Identify(dirs[i]).id = id}
           ids == {Identify(dirs[i]).id : i \in DOMAIN dirs} \ {None}
<1>2. DOMAIN dirs = {i \in DOMAIN IdOrder : IdOrder[i] \in DOMAIN paths}
  BY DEF Persisted
<1>3. DOMAIN dirs \subseteq Nat
  BY <1>2, GameSelectionAssumption
<1>1. PathsFrom(dirs) = [id \in ids |-> Identify(dirs[Min(As(id))]).path]
  BY <1>3, PathsFromIs
<1>4. None \notin Ids
  BY GameSelectionAssumption DEF Names
<1>5. ASSUME NEW i \in DOMAIN dirs
      PROVE  /\ IdOrder[i] \in DOMAIN paths
             /\ Identify(dirs[i]).id = IdOrder[i]
             /\ Identify(dirs[i]).path = paths[IdOrder[i]]
  <2>1. i \in DOMAIN IdOrder /\ IdOrder[i] \in DOMAIN paths
    BY <1>2
  <2>2. dirs[i] = paths[IdOrder[i]]
    BY <1>2 DEF Persisted
  <2>3. Identified(dirs[i]) = IdOrder[i] /\ IdOrder[i] # None
    BY <1>4, <2>1, <2>2 DEF Known
  <2> QED
    BY <2>1, <2>2, <2>3, KeepsItsPath
<1> HIDE DEF dirs
<1>6. ids = DOMAIN paths
  <2>1. ASSUME NEW id \in ids PROVE id \in DOMAIN paths
    BY <1>5
  <2>2. ASSUME NEW id \in DOMAIN paths PROVE id \in ids
    <3>1. PICK i \in DOMAIN IdOrder : IdOrder[i] = id
      BY DEF Known, Ids, Range
    <3>2. i \in DOMAIN dirs
      BY <1>2, <3>1
    <3>3. id # None
      BY <1>4 DEF Known
    <3> QED
      BY <1>5, <3>1, <3>2, <3>3
  <2> QED
    BY <2>1, <2>2
<1>7. ASSUME NEW id \in ids PROVE Identify(dirs[Min(As(id))]).path = paths[id]
  <2>1. As(id) # {} /\ As(id) \subseteq Nat
    BY <1>3
  <2>2. Min(As(id)) \in As(id)
    BY <2>1, FirstPlace
  <2> QED
    BY <1>5, <2>2
<1>8. paths = [id \in DOMAIN paths |-> paths[id]]
  BY DEF Known
<1>9. PathsFrom(dirs) = [id \in DOMAIN paths |-> paths[id]]
  BY <1>1, <1>6, <1>7
<1> QED
  BY <1>8, <1>9 DEF dirs

PathsInv == Known(mPaths) /\ DOMAIN saved \subseteq Nat

LEMMA WrittenPlaces == ASSUME NEW paths PROVE DOMAIN Persisted(paths) \subseteq Nat
  BY GameSelectionAssumption DEF Persisted

LEMMA NothingKnown == Known([id \in {} |-> None])
  BY DEF Known

LEMMA PathsInvInit == EngineInit => PathsInv
  BY NothingKnown, GameSelectionAssumption DEF EngineInit, SelectionInit, PathsInv

LEMMA PathsInvStep == PathsInv /\ [EngineNext]_engineVars => PathsInv'
<1> SUFFICES ASSUME PathsInv, [EngineNext]_engineVars PROVE PathsInv'
  OBVIOUS
<1>0. ASSUME UNCHANGED <<mPaths, saved>> PROVE PathsInv'
  BY <1>0 DEF PathsInv
<1>1. CASE WorkerTakesJob
  BY <1>0, <1>1 DEF WorkerTakesJob, selectionVars, pathVars
<1>2. CASE InitResources
  BY <1>2, ReadKnown DEF InitResources, PathsInv
<1>3. ASSUME NEW quit \in BOOLEAN, FrameStep(quit) PROVE PathsInv'
  <2>0. ASSUME UNCHANGED selectionVars PROVE PathsInv'
    BY <1>0, <2>0 DEF selectionVars, pathVars
  <2>1. CASE FramePreInit
    BY <2>0, <2>1 DEF FramePreInit
  <2>2. CASE FrameWorld
    BY <2>0, <2>2 DEF FrameWorld
  <2>3. CASE \E state \in {"eEngineInit", "eQuit"} : FrameIdle(quit, state)
    BY <2>0, <2>3 DEF FrameIdle
  <2>4. ASSUME NEW game, SelectGame(game) PROVE PathsInv'
    BY <1>0, <2>4 DEF SelectGame, pathVars
  <2>5. CASE StartLacking
    BY <1>0, <2>5 DEF StartLacking, pathVars
  <2>6. CASE StartFinds
    BY <1>0, <2>6 DEF StartFinds, Started, pathVars
  <2>7. CASE Back
    BY <1>0, <2>7 DEF Back, pathVars
  <2>8. CASE StartRuns
    <3>1. mPaths' = mPaths /\ saved' = Persisted(mPaths)
      BY <2>8 DEF StartRuns, LoadGameDefinition
    <3> QED
      BY <3>1, WrittenPlaces DEF PathsInv
  <2>9. ASSUME NEW n, NEW d, GivePath(n, d) PROVE PathsInv'
    <3>1. Accepts(mPaths, d, n) /\ mPaths' = Added(mPaths, d)
      BY <2>9 DEF GivePath
    <3>2. saved' = saved \/ saved' = Persisted(mPaths')
      BY <2>9 DEF GivePath, LoadGameDefinition
    <3>3. Known(mPaths')
      BY <3>1, AddedKnown DEF PathsInv
    <3>4. DOMAIN saved' \subseteq Nat
      <4>1. CASE saved' = saved
        BY <4>1 DEF PathsInv
      <4>2. CASE saved' = Persisted(mPaths')
        BY <4>2, WrittenPlaces
      <4> QED
        BY <3>2, <4>1, <4>2
    <3> QED
      BY <3>3, <3>4 DEF PathsInv
  <2>10. CASE FrameSelect(quit)
    BY <2>0, <2>4, <2>5, <2>6, <2>7, <2>8, <2>9, <2>10 DEF FrameSelect
  <2> QED
    BY <1>3, <2>1, <2>2, <2>3, <2>10 DEF FrameStep
<1>4. CASE Restart
  BY <1>4, NothingKnown DEF Restart, PathsInv
<1>5. CASE UNCHANGED engineVars
  BY <1>0, <1>5 DEF engineVars, selectionVars, pathVars
<1> QED
  BY <1>1, <1>2, <1>3, <1>4, <1>5 DEF EngineNext

(* Whatever the definitions need, the directories are and the user does, the *)
(* directory kept for a data set is one that is identified as it, and what   *)
(* is written to DataSets.json leads the next start to the same directories. *)
THEOREM PathsKept == EngineSpec => []PathsSurviveRestart
<1>1. PathsInv => PathsSurviveRestart
  BY WrittenIsRead DEF PathsInv, PathsSurviveRestart, Known
<1> QED
  BY <1>1, PathsInvInit, PathsInvStep, PTL DEF EngineSpec

-----------------------------------------------------------------------------
(* The game selection: the walk over the definitions ends *)

\* What the definitions require, or nothing before they are loaded.
Definitions == mRequiredDataSetsOf \in [Games -> Seq(Names)]

\* The definitions the walk has not met.
Unseen(s) == Cardinality(Games \ Range(s.required))

LEMMA UnseenIsNat == ASSUME NEW s PROVE Unseen(s) \in Nat
<1>1. IsFiniteSet(Games \ Range(s.required))
  BY FS_Difference, GameSelectionAssumption
<1> QED
  BY <1>1, FS_CardinalityType DEF Unseen

LEMMA VisitIsWalk ==
  ASSUME Definitions, NEW s \in Walks, s.todo # <<>>
  PROVE  Visit(s) \in Walks
<1> DEFINE n == Head(s.todo)
           rest == Tail(s.todo)
<1>1. n \in Names /\ rest \in Seq(Names)
  BY DEF Walks
<1>2. CASE n \in Range(s.required)
  BY <1>1, <1>2 DEF Visit, Walks
<1>3. CASE n \notin Range(s.required) /\ n \in Games
  <2>1. Visit(s) = [s EXCEPT !.required = Append(@, n), !.todo = mRequiredDataSetsOf[n] \o rest]
    BY <1>3 DEF Visit
  <2>2. mRequiredDataSetsOf[n] \in Seq(Names)
    BY <1>3 DEF Definitions
  <2>3. mRequiredDataSetsOf[n] \o rest \in Seq(Names)
    BY <1>1, <2>2
  <2>4. Append(s.required, n) \in Seq(Names)
    BY <1>1 DEF Walks
  <2> HIDE DEF n, rest
  <2> QED
    BY <2>1, <2>3, <2>4 DEF Walks
<1>4. CASE n \notin Range(s.required) /\ n \notin Games
  BY <1>1, <1>4 DEF Visit, Walks
<1> QED
  BY <1>2, <1>3, <1>4

LEMMA RangeAppend ==
  ASSUME NEW S, NEW r \in Seq(S), NEW n \in S
  PROVE  Range(Append(r, n)) = Range(r) \cup {n}
<1>1. DOMAIN r = 1 .. Len(r) /\ DOMAIN Append(r, n) = 1 .. Len(r) + 1 /\ Len(r) \in Nat
  OBVIOUS
<1>2. \A i \in 1 .. Len(r) : Append(r, n)[i] = r[i]
  OBVIOUS
<1>3. Append(r, n)[Len(r) + 1] = n
  OBVIOUS
<1>4. ASSUME NEW x \in Range(Append(r, n)) PROVE x \in Range(r) \cup {n}
  <2>1. PICK i \in 1 .. Len(r) + 1 : x = Append(r, n)[i]
    BY <1>1 DEF Range
  <2>2. CASE i = Len(r) + 1
    BY <1>3, <2>1, <2>2
  <2>3. CASE i # Len(r) + 1
    <3>1. i \in 1 .. Len(r)
      BY <1>1, <2>3
    <3> QED
      BY <1>1, <1>2, <2>1, <3>1 DEF Range
  <2> QED
    BY <2>2, <2>3
<1>5. ASSUME NEW x \in Range(r) PROVE x \in Range(Append(r, n))
  <2>1. PICK i \in 1 .. Len(r) : x = r[i]
    BY <1>1 DEF Range
  <2>2. i \in 1 .. Len(r) + 1 /\ Append(r, n)[i] = x
    BY <1>1, <1>2, <2>1
  <2> QED
    BY <1>1, <2>2 DEF Range
<1>6. n \in Range(Append(r, n))
  <2>1. Len(r) + 1 \in DOMAIN Append(r, n)
    BY <1>1
  <2> QED
    BY <1>3, <2>1 DEF Range
<1> QED
  BY <1>4, <1>5, <1>6

\* A call that visits a definition leaves one less, the others one call less.
LEMMA VisitEnds ==
  ASSUME Definitions, NEW s \in Walks, s.todo # <<>>
  PROVE  \/ Unseen(Visit(s)) < Unseen(s)
         \/ Unseen(Visit(s)) = Unseen(s) /\ Len(Visit(s).todo) < Len(s.todo)
<1> DEFINE n == Head(s.todo)
<1>1. n \in Names /\ s.required \in Seq(Names)
  BY DEF Walks
<1>2. CASE n \in Range(s.required) \/ n \notin Games
  <2>1. Visit(s).required = s.required /\ Visit(s).todo = Tail(s.todo)
    BY <1>2 DEF Visit, Walks
  <2>2. Len(Tail(s.todo)) < Len(s.todo)
    BY DEF Walks
  <2>3. Unseen(Visit(s)) = Unseen(s)
    BY <2>1 DEF Unseen
  <2> QED
    BY <2>1, <2>2, <2>3
<1>3. CASE n \notin Range(s.required) /\ n \in Games
  <2>1. Visit(s).required = Append(s.required, n)
    BY <1>3 DEF Visit, Walks
  <2> HIDE DEF n
  <2>2. Range(Visit(s).required) = Range(s.required) \cup {n}
    BY <1>1, <2>1, RangeAppend
  <2>3. Games \ Range(Visit(s).required) = (Games \ Range(s.required)) \ {n}
    BY <2>2
  <2>4. IsFiniteSet(Games \ Range(s.required)) /\ n \in Games \ Range(s.required)
    BY <1>3, FS_Difference, GameSelectionAssumption
  <2>5. Cardinality((Games \ Range(s.required)) \ {n}) = Cardinality(Games \ Range(s.required)) - 1
    BY <2>4, FS_RemoveElement
  <2>6. Unseen(Visit(s)) = Unseen(s) - 1 /\ Unseen(s) \in Nat
    BY <2>3, <2>5, UnseenIsNat DEF Unseen
  <2> QED
    BY <2>6
<1> QED
  BY <1>2, <1>3

\* Whatever calls are considered, one of them is the last or leaves them.
LEMMA WalkLeaves ==
  ASSUME Definitions, NEW bad, bad \subseteq Walks, bad # {}
  PROVE  \E s \in bad : s.todo = <<>> \/ Visit(s) \notin bad
<1> DEFINE unseen == {Unseen(s) : s \in bad}
<1>1. unseen \subseteq Nat /\ unseen # {}
  BY UnseenIsNat
<1> HIDE DEF unseen
<1>2. PICK a \in unseen : \A k \in unseen : ~(<<k, a>> \in OpToRel(<, Nat))
  BY <1>1, NatLessThanWellFounded, WFMin, Zenon
<1>3. \A k \in unseen : ~(k < a)
  BY <1>1, <1>2 DEF OpToRel
<1> DEFINE lens == {Len(s.todo) : s \in {t \in bad : Unseen(t) = a}}
<1>4. lens \subseteq Nat /\ lens # {}
  <2>1. \A s \in bad : Len(s.todo) \in Nat
    BY DEF Walks
  <2> QED
    BY <2>1 DEF unseen
<1> HIDE DEF lens
<1>5. PICK l \in lens : \A k \in lens : ~(<<k, l>> \in OpToRel(<, Nat))
  BY <1>4, NatLessThanWellFounded, WFMin, Zenon
<1>6. \A k \in lens : ~(k < l)
  BY <1>4, <1>5 DEF OpToRel
<1>7. PICK s \in bad : Unseen(s) = a /\ Len(s.todo) = l
  BY DEF lens
<1>8. ASSUME s.todo # <<>>, Visit(s) \in bad PROVE FALSE
  <2>1. s \in Walks
    OBVIOUS
  <2>2. \/ Unseen(Visit(s)) < a
        \/ Unseen(Visit(s)) = a /\ Len(Visit(s).todo) < l
    BY <1>7, <1>8, <2>1, VisitEnds
  <2>3. Unseen(Visit(s)) \in unseen
    BY <1>8 DEF unseen
  <2>4. Unseen(Visit(s)) = a => Len(Visit(s).todo) \in lens
    BY <1>8 DEF lens
  <2> QED
    BY <1>3, <1>6, <2>2, <2>3, <2>4
<1> QED
  BY <1>8

\* The calls from s end with t.
Ends(s, t) ==
  \E k \in Nat : \E w \in [0 .. k -> Walks] :
    /\ w[0] = s /\ w[k] = t /\ t.todo = <<>>
    /\ \A i \in 0 .. k - 1 : w[i].todo # <<>> /\ w[i + 1] = Visit(w[i])

LEMMA EndsHere ==
  ASSUME NEW s \in Walks, s.todo = <<>>, NEW t
  PROVE  Ends(s, t) <=> t = s
<1>1. ASSUME Ends(s, t) PROVE t = s
  <2>1. PICK k \in Nat : \E w \in [0 .. k -> Walks] :
          /\ w[0] = s /\ w[k] = t /\ t.todo = <<>>
          /\ \A i \in 0 .. k - 1 : w[i].todo # <<>> /\ w[i + 1] = Visit(w[i])
    BY <1>1 DEF Ends
  <2>2. PICK w \in [0 .. k -> Walks] :
          /\ w[0] = s /\ w[k] = t /\ t.todo = <<>>
          /\ \A i \in 0 .. k - 1 : w[i].todo # <<>> /\ w[i + 1] = Visit(w[i])
    BY <2>1
  <2>3. k = 0
    BY <2>2
  <2> QED
    BY <2>2, <2>3
<1>2. Ends(s, s)
  <2> DEFINE w == [i \in 0 .. 0 |-> s]
  <2>1. w \in [0 .. 0 -> Walks] /\ w[0] = s /\ 0 \in Nat /\ 0 .. 0 - 1 = {}
    OBVIOUS
  <2> QED
    BY <2>1 DEF Ends
<1> QED
  BY <1>1, <1>2

LEMMA EndsLater ==
  ASSUME Definitions, NEW s \in Walks, s.todo # <<>>, NEW t
  PROVE  Ends(s, t) <=> Ends(Visit(s), t)
<1>1. ASSUME Ends(s, t) PROVE Ends(Visit(s), t)
  <2>1. PICK k \in Nat : \E w \in [0 .. k -> Walks] :
          /\ w[0] = s /\ w[k] = t /\ t.todo = <<>>
          /\ \A i \in 0 .. k - 1 : w[i].todo # <<>> /\ w[i + 1] = Visit(w[i])
    BY <1>1 DEF Ends
  <2>2. PICK w \in [0 .. k -> Walks] :
          /\ w[0] = s /\ w[k] = t /\ t.todo = <<>>
          /\ \A i \in 0 .. k - 1 : w[i].todo # <<>> /\ w[i + 1] = Visit(w[i])
    BY <2>1
  <2>3. k # 0
    BY <2>2
  <2> DEFINE v == [i \in 0 .. k - 1 |-> w[i + 1]]
  <2>4. k - 1 \in Nat /\ v \in [0 .. k - 1 -> Walks]
    BY <2>3
  <2>5. v[0] = Visit(s) /\ v[k - 1] = t
    BY <2>2, <2>3
  <2>6. \A i \in 0 .. (k - 1) - 1 : v[i].todo # <<>> /\ v[i + 1] = Visit(v[i])
    BY <2>2, <2>3
  <2> HIDE DEF v
  <2> QED
    BY <2>2, <2>4, <2>5, <2>6 DEF Ends
<1>2. ASSUME Ends(Visit(s), t) PROVE Ends(s, t)
  <2>1. PICK k \in Nat : \E w \in [0 .. k -> Walks] :
          /\ w[0] = Visit(s) /\ w[k] = t /\ t.todo = <<>>
          /\ \A i \in 0 .. k - 1 : w[i].todo # <<>> /\ w[i + 1] = Visit(w[i])
    BY <1>2 DEF Ends
  <2>2. PICK w \in [0 .. k -> Walks] :
          /\ w[0] = Visit(s) /\ w[k] = t /\ t.todo = <<>>
          /\ \A i \in 0 .. k - 1 : w[i].todo # <<>> /\ w[i + 1] = Visit(w[i])
    BY <2>1
  <2> DEFINE v == [i \in 0 .. k + 1 |-> IF i = 0 THEN s ELSE w[i - 1]]
  <2>3. k + 1 \in Nat /\ v \in [0 .. k + 1 -> Walks]
    OBVIOUS
  <2>4. v[0] = s /\ v[k + 1] = t
    BY <2>2
  <2>5. ASSUME NEW i \in 0 .. (k + 1) - 1 PROVE v[i].todo # <<>> /\ v[i + 1] = Visit(v[i])
    <3>1. CASE i = 0
      BY <2>2, <3>1
    <3>2. CASE i # 0
      <4>1. i - 1 \in 0 .. k - 1 /\ v[i] = w[i - 1] /\ v[i + 1] = w[i] /\ (i - 1) + 1 = i
        BY <3>2
      <4>2. w[i - 1].todo # <<>> /\ w[(i - 1) + 1] = Visit(w[i - 1])
        BY <2>2, <4>1
      <4> QED
        BY <4>1, <4>2
    <3> QED
      BY <3>1, <3>2
  <2> HIDE DEF v
  <2> QED
    BY <2>2, <2>3, <2>4, <2>5 DEF Ends
<1> QED
  BY <1>1, <1>2

LEMMA EndsOnce ==
  ASSUME Definitions, NEW s \in Walks
  PROVE  \E t \in Walks : \A u : Ends(s, u) <=> u = t
<1> DEFINE bad == {r \in Walks : ~\E t \in Walks : \A u : Ends(r, u) <=> u = t}
<1> SUFFICES ASSUME bad # {} PROVE FALSE
  OBVIOUS
<1>1. PICK r \in bad : r.todo = <<>> \/ Visit(r) \notin bad
  BY WalkLeaves
<1>2. r \in Walks /\ ~\E t \in Walks : \A u : Ends(r, u) <=> u = t
  OBVIOUS
<1>3. r.todo # <<>>
  BY <1>2, EndsHere
<1>4. Visit(r) \in Walks
  BY <1>2, <1>3, VisitIsWalk
<1>5. PICK t \in Walks : \A u : Ends(Visit(r), u) <=> u = t
  BY <1>1, <1>3, <1>4
<1>6. \A u : Ends(r, u) <=> u = t
  BY <1>2, <1>3, <1>5, EndsLater
<1> QED
  BY <1>2, <1>6

\* GetDependencies returns, also for definitions that need each other.
LEMMA WalkReturns ==
  ASSUME Definitions
  PROVE  \A s \in Walks :
           WalkDefinitions[s] = IF s.todo = <<>> THEN s ELSE WalkDefinitions[Visit(s)]
<1> DEFINE IsWalk(f) == f = [s \in Walks |-> IF s.todo = <<>> THEN s ELSE f[Visit(s)]]
           end == [s \in Walks |-> CHOOSE t : Ends(s, t)]
<1>1. IsWalk(end)
  <2>1. ASSUME NEW s \in Walks, s.todo = <<>> PROVE end[s] = s
    <3>1. \A t : Ends(s, t) <=> t = s
      BY <2>1, EndsHere
    <3> QED
      BY <3>1
  <2>2. ASSUME NEW s \in Walks, s.todo # <<>> PROVE end[s] = end[Visit(s)]
    <3>1. PICK t \in Walks : \A u : Ends(s, u) <=> u = t
      BY EndsOnce
    <3>2. \A u : Ends(Visit(s), u) <=> u = t
      BY <2>2, <3>1, EndsLater
    <3>3. Visit(s) \in Walks
      BY <2>2, VisitIsWalk
    <3>4. (CHOOSE u : Ends(s, u)) = t
      BY <3>1
    <3>5. (CHOOSE u : Ends(Visit(s), u)) = t
      BY <3>2
    <3> QED
      BY <3>3, <3>4, <3>5
  <2> HIDE DEF end
  <2>3. end = [s \in Walks |-> end[s]]
    BY DEF end
  <2> QED
    BY <2>1, <2>2, <2>3
<1>2. PICK f : f = CHOOSE g : IsWalk(g)
  OBVIOUS
<1>3. IsWalk(f)
  <2> HIDE DEF IsWalk, end
  <2> QED
    BY <1>1, <1>2
<1>4. WalkDefinitions = f
  BY <1>2 DEF WalkDefinitions
<1> QED
  BY <1>3, <1>4

-----------------------------------------------------------------------------
(* The game selection: what the walk visits, and in which order *)

\* Every definition there is has the definitions it needs.
Closed == \A g \in Games : Needs(g) \subseteq Games

\* Of a definition that still needs one that was not met, the walk is not
\* done: what was met after it is needed by it, or by one met in between.
GoesOn(order) ==
  \A a, b \in DOMAIN order :
    (a < b /\ ~(Needs(order[a]) \subseteq Range(order)))
      => \/ order[b] \in Needs(order[a])
         \/ \E d \in a + 1 .. b - 1 : order[b] \in Needs(order[d])

\* Each call to be made is of a definition that was met, the last met first,
\* and whatever such a definition needs was met or is to be called for it.
Owned(s) ==
  \E own \in [DOMAIN s.todo -> DOMAIN s.required] :
    /\ \A i, j \in DOMAIN s.todo : i <= j => own[j] <= own[i]
    /\ \A j \in DOMAIN s.todo : s.todo[j] \in Needs(s.required[own[j]])
    /\ \A a \in DOMAIN s.required : \A u \in Needs(s.required[a]) \ Range(s.required) :
         \E j \in DOMAIN s.todo : own[j] = a /\ s.todo[j] = u

WalkInv(s) ==
  /\ Range(s.required) \subseteq Needed /\ s.lacking = {}
  /\ s.required # <<>> /\ s.required[1] = selected
  /\ IsDepthFirst(s.required)
  /\ GoesOn(s.required)
  /\ Owned(s)

LEMMA NeededAre ==
  ASSUME Definitions, Closed, selected \in Games
  PROVE  /\ Needed \subseteq Games /\ selected \in Needed
         /\ \A n \in Needed : Needs(n) \subseteq Needed
<1>1. Games \subseteq Names
  BY DEF Names
<1>2. Needed \subseteq Games
  <2>1. Games \in SUBSET Names /\ \A m \in Games \cap Games : Needs(m) \subseteq Games
    BY <1>1 DEF Closed
  <2> QED
    BY <2>1 DEF Needed
<1>3. selected \in Needed
  BY <1>1 DEF Needed
<1>4. ASSUME NEW n \in Needed, NEW u \in Needs(n) PROVE u \in Needed
  <2>1. n \in Games /\ u \in Games
    BY <1>2 DEF Closed
  <2>2. ASSUME NEW S \in SUBSET Names, selected \in S, \A m \in S \cap Games : Needs(m) \subseteq S
        PROVE  u \in S
    <3>1. n \in S
      BY <2>2 DEF Needed
    <3> QED
      BY <2>1, <2>2, <3>1
  <2> QED
    BY <1>1, <2>1, <2>2 DEF Needed
<1> QED
  BY <1>2, <1>3, <1>4

\* A walk that is over has met all that is needed.
LEMMA AllMet ==
  ASSUME NEW s \in Walks, WalkInv(s), s.todo = <<>>
  PROVE  Range(s.required) = Needed
<1>1. s.required \in Seq(Names)
  BY DEF Walks
<1>2. Range(s.required) \in SUBSET Names
  BY <1>1 DEF Range
<1>3. selected \in Range(s.required)
  <2>1. 1 \in DOMAIN s.required
    BY <1>1 DEF WalkInv
  <2> QED
    BY <2>1 DEF WalkInv, Range
<1>4. ASSUME NEW m \in Range(s.required) PROVE Needs(m) \subseteq Range(s.required)
  <2>1. PICK a \in DOMAIN s.required : s.required[a] = m
    BY DEF Range
  <2>2. DOMAIN s.todo = {}
    OBVIOUS
  <2> QED
    BY <2>1, <2>2 DEF WalkInv, Owned
<1>5. Needed \subseteq Range(s.required)
  BY <1>2, <1>3, <1>4 DEF Needed
<1> QED
  BY <1>5 DEF WalkInv

LEMMA Joined ==
  ASSUME NEW S, NEW p \in Seq(S), NEW q \in Seq(S)
  PROVE  /\ DOMAIN (p \o q) = 1 .. Len(p) + Len(q)
         /\ \A j \in 1 .. Len(p) : (p \o q)[j] = p[j]
         /\ \A j \in DOMAIN (p \o q) : j > Len(p) =>
              j - Len(p) \in 1 .. Len(q) /\ (p \o q)[j] = q[j - Len(p)]
<1>1. /\ p \o q \in Seq(S) /\ Len(p \o q) = Len(p) + Len(q) /\ Len(p) \in Nat /\ Len(q) \in Nat
      /\ \A j \in 1 .. Len(p) + Len(q) : (p \o q)[j] = IF j <= Len(p) THEN p[j] ELSE q[j - Len(p)]
  BY ConcatProperties
<1>2. DOMAIN (p \o q) = 1 .. Len(p) + Len(q)
  BY <1>1
<1>3. \A j \in 1 .. Len(p) : (p \o q)[j] = p[j]
  BY <1>1
<1>4. ASSUME NEW j \in 1 .. Len(p) + Len(q), j > Len(p)
      PROVE  j - Len(p) \in 1 .. Len(q) /\ (p \o q)[j] = q[j - Len(p)]
  BY <1>1, <1>4
<1> QED
  BY <1>2, <1>3, <1>4

\* A definition that was met already changes nothing but the calls.
LEMMA VisitMet ==
  ASSUME NEW s \in Walks, s.todo # <<>>, WalkInv(s), Head(s.todo) \in Range(s.required)
  PROVE  WalkInv(Visit(s))
<1>1. s.todo \in Seq(Names) /\ s.required \in Seq(Names)
  BY DEF Walks
<1>2. Visit(s).required = s.required /\ Visit(s).todo = Tail(s.todo) /\ Visit(s).lacking = s.lacking
  BY DEF Visit, Walks
<1> DEFINE rest == Tail(s.todo)
<1>3. /\ rest \in Seq(Names) /\ Len(s.todo) \in Nat /\ Len(s.todo) # 0
      /\ DOMAIN s.todo = 1 .. Len(s.todo) /\ DOMAIN rest = 1 .. Len(s.todo) - 1
      /\ \A j \in DOMAIN rest : j + 1 \in DOMAIN s.todo /\ rest[j] = s.todo[j + 1]
      /\ Head(s.todo) = s.todo[1]
  BY <1>1
<1> HIDE DEF rest
<1>4. PICK own \in [DOMAIN s.todo -> DOMAIN s.required] :
        /\ \A i, j \in DOMAIN s.todo : i <= j => own[j] <= own[i]
        /\ \A j \in DOMAIN s.todo : s.todo[j] \in Needs(s.required[own[j]])
        /\ \A a \in DOMAIN s.required : \A u \in Needs(s.required[a]) \ Range(s.required) :
             \E j \in DOMAIN s.todo : own[j] = a /\ s.todo[j] = u
  BY DEF WalkInv, Owned
<1> DEFINE new == [j \in DOMAIN rest |-> own[j + 1]]
<1>5. new \in [DOMAIN rest -> DOMAIN s.required] /\ \A j \in DOMAIN rest : new[j] = own[j + 1]
  BY <1>3
<1> HIDE DEF new
<1>6. \A i, j \in DOMAIN rest : i <= j => new[j] <= new[i]
  <2> TAKE i, j \in DOMAIN rest
  <2> HAVE i <= j
  <2>1. i + 1 <= j + 1
    BY <1>3
  <2> QED
    BY <1>3, <1>4, <1>5, <2>1
<1>7. \A j \in DOMAIN rest : rest[j] \in Needs(s.required[new[j]])
  BY <1>3, <1>4, <1>5
<1>8. ASSUME NEW a \in DOMAIN s.required, NEW u \in Needs(s.required[a]) \ Range(s.required)
      PROVE  \E j \in DOMAIN rest : new[j] = a /\ rest[j] = u
  <2>1. PICK j \in DOMAIN s.todo : own[j] = a /\ s.todo[j] = u
    BY <1>4
  <2>2. j # 1
    BY <1>3, <2>1
  <2>3. j - 1 \in DOMAIN rest /\ (j - 1) + 1 = j
    BY <1>3, <2>2
  <2>4. new[j - 1] = a /\ rest[j - 1] = u
    BY <1>3, <1>5, <2>1, <2>3
  <2> QED
    BY <2>3, <2>4
<1>9. Owned(Visit(s))
  BY <1>2, <1>5, <1>6, <1>7, <1>8 DEF Owned, rest
<1> QED
  BY <1>2, <1>9 DEF WalkInv

\* One that was not is met now, and called for what it needs before anything else.
LEMMA VisitNew ==
  ASSUME Definitions, Closed, selected \in Games,
         NEW s \in Walks, s.todo # <<>>, WalkInv(s), Head(s.todo) \notin Range(s.required)
  PROVE  WalkInv(Visit(s))
<1> DEFINE rest == Tail(s.todo)
           n == Head(s.todo)
           m == Len(s.required)
           k == Len(mRequiredDataSetsOf[n])
           needs == mRequiredDataSetsOf[n]
           order == Append(s.required, n)
           todo == needs \o rest
<1>1. s.todo \in Seq(Names) /\ s.required \in Seq(Names) /\ n \in Names /\ m \in Nat /\ m # 0
  BY DEF Walks, WalkInv
<1>2. /\ rest \in Seq(Names) /\ Len(s.todo) \in Nat /\ Len(s.todo) # 0
      /\ DOMAIN s.todo = 1 .. Len(s.todo) /\ DOMAIN rest = 1 .. Len(s.todo) - 1
      /\ \A j \in DOMAIN rest : j + 1 \in DOMAIN s.todo /\ rest[j] = s.todo[j + 1]
      /\ n = s.todo[1] /\ 1 \in DOMAIN s.todo
  BY <1>1
<1>3. PICK own \in [DOMAIN s.todo -> DOMAIN s.required] :
        /\ \A i, j \in DOMAIN s.todo : i <= j => own[j] <= own[i]
        /\ \A j \in DOMAIN s.todo : s.todo[j] \in Needs(s.required[own[j]])
        /\ \A a \in DOMAIN s.required : \A u \in Needs(s.required[a]) \ Range(s.required) :
             \E j \in DOMAIN s.todo : own[j] = a /\ s.todo[j] = u
  BY DEF WalkInv, Owned
<1>4. own[1] \in 1 .. m /\ DOMAIN s.required = 1 .. m /\ n \in Needs(s.required[own[1]])
  BY <1>1, <1>2, <1>3
<1>5. n \in Needed /\ n \in Games
  <2>1. s.required[own[1]] \in Range(s.required)
    BY <1>4 DEF Range
  <2>2. s.required[own[1]] \in Needed
    BY <2>1 DEF WalkInv
  <2> QED
    BY <1>4, <2>2, NeededAre
<1>6. needs \in Seq(Names) /\ k \in Nat /\ DOMAIN needs = 1 .. k
  BY <1>5 DEF Definitions
<1>7. Visit(s).required = order /\ Visit(s).todo = todo /\ Visit(s).lacking = s.lacking
  BY <1>5 DEF Visit, Walks
<1>8. /\ DOMAIN order = 1 .. m + 1 /\ order[m + 1] = n
      /\ \A i \in 1 .. m : order[i] = s.required[i]
  BY <1>1
<1>9. Range(order) = Range(s.required) \cup {n}
  BY <1>1, RangeAppend
<1>10. /\ DOMAIN todo = 1 .. k + (Len(s.todo) - 1)
       /\ \A j \in 1 .. k : todo[j] = needs[j]
       /\ \A j \in DOMAIN todo : j > k => j - k \in DOMAIN rest /\ todo[j] = rest[j - k]
  <2>1. Len(rest) = Len(s.todo) - 1 /\ DOMAIN rest = 1 .. Len(rest)
    BY <1>2
  <2>2. needs \in Seq(Names) /\ rest \in Seq(Names)
    BY <1>2, <1>6
  <2> HIDE DEF needs, rest
  <2>3. /\ DOMAIN (needs \o rest) = 1 .. Len(needs) + Len(rest)
        /\ \A j \in 1 .. Len(needs) : (needs \o rest)[j] = needs[j]
        /\ \A j \in DOMAIN (needs \o rest) : j > Len(needs) =>
             j - Len(needs) \in 1 .. Len(rest) /\ (needs \o rest)[j] = rest[j - Len(needs)]
    BY <2>2, Joined, Zenon
  <2>4. k = Len(needs) /\ todo = needs \o rest
    BY DEF needs
  <2> HIDE DEF k, todo
  <2> QED
    BY <2>1, <2>3, <2>4
<1>11. Needs(n) = {needs[j] : j \in 1 .. k}
  BY <1>6 DEF Needs, Range
<1> HIDE DEF rest, n, m, k, needs, order, todo
<1>12. Range(order) \subseteq Needed
  BY <1>5, <1>9 DEF WalkInv
<1>13. order # <<>> /\ order[1] = selected
  <2>1. 1 \in 1 .. m /\ 1 \in 1 .. m + 1
    BY <1>1
  <2>2. order[1] = selected
    BY <1>8, <2>1 DEF WalkInv
  <2>3. DOMAIN order # {}
    BY <1>8, <2>1
  <2> QED
    BY <2>2, <2>3
\* Whatever is not met yet is needed by the owner of this call or an earlier one.
<1>14. ASSUME NEW a \in 1 .. m, ~(Needs(s.required[a]) \subseteq Range(order))
       PROVE  a <= own[1]
  <2>1. PICK u \in Needs(s.required[a]) \ Range(s.required) : u # n
    BY <1>9, <1>14
  <2>2. PICK j \in DOMAIN s.todo : own[j] = a /\ s.todo[j] = u
    BY <1>3, <1>4, <2>1
  <2>3. 1 <= j
    BY <1>2
  <2> QED
    BY <1>2, <1>3, <2>2, <2>3
<1>15. GoesOn(order)
  <2> SUFFICES ASSUME NEW a \in 1 .. m + 1, NEW b \in 1 .. m + 1, a < b,
                      ~(Needs(order[a]) \subseteq Range(order))
               PROVE  \/ order[b] \in Needs(order[a])
                      \/ \E d \in a + 1 .. b - 1 : order[b] \in Needs(order[d])
    BY <1>8 DEF GoesOn
  <2>1. a \in 1 .. m /\ order[a] = s.required[a]
    BY <1>1, <1>8
  <2>2. CASE b = m + 1
    <3>1. a <= own[1]
      BY <1>14, <2>1
    <3>2. order[b] = n /\ order[own[1]] = s.required[own[1]]
      BY <1>4, <1>8, <2>2
    <3>3. CASE a = own[1]
      BY <1>4, <2>1, <3>2, <3>3
    <3>4. CASE a # own[1]
      <4>1. own[1] \in a + 1 .. b - 1
        BY <1>1, <1>4, <2>2, <3>1, <3>4
      <4> QED
        BY <1>4, <3>2, <4>1
    <3> QED
      BY <3>3, <3>4
  <2>3. CASE b # m + 1
    <3>1. b \in 1 .. m /\ order[b] = s.required[b]
      BY <1>1, <1>8, <2>3
    <3>2. ~(Needs(s.required[a]) \subseteq Range(s.required))
      BY <1>9, <2>1
    <3>3. \/ s.required[b] \in Needs(s.required[a])
          \/ \E d \in a + 1 .. b - 1 : s.required[b] \in Needs(s.required[d])
      BY <1>4, <2>1, <3>1, <3>2 DEF WalkInv, GoesOn
    <3>4. \A d \in a + 1 .. b - 1 : order[d] = s.required[d]
      BY <1>1, <1>8, <3>1
    <3> QED
      BY <2>1, <3>1, <3>3, <3>4
  <2> QED
    BY <2>2, <2>3
<1>16. IsDepthFirst(order)
  <2>1. ASSUME NEW i \in 1 .. m + 1, NEW j \in 1 .. m + 1, order[i] = order[j] PROVE i = j
    <3>1. \A l \in 1 .. m : s.required[l] # n
      BY <1>4 DEF Range, n
    <3>2. CASE i \in 1 .. m /\ j \in 1 .. m
      BY <1>4, <1>8, <2>1, <3>2 DEF WalkInv, IsDepthFirst
    <3>3. CASE i = m + 1 \/ j = m + 1
      <4>1. \A l \in 1 .. m + 1 : l # m + 1 => l \in 1 .. m
        BY <1>1
      <4> QED
        BY <1>8, <2>1, <3>1, <3>3, <4>1
    <3> QED
      BY <1>1, <3>2, <3>3
  <2>2. ASSUME NEW a \in 1 .. m + 1, NEW b \in 1 .. m + 1, NEW c \in 1 .. m + 1, a < b, b < c,
               order[c] \in Needs(order[a]), order[b] \notin Needs(order[a])
        PROVE  \E d \in a + 1 .. b - 1 : order[b] \in Needs(order[d])
    <3>1. a \in 1 .. m /\ b \in 1 .. m /\ order[a] = s.required[a] /\ order[b] = s.required[b]
      BY <1>1, <1>8, <2>2
    <3>2. \A d \in a + 1 .. b - 1 : order[d] = s.required[d]
      BY <1>1, <1>8, <3>1
    <3>3. CASE c = m + 1
      <4>1. n \in Needs(s.required[a]) /\ n \notin Range(s.required)
        BY <1>8, <2>2, <3>1, <3>3 DEF n
      <4>2. \/ s.required[b] \in Needs(s.required[a])
            \/ \E d \in a + 1 .. b - 1 : s.required[b] \in Needs(s.required[d])
        BY <1>4, <2>2, <3>1, <4>1 DEF WalkInv, GoesOn
      <4> QED
        BY <2>2, <3>1, <3>2, <4>2
    <3>4. CASE c # m + 1
      <4>1. c \in 1 .. m /\ order[c] = s.required[c]
        BY <1>1, <1>8, <3>4
      <4>2. \E d \in a + 1 .. b - 1 : s.required[b] \in Needs(s.required[d])
        BY <1>4, <2>2, <3>1, <4>1 DEF WalkInv, IsDepthFirst
      <4> QED
        BY <3>1, <3>2, <4>2
    <3> QED
      BY <3>3, <3>4
  <2> QED
    BY <1>8, <2>1, <2>2 DEF IsDepthFirst
<1>17. Owned(Visit(s))
  <2> DEFINE new == [j \in DOMAIN todo |-> IF j <= k THEN m + 1 ELSE own[(j - k) + 1]]
  <2>1. \A j \in DOMAIN todo : j > k => (j - k) + 1 \in DOMAIN s.todo /\ todo[j] = s.todo[(j - k) + 1]
    BY <1>2, <1>10
  <2>2. \A j \in DOMAIN todo : new[j] = IF j <= k THEN m + 1 ELSE own[(j - k) + 1]
    OBVIOUS
  <2>3. \A j \in DOMAIN todo : j > k => new[j] \in 1 .. m /\ new[j] = own[(j - k) + 1]
    <3> TAKE j \in DOMAIN todo
    <3> HAVE j > k
    <3>1. ~(j <= k)
      BY <1>6, <1>10
    <3>2. own[(j - k) + 1] \in 1 .. m
      BY <1>3, <1>4, <2>1
    <3> QED
      BY <2>2, <3>1, <3>2
  <2>4. new \in [DOMAIN todo -> DOMAIN order]
    <3>1. \A j \in DOMAIN todo : new[j] \in 1 .. m + 1
      <4> TAKE j \in DOMAIN todo
      <4>1. CASE j <= k
        BY <1>1, <2>2, <4>1
      <4>2. CASE j > k
        BY <1>1, <2>3, <4>2
      <4> QED
        BY <1>6, <1>10, <4>1, <4>2
    <3> QED
      BY <1>8, <3>1
  <2> HIDE DEF new
  <2>5. ASSUME NEW i \in DOMAIN todo, NEW j \in DOMAIN todo, i <= j PROVE new[j] <= new[i]
    <3>0. i \in Nat /\ j \in Nat /\ k \in Nat /\ m \in Nat
      BY <1>1, <1>6, <1>10
    <3>1. CASE i <= k
      <4>1. new[i] = m + 1
        BY <2>2, <3>1
      <4>2. new[j] \in 1 .. m + 1
        BY <1>8, <2>4
      <4> QED
        BY <3>0, <4>1, <4>2
    <3>2. CASE i > k
      <4>1. j > k
        BY <2>5, <3>0, <3>2
      <4>2. (i - k) + 1 \in DOMAIN s.todo /\ (j - k) + 1 \in DOMAIN s.todo /\ (i - k) + 1 <= (j - k) + 1
        BY <2>1, <2>5, <3>0, <3>2, <4>1
      <4>3. own[(j - k) + 1] <= own[(i - k) + 1]
        BY <1>3, <4>2
      <4>4. new[i] = own[(i - k) + 1] /\ new[j] = own[(j - k) + 1]
        BY <2>3, <3>2, <4>1
      <4> QED
        BY <4>3, <4>4
    <3> QED
      BY <3>0, <3>1, <3>2
  <2>6. ASSUME NEW j \in DOMAIN todo PROVE todo[j] \in Needs(order[new[j]])
    <3>1. CASE j <= k
      <4>1. j \in 1 .. k /\ new[j] = m + 1
        BY <1>6, <1>10, <2>2, <3>1
      <4> QED
        BY <1>8, <1>10, <1>11, <4>1
    <3>2. CASE j > k
      <4>1. /\ new[j] \in 1 .. m /\ new[j] = own[(j - k) + 1]
            /\ (j - k) + 1 \in DOMAIN s.todo /\ todo[j] = s.todo[(j - k) + 1]
        BY <2>1, <2>3, <3>2
      <4>2. order[new[j]] = s.required[new[j]]
        BY <1>8, <4>1
      <4> QED
        BY <1>3, <4>1, <4>2
    <3> QED
      BY <1>6, <1>10, <3>1, <3>2
  <2>7. ASSUME NEW a \in 1 .. m + 1, NEW u \in Needs(order[a]) \ Range(order)
        PROVE  \E j \in DOMAIN todo : new[j] = a /\ todo[j] = u
    <3>1. CASE a = m + 1
      <4>1. PICK j \in 1 .. k : needs[j] = u
        BY <1>8, <1>11, <3>1
      <4>2. j \in DOMAIN todo /\ j <= k
        BY <1>2, <1>6, <1>10, <4>1
      <4> QED
        BY <1>10, <2>2, <3>1, <4>1, <4>2
    <3>2. CASE a # m + 1
      <4>1. a \in 1 .. m /\ u \in Needs(s.required[a]) \ Range(s.required) /\ u # n
        BY <1>1, <1>8, <1>9, <3>2
      <4>2. PICK i \in DOMAIN s.todo : own[i] = a /\ s.todo[i] = u
        BY <1>3, <1>4, <4>1
      <4>3. i # 1
        BY <1>2, <4>1, <4>2
      <4>4. i \in 2 .. Len(s.todo) /\ Len(s.todo) \in Nat /\ k \in Nat
        BY <1>2, <1>6, <4>2, <4>3
      <4> DEFINE j == (i - 1) + k
      <4>5. j \in 1 .. k + (Len(s.todo) - 1) /\ j > k /\ (j - k) + 1 = i
        BY <4>4
      <4> HIDE DEF j
      <4>6. j \in DOMAIN todo
        BY <1>10, <4>5
      <4>7. new[j] = own[i] /\ todo[j] = s.todo[i]
        BY <2>1, <2>3, <4>5, <4>6
      <4> QED
        BY <4>2, <4>6, <4>7
    <3> QED
      BY <3>1, <3>2
  <2> QED
    BY <1>7, <1>8, <2>4, <2>5, <2>6, <2>7 DEF Owned
<1> QED
  BY <1>7, <1>12, <1>13, <1>15, <1>16, <1>17 DEF WalkInv

LEMMA WalkGoesTo ==
  ASSUME Definitions, Closed, selected \in Games, NEW s \in Walks, WalkInv(s)
  PROVE  /\ WalkDefinitions[s] \in Walks /\ WalkDefinitions[s].todo = <<>>
         /\ WalkInv(WalkDefinitions[s])
<1> DEFINE Good(t) == t \in Walks /\ t.todo = <<>> /\ WalkInv(t)
           bad == {r \in Walks : WalkInv(r) /\ ~Good(WalkDefinitions[r])}
<1> SUFFICES ASSUME bad # {} PROVE FALSE
  OBVIOUS
<1>1. PICK r \in bad : r.todo = <<>> \/ Visit(r) \notin bad
  BY WalkLeaves
<1>2. r \in Walks /\ WalkInv(r) /\ ~Good(WalkDefinitions[r])
  OBVIOUS
<1> HIDE DEF Good
<1>3. CASE r.todo = <<>>
  <2>1. WalkDefinitions[r] = r
    BY <1>2, <1>3, WalkReturns
  <2> QED
    BY <1>2, <1>3, <2>1 DEF Good
<1>4. CASE r.todo # <<>>
  <2>1. WalkDefinitions[r] = WalkDefinitions[Visit(r)]
    BY <1>2, <1>4, WalkReturns
  <2>2. Visit(r) \in Walks
    BY <1>2, <1>4, VisitIsWalk
  <2>3. WalkInv(Visit(r))
    BY <1>2, <1>4, VisitMet, VisitNew
  <2> QED
    BY <1>1, <1>2, <1>4, <2>1, <2>2, <2>3
<1> QED
  BY <1>3, <1>4

\* What the walk from nothing finds is what the game needs, in its order.
LEMMA WalkFinds ==
  ASSUME Definitions, Closed, selected \in Games, mRequiredDataSets = <<>>
  PROVE  LET found == GetDependencies(selected)
         IN /\ found.lacking = {} /\ found.required \in Seq(Names)
            /\ Range(found.required) = Needed /\ found.required[1] = selected
            /\ IsDepthFirst(found.required)
<1> DEFINE s == [required |-> Append(mRequiredDataSets, selected), lacking |-> {},
                 todo |-> mRequiredDataSetsOf[selected]]
<1>1. s.required = <<selected>> /\ s.lacking = {} /\ s.todo = mRequiredDataSetsOf[selected]
  OBVIOUS
<1>2. selected \in Names /\ mRequiredDataSetsOf[selected] \in Seq(Names)
  BY DEF Definitions, Names
<1>3. s \in Walks
  BY <1>1, <1>2 DEF Walks
<1>4. DOMAIN <<selected>> = 1 .. 1 /\ Range(<<selected>>) = {selected}
  BY DEF Range
<1>5. Owned(s)
  <2> DEFINE own == [j \in DOMAIN s.todo |-> 1]
  <2>1. own \in [DOMAIN s.todo -> DOMAIN s.required] /\ s.required[1] = selected
    BY <1>1, <1>4
  <2>2. \A i, j \in DOMAIN s.todo : i <= j => own[j] <= own[i]
    OBVIOUS
  <2>3. \A j \in DOMAIN s.todo : s.todo[j] \in Needs(s.required[own[j]])
    BY <1>1, <2>1 DEF Needs, Range
  <2>4. \A a \in DOMAIN s.required : \A u \in Needs(s.required[a]) \ Range(s.required) :
          \E j \in DOMAIN s.todo : own[j] = a /\ s.todo[j] = u
    BY <1>1, <1>4, <2>1 DEF Needs, Range
  <2> HIDE DEF own, s
  <2> QED
    BY <2>1, <2>2, <2>3, <2>4 DEF Owned
<1> HIDE DEF s
<1>6. IsDepthFirst(s.required) /\ GoesOn(s.required)
  BY <1>1, <1>4 DEF IsDepthFirst, GoesOn
<1>7. WalkInv(s)
  BY <1>1, <1>4, <1>5, <1>6, NeededAre DEF WalkInv
<1>8. GetDependencies(selected) = WalkDefinitions[s]
  BY DEF GetDependencies, s
<1>9. /\ WalkDefinitions[s] \in Walks /\ WalkDefinitions[s].todo = <<>>
      /\ WalkInv(WalkDefinitions[s])
  BY <1>3, <1>7, WalkGoesTo
<1>10. Range(WalkDefinitions[s].required) = Needed
  BY <1>9, AllMet
<1> QED
  BY <1>8, <1>9, <1>10 DEF WalkInv, Walks

-----------------------------------------------------------------------------
(* The game selection: the game that is run *)

\* The directories are those of the user.
DirsInv ==
  /\ \A id \in DOMAIN mPaths : mPaths[id] \in Dirs
  /\ \A i \in DOMAIN saved : saved[i] \in Dirs

\* Until the definitions are there nothing is selected; from then on nothing
\* is required unless a start asks for it, or lacked a definition.
GameInv ==
  /\ Definitions /\ selected \in Games
  /\ initJob # "delivered" \/ engineState = "ePreEngineInit" =>
       /\ engineState \notin {"eSelectGame", "eRunSelectedGame"}
       /\ mRequiredDataSets = <<>> /\ selState = "eSelectGame"
  /\ Closed /\ engineState = "eSelectGame" /\ selState = "eSelectGame" => mRequiredDataSets = <<>>
  /\ RunsWholeGame

IdentifyIn == \A dir \in Dirs : Identify(dir).path \in Dirs

LEMMA IdentifiedIn == IdentifyIn
  BY GameSelectionAssumption DEF Identify, IdentifyIn

LEMMA WrittenIn ==
  ASSUME NEW paths, \A id \in DOMAIN paths : paths[id] \in Dirs
  PROVE  \A i \in DOMAIN Persisted(paths) : Persisted(paths)[i] \in Dirs
BY DEF Persisted

LEMMA ReadIn ==
  ASSUME NEW dirs, DOMAIN dirs \subseteq Nat, \A i \in DOMAIN dirs : dirs[i] \in Dirs
  PROVE  \A id \in DOMAIN PathsFrom(dirs) : PathsFrom(dirs)[id] \in Dirs
<1> DEFINE As(id) == {i \in DOMAIN dirs : Identify(dirs[i]).id = id}
           ids == {Identify(dirs[i]).id : i \in DOMAIN dirs} \ {None}
<1>1. PathsFrom(dirs) = [id \in ids |-> Identify(dirs[Min(As(id))]).path]
  BY PathsFromIs
<1>2. ASSUME NEW id \in ids PROVE Identify(dirs[Min(As(id))]).path \in Dirs
  <2>1. As(id) # {} /\ As(id) \subseteq Nat
    OBVIOUS
  <2>2. Min(As(id)) \in As(id)
    BY <2>1, FirstPlace
  <2>3. dirs[Min(As(id))] \in Dirs
    BY <2>2
  <2> QED
    BY <2>3, IdentifiedIn DEF IdentifyIn
<1> HIDE DEF ids, As
<1> QED
  BY <1>1, <1>2

LEMMA DirsInvInit == EngineInit => DirsInv
  BY GameSelectionAssumption DEF EngineInit, SelectionInit, DirsInv, Range

LEMMA DirsInvStep == PathsInv /\ DirsInv /\ [EngineNext]_engineVars => DirsInv'
<1> SUFFICES ASSUME PathsInv, DirsInv, [EngineNext]_engineVars PROVE DirsInv'
  OBVIOUS
<1>0. ASSUME UNCHANGED <<mPaths, saved>> PROVE DirsInv'
  BY <1>0 DEF DirsInv
<1>1. CASE WorkerTakesJob
  BY <1>0, <1>1 DEF WorkerTakesJob, selectionVars, pathVars
<1>2. CASE InitResources
  <2>1. mPaths' = PathsFrom(saved) /\ saved' = saved
    BY <1>2 DEF InitResources
  <2>2. \A id \in DOMAIN PathsFrom(saved) : PathsFrom(saved)[id] \in Dirs
    BY ReadIn DEF DirsInv, PathsInv
  <2> QED
    BY <2>1, <2>2 DEF DirsInv
<1>3. ASSUME NEW quit \in BOOLEAN, FrameStep(quit) PROVE DirsInv'
  <2>0. ASSUME UNCHANGED selectionVars PROVE DirsInv'
    BY <1>0, <2>0 DEF selectionVars, pathVars
  <2>1. CASE FramePreInit
    BY <2>0, <2>1 DEF FramePreInit
  <2>2. CASE FrameWorld
    BY <2>0, <2>2 DEF FrameWorld
  <2>3. CASE \E state \in {"eEngineInit", "eQuit"} : FrameIdle(quit, state)
    BY <2>0, <2>3 DEF FrameIdle
  <2>4. ASSUME NEW game, SelectGame(game) PROVE DirsInv'
    BY <1>0, <2>4 DEF SelectGame, pathVars
  <2>5. CASE StartLacking
    BY <1>0, <2>5 DEF StartLacking, pathVars
  <2>6. CASE StartFinds
    BY <1>0, <2>6 DEF StartFinds, Started, pathVars
  <2>7. CASE Back
    BY <1>0, <2>7 DEF Back, pathVars
  <2>8. CASE StartRuns
    <3>1. mPaths' = mPaths /\ saved' = Persisted(mPaths)
      BY <2>8 DEF StartRuns, LoadGameDefinition
    <3> QED
      BY <3>1, WrittenIn DEF DirsInv
  <2>9. ASSUME NEW n, NEW d \in Dirs, GivePath(n, d) PROVE DirsInv'
    <3>1. mPaths' = Added(mPaths, d)
      BY <2>9 DEF GivePath
    <3>2. saved' = saved \/ saved' = Persisted(mPaths')
      BY <2>9 DEF GivePath, LoadGameDefinition
    <3>3. Identify(d).path \in Dirs
      BY IdentifiedIn DEF IdentifyIn
    <3>4. \A id \in DOMAIN mPaths' : mPaths'[id] \in Dirs
      BY <3>1, <3>3 DEF DirsInv, Added
    <3>5. CASE saved' = saved
      BY <3>4, <3>5 DEF DirsInv
    <3>6. CASE saved' = Persisted(mPaths')
      BY <3>4, <3>6, WrittenIn DEF DirsInv
    <3> QED
      BY <3>2, <3>5, <3>6
  <2>10. CASE FrameSelect(quit)
    BY <2>0, <2>4, <2>5, <2>6, <2>7, <2>8, <2>9, <2>10 DEF FrameSelect
  <2> QED
    BY <1>3, <2>1, <2>2, <2>3, <2>10 DEF FrameStep
<1>4. CASE Restart
  <2>1. saved' = saved /\ mPaths' = [id \in {} |-> None]
    BY <1>4 DEF Restart
  <2> QED
    BY <2>1 DEF DirsInv
<1>5. CASE UNCHANGED engineVars
  BY <1>0, <1>5 DEF engineVars, selectionVars, pathVars
<1> QED
  BY <1>1, <1>2, <1>3, <1>4, <1>5 DEF EngineNext

\* With nothing missing, the active paths are those of all data sets with files.
LEMMA NothingMissing ==
  ASSUME PathsInv, DirsInv, NEW required \in Seq(Names),
         MissingDataSetPaths(Range(required) \ Mods, mPaths) = {}
  PROVE  ActivePaths(required, mPaths) =
           [i \in {j \in DOMAIN required : required[j] \notin Meta \ Mods} |->
              LET n == required[i] IN <<n, IF n \in Mods THEN n ELSE mPaths[n]>>]
<1>1. ASSUME NEW i \in DOMAIN required
      PROVE  /\ DataSetPath(required[i], mPaths) # None <=> required[i] \notin Meta \ Mods
             /\ required[i] \notin Meta \ Mods => DataSetPath(required[i], mPaths) =
                  IF required[i] \in Mods THEN required[i] ELSE mPaths[required[i]]
  <2>1. PICK n \in Names : n = required[i]
    OBVIOUS
  <2>2. n \in Range(required) /\ n # None
    BY <2>1, GameSelectionAssumption DEF Range
  <2>3. n \in Mods \/ n \in Meta \/ n \in DOMAIN mPaths
    BY <2>2 DEF MissingDataSetPaths
  <2>4. n \in DOMAIN mPaths => n \notin Meta /\ mPaths[n] # None
    BY GameSelectionAssumption DEF PathsInv, Known, DirsInv
  <2> QED
    BY <2>1, <2>2, <2>3, <2>4 DEF DataSetPath
<1>2. {j \in DOMAIN required : DataSetPath(required[j], mPaths) # None} =
        {j \in DOMAIN required : required[j] \notin Meta \ Mods}
  BY <1>1
<1> QED
  BY <1>1, <1>2 DEF ActivePaths

LEMMA GameInvInit == EngineInit => GameInv
<1> SUFFICES ASSUME EngineInit PROVE GameInv
  OBVIOUS
<1>1. Definitions
  BY DEF EngineInit, SelectionInit, Definitions
<1>2. selected \in Games
  BY DEF EngineInit, SelectionInit, Visible
<1>3. engineState = "ePreEngineInit" /\ mRequiredDataSets = <<>> /\ selState = "eSelectGame"
  BY DEF EngineInit, SelectionInit
<1> QED
  BY <1>1, <1>2, <1>3 DEF GameInv, RunsWholeGame

\* A start with all definitions there asks for all that is needed.
LEMMA StartedWhole ==
  ASSUME Definitions, Closed, selected \in Games, PathsInv, DirsInv, StartRuns,
         mRequiredDataSets = <<>>
  PROVE  /\ Range(mRequiredDataSets') = Needed
         /\ mRequiredDataSets'[1] = selected
         /\ IsDepthFirst(mRequiredDataSets')
         /\ mActiveDataPaths' = UntilFails(WholePaths, unopened)'
<1>1. Started(GetDependencies(selected).required)
  BY DEF StartRuns
<1>2. selState = "eSelectGame" /\ mRequiredDataSets' = GetDependencies(selected).required
  BY <1>1 DEF Started
<1> DEFINE found == GetDependencies(selected)
<1>4. /\ found.lacking = {} /\ found.required \in Seq(Names)
      /\ Range(found.required) = Needed /\ found.required[1] = selected
      /\ IsDepthFirst(found.required)
  BY WalkFinds
<1>5. MissingDataSetPaths(Range(found.required) \ Mods, mPaths) = {}
  <2>1. mMissingDataPaths' = {}
    BY DEF StartRuns
  <2>2. mMissingDataPaths' = MissingDataSetPaths(mRequiredDataSetNames', mPaths)
    BY <1>1 DEF Started
  <2>3. mRequiredDataSetNames' = Range(found.required) \ Mods
    BY <1>1 DEF Started
  <2> QED
    BY <2>1, <2>2, <2>3
<1>6. /\ mActiveDataPaths' = UntilFails(ActivePaths(mRequiredDataSets', mPaths), unopened')
      /\ mPaths' = mPaths
  BY DEF StartRuns, LoadGameDefinition
<1> HIDE DEF found
<1>7. mRequiredDataSets' = found.required
  BY <1>2 DEF found
<1>8. ActivePaths(found.required, mPaths) =
        [i \in {j \in DOMAIN found.required : found.required[j] \notin Meta \ Mods} |->
           LET n == found.required[i] IN <<n, IF n \in Mods THEN n ELSE mPaths[n]>>]
  BY <1>4, <1>5, NothingMissing
<1>9. WholePaths' = ActivePaths(mRequiredDataSets', mPaths)
  BY <1>6, <1>7, <1>8 DEF WholePaths
<1>10. mActiveDataPaths' = UntilFails(WholePaths, unopened)'
  BY <1>6, <1>9 DEF UntilFails
<1> QED
  <2> PICK required : required = found.required
    OBVIOUS
  <2> QED
    BY <1>4, <1>7, <1>10

\* Steps that leave what RunsWholeGame speaks of.
LEMMA GameUnchanged ==
  ASSUME GameInv, UNCHANGED <<mRequiredDataSetsOf, mPaths, selected, mRequiredDataSets, activeVars>>,
         engineState' = "eRunSelectedGame" => engineState = "eRunSelectedGame"
  PROVE  RunsWholeGame' /\ Definitions' /\ (selected \in Games)' /\ (Closed' <=> Closed)
<1>1. Needed' = Needed
  BY DEF Needed, Needs
<1>2. Closed' <=> Closed
  BY DEF Closed, Needs
<1>3. IsDepthFirst(mRequiredDataSets)' <=> IsDepthFirst(mRequiredDataSets)
  BY DEF IsDepthFirst, Needs
<1>4. Definitions' /\ selected' \in Games
  BY DEF GameInv, Definitions
<1>0. UntilFails(WholePaths, unopened)' = UntilFails(WholePaths, unopened)
  BY DEF UntilFails, WholePaths, activeVars
<1>5. RunsWholeGame'
  <2> SUFFICES ASSUME engineState' = "eRunSelectedGame", Closed'
               PROVE  /\ Range(mRequiredDataSets') = Needed'
                      /\ mRequiredDataSets'[1] = selected'
                      /\ IsDepthFirst(mRequiredDataSets)'
                      /\ mActiveDataPaths' = UntilFails(WholePaths, unopened)'
    BY DEF RunsWholeGame, Closed
  <2>1. engineState = "eRunSelectedGame" /\ Closed
    BY <1>2
  <2>2. /\ Range(mRequiredDataSets) = Needed
        /\ mRequiredDataSets[1] = selected
        /\ IsDepthFirst(mRequiredDataSets)
        /\ mActiveDataPaths = UntilFails(WholePaths, unopened)
    BY <2>1 DEF GameInv, RunsWholeGame, Closed
  <2> QED
    BY <1>0, <1>1, <1>3, <2>2 DEF activeVars
<1> QED
  BY <1>2, <1>4, <1>5

\* No game runs: whatever else a step does is not what RunsWholeGame is about.
LEMMA NotRunning ==
  ASSUME engineState' # "eRunSelectedGame" PROVE RunsWholeGame'
BY DEF RunsWholeGame

LEMMA GameInvStep == GameInv /\ PathsInv /\ DirsInv /\ [EngineNext]_engineVars => GameInv'
<1> SUFFICES ASSUME GameInv, PathsInv, DirsInv, [EngineNext]_engineVars PROVE GameInv'
  OBVIOUS
<1>1. CASE WorkerTakesJob
  <2>1. UNCHANGED <<mRequiredDataSetsOf, mPaths, selected, mRequiredDataSets, activeVars,
                    selState, engineState>>
    BY <1>1 DEF WorkerTakesJob, selectionVars, definitionVars, pathVars, requiredVars, activeVars
  <2>2. RunsWholeGame' /\ Definitions' /\ (selected \in Games)' /\ (Closed' <=> Closed)
    BY <2>1, GameUnchanged
  <2>3. initJob # "delivered"
    BY <1>1 DEF WorkerTakesJob
  <2> QED
    BY <2>1, <2>2, <2>3 DEF GameInv
<1>2. CASE InitResources
  <2>1. /\ UNCHANGED <<selected, mRequiredDataSets, selState, engineState>>
        /\ mRequiredDataSetsOf' \in Graphs /\ initJob # "delivered"
    BY <1>2 DEF InitResources, requiredVars
  <2>2. Definitions'
    BY <2>1, GameSelectionAssumption DEF Definitions
  <2>3. engineState \notin {"eSelectGame", "eRunSelectedGame"} /\ mRequiredDataSets = <<>> /\ selState = "eSelectGame"
    BY <2>1 DEF GameInv
  <2>4. RunsWholeGame'
    BY <2>1, <2>3, NotRunning
  <2>5. selected' \in Games
    BY <2>1 DEF GameInv
  <2> QED
    BY <2>1, <2>2, <2>3, <2>4, <2>5 DEF GameInv
<1>3. ASSUME NEW quit \in BOOLEAN, FrameStep(quit) PROVE GameInv'
  <2>1. CASE FramePreInit
    <3>1. UNCHANGED <<mRequiredDataSetsOf, mPaths, selected, mRequiredDataSets, activeVars, selState>>
      BY <2>1 DEF FramePreInit, selectionVars, definitionVars, pathVars, requiredVars, activeVars
    <3>2. engineState' = "eEngineInit" /\ engineState = "ePreEngineInit"
      BY <2>1 DEF FramePreInit, Frame, StateToUpdate
    <3>3. RunsWholeGame' /\ Definitions' /\ (selected \in Games)' /\ (Closed' <=> Closed)
      BY <3>1, <3>2, GameUnchanged
    <3>4. initJob' # "delivered"
      BY <2>1 DEF FramePreInit, Frame, StateToUpdate
    <3>5. mRequiredDataSets = <<>> /\ selState = "eSelectGame"
      BY <3>2 DEF GameInv
    <3> QED
      BY <3>1, <3>2, <3>3, <3>4, <3>5 DEF GameInv
  <2>2. CASE FrameWorld
    <3>1. UNCHANGED <<mRequiredDataSetsOf, mPaths, selected, mRequiredDataSets, activeVars, selState>>
      BY <2>2 DEF FrameWorld, selectionVars, definitionVars, pathVars, requiredVars, activeVars
    <3>2. engineState = "eRunSelectedGame" /\ engineState' \in {"eRunSelectedGame", "eQuit"}
      BY <2>2 DEF FrameWorld, Frame, StateToUpdate
    <3>3. initJob = "delivered" /\ initJob' = "delivered"
      BY <2>2, <3>2 DEF FrameWorld, Frame, GameInv
    <3>4. RunsWholeGame' /\ Definitions' /\ (selected \in Games)' /\ (Closed' <=> Closed)
      BY <3>1, <3>2, GameUnchanged
    <3> QED
      BY <3>2, <3>3, <3>4 DEF GameInv
  <2>3. CASE \E state \in {"eEngineInit", "eQuit"} : FrameIdle(quit, state)
    <3>1. PICK state \in {"eEngineInit", "eQuit"} : FrameIdle(quit, state)
      BY <2>3
    <3>2. UNCHANGED <<mRequiredDataSetsOf, mPaths, selected, mRequiredDataSets, activeVars, selState>>
      BY <3>1 DEF FrameIdle, selectionVars, definitionVars, pathVars, requiredVars, activeVars
    <3>3. engineState' = state /\ initJob # "executed" /\ initJob' = initJob
      BY <3>1 DEF FrameIdle, Frame, StateToUpdate
    <3>4. RunsWholeGame' /\ Definitions' /\ (selected \in Games)' /\ (Closed' <=> Closed)
      BY <3>2, <3>3, GameUnchanged
    <3>5. initJob # "delivered" => mRequiredDataSets = <<>> /\ selState = "eSelectGame"
      BY DEF GameInv
    <3> QED
      BY <3>2, <3>3, <3>4, <3>5 DEF GameInv
  <2>4. CASE FrameSelect(quit)
    <3>1. initJob' = "delivered"
      <4>1. initJob = "executed" \/ engineState = "eSelectGame"
        BY <2>4 DEF FrameSelect, Frame, StateToUpdate
      <4>2. initJob = "executed" \/ initJob = "delivered"
        BY <4>1 DEF GameInv
      <4>3. initJob' = IF initJob = "executed" THEN "delivered" ELSE initJob
        BY <2>4 DEF FrameSelect, Frame
      <4> QED
        BY <4>2, <4>3
    \* What was required, as the screen is updated.
    <3>2. Closed /\ selState = "eSelectGame" => mRequiredDataSets = <<>>
      <4>1. initJob = "executed" \/ engineState = "eSelectGame"
        BY <2>4 DEF FrameSelect, Frame, StateToUpdate
      <4> QED
        BY <4>1 DEF GameInv
    <3>3. Definitions /\ selected \in Games
      BY DEF GameInv
    <3>4. mRequiredDataSetsOf' = mRequiredDataSetsOf
      BY <2>4 DEF FrameSelect, SelectGame, StartLacking, StartFinds, StartRuns, GivePath, Back,
                  selectionVars, definitionVars
    <3>5. Definitions' /\ (Closed' <=> Closed)
      BY <3>3, <3>4 DEF Definitions, Closed, Needs
    <3>6. ASSUME engineState' \in {"eSelectGame", "eQuit"}, selected' \in Games,
                 Closed /\ selState' = "eSelectGame" => mRequiredDataSets' = <<>>
          PROVE  GameInv'
      BY <3>1, <3>5, <3>6, NotRunning DEF GameInv
    <3>7. ASSUME UNCHANGED selectionVars, engineState' \in {"eSelectGame", "eQuit"} PROVE GameInv'
      BY <3>2, <3>3, <3>6, <3>7 DEF selectionVars, requiredVars
    <3>8. ASSUME NEW g, SelectGame(g), engineState' = "eSelectGame" PROVE GameInv'
      BY <3>2, <3>6, <3>8 DEF SelectGame, Visible, requiredVars
    <3>9. CASE StartLacking /\ engineState' = "eSelectGame"
      <4>1. ~Closed
        BY <3>2, <3>3, <3>9, WalkFinds DEF StartLacking
      <4>2. selected' = selected
        BY <3>9 DEF StartLacking
      <4> QED
        BY <3>3, <3>6, <3>9, <4>1, <4>2
    <3>10. CASE StartFinds /\ engineState' = "eSelectGame"
      BY <3>3, <3>6, <3>10 DEF StartFinds
    <3>11. ASSUME NEW n, NEW d, GivePath(n, d), engineState' = "eSelectGame" PROVE GameInv'
      BY <3>3, <3>6, <3>11 DEF GivePath
    <3>12. CASE Back /\ engineState' = "eSelectGame"
      BY <3>3, <3>6, <3>12 DEF Back
    <3>13. CASE StartRuns /\ engineState' = "eRunSelectedGame"
      <4>1. UNCHANGED <<mRequiredDataSetsOf, mPaths, selState, selected>>
        BY <3>13 DEF StartRuns, definitionVars
      <4>2. Needed' = Needed
        BY <4>1 DEF Needed, Needs
      <4>3. RunsWholeGame'
        <5> SUFFICES ASSUME Closed'
                     PROVE  /\ Range(mRequiredDataSets') = Needed'
                            /\ mRequiredDataSets'[1] = selected'
                            /\ IsDepthFirst(mRequiredDataSets)'
                            /\ mActiveDataPaths' = UntilFails(WholePaths, unopened)'
          BY DEF RunsWholeGame, Closed
        <5>1. Closed
          BY <3>5
        <5>2. selState = "eSelectGame"
          BY <3>13 DEF StartRuns, Started
        <5>3. mRequiredDataSets = <<>>
          BY <3>2, <5>1, <5>2
        <5>4. /\ Range(mRequiredDataSets') = Needed
              /\ mRequiredDataSets'[1] = selected
              /\ IsDepthFirst(mRequiredDataSets')
              /\ mActiveDataPaths' = UntilFails(WholePaths, unopened)'
          BY <3>3, <3>13, <5>1, <5>3, StartedWhole
        <5>5. IsDepthFirst(mRequiredDataSets)'
          BY <4>1, <5>4 DEF IsDepthFirst, Needs
        <5> QED
          BY <4>1, <4>2, <5>4, <5>5
      <4> QED
        BY <3>1, <3>3, <3>5, <3>13, <4>1, <4>3 DEF GameInv
    <3> QED
      BY <2>4, <3>7, <3>8, <3>9, <3>10, <3>11, <3>12, <3>13 DEF FrameSelect
  <2> QED
    BY <1>3, <2>1, <2>2, <2>3, <2>4 DEF FrameStep
<1>4. CASE Restart
  <2>1. /\ engineState' = "ePreEngineInit" /\ selState' = "eSelectGame" /\ mRequiredDataSets' = <<>>
        /\ mRequiredDataSetsOf' = [g \in Games |-> <<>>] /\ selected' \in Visible
    BY <1>4 DEF Restart
  <2>2. Definitions'
    BY <2>1 DEF Definitions
  <2>3. selected' \in Games
    BY <2>1 DEF Visible
  <2> QED
    BY <2>1, <2>2, <2>3, NotRunning DEF GameInv
<1>5. CASE UNCHANGED engineVars
  <2>1. UNCHANGED <<mRequiredDataSetsOf, mPaths, selected, mRequiredDataSets, activeVars,
                    selState, engineState, initJob>>
    BY <1>5 DEF engineVars, selectionVars, definitionVars, pathVars, requiredVars, activeVars
  <2>2. RunsWholeGame' /\ Definitions' /\ (selected \in Games)' /\ (Closed' <=> Closed)
    BY <2>1, GameUnchanged
  <2> QED
    BY <2>1, <2>2 DEF GameInv
<1> QED
  BY <1>1, <1>2, <1>3, <1>4, <1>5 DEF EngineNext

(* Whatever game definitions there are and whatever they need of each other, *)
(* also in circles, and whatever was started, given and taken back: the game *)
(* that is run has the directory of every data set it needs, in the order of *)
(* a depth first walk (GameDefinition::GetDependencies).                     *)
THEOREM WholeGameRuns == EngineSpec => []RunsWholeGame
<1>1. GameInv => RunsWholeGame
  BY DEF GameInv
<1> QED
  BY <1>1, GameInvInit, GameInvStep, PathsInvInit, PathsInvStep, DirsInvInit, DirsInvStep, PTL
     DEF EngineSpec

-----------------------------------------------------------------------------
(* The fields of a movie *)

Fields == {"name", "next", "atEnd", "first", "mFrameCounter", "mAudioBuffer",
           "mConsumedAudioBytes", "shown", "mPlaying"}

IsMovie(m) == m = [f \in Fields |-> m[f]]

LEMMA OpenedIsMovie == ASSUME NEW name PROVE IsMovie(Opened(name))
  BY DEF IsMovie, Opened, Fields

LEMMA FilledIsMovie == ASSUME NEW m, IsMovie(m) PROVE IsMovie(FillBuffers(m))
<1>1. ASSUME NEW n PROVE IsMovie(After(m, n))
  BY DEF IsMovie, After, Fields
<1> QED
  BY <1>1 DEF FillBuffers

LEMMA ShownIsMovie == ASSUME NEW m, IsMovie(m) PROVE IsMovie(Show(PopFrames(m)))
<1>1. IsMovie(PopFrames(m))
  BY DEF IsMovie, PopFrames, Fields
<1>2. ASSUME NEW k, IsMovie(k) PROVE IsMovie(Show(k))
  BY <1>2 DEF IsMovie, Show, Fields
<1> QED
  BY <1>1, <1>2

LEMMA RenderedIsMovie == ASSUME NEW m, IsMovie(m) PROVE IsMovie(OnRenderFrame(m))
<1> DEFINE filled == FillBuffers(m)
           shown == Show(PopFrames(filled))
           rendered == FillBuffers(shown)
<1>1. IsMovie(filled) /\ IsMovie(shown) /\ IsMovie(rendered)
  BY FilledIsMovie, ShownIsMovie
<1>2. OnRenderFrame(m) \in {m, rendered}
  BY DEF OnRenderFrame
<1> QED
  BY <1>1, <1>2

\* A movie that is over stays so, however much sound is asked for.
LEMMA ConsumedIsMovie ==
  ASSUME NEW m, IsMovie(m), NEW len \in CallbackLens
  PROVE  IsMovie(Consumed(m, len)) /\ (IsEnd(m) => IsEnd(Consumed(m, len)))
<1>1. len \in Nat \ {0}
  BY FmvAssumption
<1>2. IsMovie(Consumed(m, len))
  BY DEF IsMovie, Consumed, Fields
<1>3. /\ Consumed(m, len).name = m.name /\ Consumed(m, len).next = m.next
      /\ Consumed(m, len).atEnd = m.atEnd
      /\ Consumed(m, len).mAudioBuffer = m.mAudioBuffer - Smaller(len, m.mAudioBuffer)
  BY DEF IsMovie, Consumed, Fields
<1>4. ASSUME m.mAudioBuffer = 0 PROVE Consumed(m, len).mAudioBuffer = 0
  <2>1. Smaller(len, 0) = 0
    BY <1>1 DEF Smaller
  <2> QED
    BY <1>3, <1>4, <2>1
<1> QED
  BY <1>2, <1>3, <1>4 DEF IsEnd, EndOfStream, Packets

-----------------------------------------------------------------------------
(* The player of the audio thread *)

\* While a movie is being replaced or destroyed nothing points to it, and the
\* main thread asks IsPlaying again only while the movie is on.
PlayerInv ==
  /\ IsMovie(movie)
  /\ main \in {"locating", "starting", "destroying"} => mExclusiveAudio = 0
  /\ main = "updated" => world = "movie"
  /\ mExclusiveAudio # 0 => mExclusiveAudio = mFmv
  /\ world = "game" /\ main = "frame" /\ mFmv # 0 => IsEnd(movie)

LEMMA PlayerStep == PlayerInv /\ [FmvNext]_fmvVars => PlayerInv'
<1> SUFFICES ASSUME PlayerInv, [FmvNext]_fmvVars PROVE PlayerInv'
  OBVIOUS
<1> USE DEF At
<1>1. ASSUME NEW name, PlaySame(name) PROVE PlayerInv'
  BY <1>1 DEF PlayerInv, PlaySame
<1>2. ASSUME NEW name, PlayOther(name) PROVE PlayerInv'
  <2>1. IsMovie(movie')
    BY <1>2 DEF PlayerInv, PlayOther, IsMovie, Fields
  <2> QED
    BY <1>2, <2>1 DEF PlayerInv, PlayOther
<1>3. CASE Located
  <2>1. IsMovie(movie')
    BY <1>3, OpenedIsMovie DEF Located
  <2> QED
    BY <1>3, <2>1 DEF PlayerInv, Located
<1>4. CASE WasNotFound
  <2>1. IsMovie(movie')
    BY <1>4, OpenedIsMovie DEF WasNotFound
  <2> QED
    BY <1>4, <2>1 DEF PlayerInv, WasNotFound
<1>5. CASE Start
  <2>1. IsMovie(movie')
    BY <1>5 DEF PlayerInv, Start, IsMovie, Fields
  <2> QED
    BY <1>5, <2>1 DEF PlayerInv, Start
<1>6. CASE Update
  BY <1>6 DEF PlayerInv, Update
<1>7. CASE UpdateGoesOn
  BY <1>7 DEF PlayerInv, UpdateGoesOn
<1>8. CASE UpdateKeyPressed
  BY <1>8 DEF PlayerInv, UpdateKeyPressed
<1>9. CASE UpdateEnds
  BY <1>9 DEF PlayerInv, UpdateEnds, IsPlaying
<1>10. CASE Stop
  <2>1. IsMovie(movie')
    BY <1>10 DEF PlayerInv, Stop, IsMovie, Fields
  <2> QED
    BY <1>10, <2>1 DEF PlayerInv, Stop
<1>11. CASE DestroyFmv
  <2>1. IsMovie(movie')
    BY <1>11, OpenedIsMovie DEF DestroyFmv
  <2> QED
    BY <1>11, <2>1 DEF PlayerInv, DestroyFmv
<1>12. CASE Render
  <2>1. IsMovie(movie')
    BY <1>12, RenderedIsMovie DEF PlayerInv, Render
  <2> QED
    BY <1>12, <2>1 DEF PlayerInv, Render
<1>13. CASE End
  BY <1>13 DEF PlayerInv, End
<1>14. CASE AudioTest \/ AudioCall \/ AudioPlayDestroyed
  BY <1>14 DEF PlayerInv, AudioTest, AudioCall, AudioPlayDestroyed
<1>15. ASSUME NEW len \in CallbackLens, AudioPlay(len) PROVE PlayerInv'
  <2>1. IsMovie(movie') /\ (IsEnd(movie) => IsEnd(movie'))
    BY <1>15, ConsumedIsMovie DEF PlayerInv, AudioPlay
  <2> QED
    BY <1>15, <2>1 DEF PlayerInv, AudioPlay
<1>16. CASE UNCHANGED fmvVars
  BY <1>16 DEF PlayerInv, fmvVars
<1> QED
  BY <1>1, <1>2, <1>3, <1>4, <1>5, <1>6, <1>7, <1>8, <1>9, <1>10, <1>11, <1>12, <1>13, <1>14,
     <1>15, <1>16 DEF FmvNext, UpdateSteps, PlaySteps, AudioSteps, Terminated

\* What mutes the game is never a movie that was destroyed, and back in the
\* game it is at most one that is over (Fmv::Play, Stop, PlayFmvState::Update).
THEOREM ExclusiveAlive == FmvSpec => []ExclusiveIsAlive
<1>1. FmvInit => PlayerInv
  BY OpenedIsMovie DEF FmvInit, PlayerInv
<1>2. PlayerInv => ExclusiveIsAlive
  BY DEF PlayerInv, ExclusiveIsAlive
<1> QED
  BY <1>1, <1>2, PlayerStep, PTL DEF FmvSpec

-----------------------------------------------------------------------------
(* The buffers of a movie *)

\* The buffers hold the packets before next; the first frame is popped only
\* when there is another one, and when the sound has come to it.
Buffered(m) ==
  /\ m.name \in Movies
  /\ m.next \in 1..(Len(Packets(m)) + 1)
  /\ m.first \in Nat /\ m.mFrameCounter \in Nat
  /\ m.mAudioBuffer \in Nat /\ m.mConsumedAudioBytes \in Nat
  /\ m.first = 0 \/ m.first < m.mFrameCounter
  /\ m.first <= VideoFrameIndex(m)
  /\ m.shown \in Int
  /\ m.shown >= 0 => m.shown <= m.first /\ m.first < m.mFrameCounter

LEMMA Division == ASSUME NEW k \in Nat PROVE k \div BytesPerFrame \in Nat
<1>1. BytesPerFrame \in Nat \ {0}
  BY FmvAssumption, Zenon
<1> QED
  BY <1>1

LEMMA ElementOf == ASSUME NEW S, NEW s \in Seq(S), NEW i \in 1..Len(s) PROVE s[i] \in S
OBVIOUS

LEMMA StreamOf ==
  ASSUME NEW name \in Movies
  PROVE  /\ Stream[name] \in Seq([video : 0..1, audio : Nat])
         /\ Len(Stream[name]) \in Nat /\ DOMAIN Stream[name] = 1..Len(Stream[name])
         /\ \A i \in 1..Len(Stream[name]) : Stream[name][i].audio \in Nat
<1>1. Stream \in [Movies -> Seq([video : 0..1, audio : Nat])]
  BY FmvAssumption, Zenon
<1>2. Stream[name] \in Seq([video : 0..1, audio : Nat])
  BY <1>1
<1>3. Len(Stream[name]) \in Nat /\ DOMAIN Stream[name] = 1..Len(Stream[name])
  BY <1>2
<1>4. ASSUME NEW i \in 1..Len(Stream[name]) PROVE Stream[name][i].audio \in Nat
  <2>1. Stream[name][i] \in [video : 0..1, audio : Nat]
    BY <1>2, ElementOf, Zenon
  <2> QED
    BY <2>1
<1> QED
  BY <1>2, <1>3, <1>4

LEMMA OpenedBuffered == ASSUME NEW name \in Movies PROVE Buffered(Opened(name))
<1>1. Len(Stream[name]) \in Nat
  BY StreamOf
<1>2. BytesPerFrame \in Nat \ {0}
  BY FmvAssumption, Zenon
<1>3. 0 \div BytesPerFrame = 0
  BY <1>2
<1> QED
  BY <1>1, <1>3 DEF Buffered, Opened, Packets, VideoFrameIndex

\* Reading packets adds frames at the end and sound.
LEMMA AfterBuffered ==
  ASSUME NEW m, IsMovie(m), Buffered(m), NEW n \in Nat
  PROVE  IsMovie(After(m, n)) /\ Buffered(After(m, n))
<1> DEFINE last == Smaller(m.next + n - 1, Len(Packets(m)))
           frames == Cardinality({i \in m.next..last : Packets(m)[i].video = 1})
           sound == Sound(m.name, last) - Sound(m.name, m.next - 1)
           a == After(m, n)
<1>1. IsMovie(a)
  BY DEF IsMovie, After, Fields
<1>2. /\ a.name = m.name /\ a.next = last + 1 /\ a.first = m.first /\ a.shown = m.shown
      /\ a.mFrameCounter = m.mFrameCounter + frames
      /\ a.mAudioBuffer = m.mAudioBuffer + sound
      /\ a.mConsumedAudioBytes = m.mConsumedAudioBytes
  BY DEF IsMovie, After, Fields
<1>3. /\ Len(Packets(m)) \in Nat /\ DOMAIN Stream[m.name] = 1..Len(Packets(m))
      /\ \A i \in 1..Len(Packets(m)) : Stream[m.name][i].audio \in Nat
  BY StreamOf DEF Buffered, Packets
<1>4. last \in (m.next - 1)..Len(Packets(m))
  <2>1. m.next \in 1..Len(Packets(m)) + 1
    BY <1>3 DEF Buffered
  <2>2. PICK l \in Nat : l = Len(Packets(m))
    BY <1>3
  <2>3. PICK k \in 1..l + 1 : k = m.next
    BY <2>1, <2>2
  <2>4. Smaller(k + n - 1, l) \in (k - 1)..l
    BY DEF Smaller
  <2>5. last = Smaller(k + n - 1, l)
    BY <2>2, <2>3
  <2> QED
    BY <2>2, <2>3, <2>4, <2>5
<1> HIDE DEF last, a
<1>0. m.next \in Int /\ m.next - 1 \in Nat /\ last \in Nat /\ m.name \in Movies
  BY <1>3, <1>4 DEF Buffered
<1>5. frames \in Nat
  <2>1. IsFiniteSet(m.next..last)
    BY <1>0, FS_Interval
  <2>2. {i \in m.next..last : Packets(m)[i].video = 1} \subseteq m.next..last
    OBVIOUS
  <2> QED
    BY <2>1, <2>2, FS_Subset, FS_CardinalityType
<1>6. sound \in Nat
  <2>1. CASE last = m.next - 1
    <3>1. Sound(m.name, last) \in Nat
      BY <1>0, <1>3, <1>4 DEF Sound
    <3> QED
      BY <2>1, <3>1
  <2>2. CASE m.next = 1 /\ last # 0
    <3>1. Sound(m.name, last) = Stream[m.name][last].audio /\ Sound(m.name, m.next - 1) = 0
      BY <1>0, <2>2 DEF Sound
    <3>2. last \in 1..Len(Packets(m))
      BY <1>0, <1>3, <1>4, <2>2
    <3> QED
      BY <1>3, <3>1, <3>2
  <2>3. CASE m.next > 1 /\ last > m.next - 1
    <3>1. /\ m.name \in Movies /\ m.next - 1 \in DOMAIN Stream[m.name] /\ last \in DOMAIN Stream[m.name]
          /\ m.next - 1 < last
      BY <1>3, <1>4, <2>3 DEF Buffered
    <3>2. Stream[m.name][m.next - 1].audio <= Stream[m.name][last].audio
      BY <3>1, FmvAssumption, Zenon
    <3>3. /\ Sound(m.name, last) = Stream[m.name][last].audio
          /\ Sound(m.name, m.next - 1) = Stream[m.name][m.next - 1].audio
      BY <1>0, <2>3 DEF Sound
    <3>4. Stream[m.name][m.next - 1].audio \in Nat /\ Stream[m.name][last].audio \in Nat
      BY <1>3, <3>1
    <3> QED
      BY <3>2, <3>3, <3>4
  <2> QED
    BY <1>3, <1>4, <2>1, <2>2, <2>3 DEF Buffered
<1> HIDE DEF frames, sound
<1>7. Buffered(a)
  <2>1. Packets(a) = Packets(m) /\ VideoFrameIndex(a) = VideoFrameIndex(m)
    BY <1>2 DEF Packets, VideoFrameIndex
  <2>2. a.next \in 1..(Len(Packets(a)) + 1)
    BY <1>0, <1>2, <1>3, <1>4, <2>1
  <2>3. a.mFrameCounter \in Nat /\ a.mFrameCounter >= m.mFrameCounter /\ a.mAudioBuffer \in Nat
    BY <1>2, <1>5, <1>6 DEF Buffered
  <2> QED
    BY <1>2, <2>1, <2>2, <2>3 DEF Buffered
<1> QED
  BY <1>1, <1>7 DEF a

\* The loop of FillBuffers comes to its end, at the end of the stream if not
\* before.
LEMMA FilledBuffered ==
  ASSUME NEW m, IsMovie(m), Buffered(m)
  PROVE  IsMovie(FillBuffers(m)) /\ Buffered(FillBuffers(m))
<1> DEFINE len == Len(Packets(m))
           S == {n \in 0..(len + 1) : Enough(m, n)}
           P(n) == Enough(m, n) /\ \A k \in 0..(n - 1) : ~Enough(m, k)
<1>1. len \in Nat /\ m.next \in 1..(len + 1)
  BY StreamOf DEF Buffered, Packets
<1>2. Enough(m, len + 1)
  <2>1. m.next + (len + 1) - 1 > len /\ ~(m.next + (len + 1) - 1 < len)
    BY <1>1
  <2>2. Smaller(m.next + (len + 1) - 1, Len(Packets(m))) = len
    BY <2>1 DEF Smaller
  <2>3. /\ After(m, len + 1).name = m.name
        /\ After(m, len + 1).next = len + 1
        /\ After(m, len + 1).atEnd = (m.atEnd \/ len < m.next + (len + 1) - 1)
    BY <2>2 DEF IsMovie, After, Fields
  <2>4. Len(Packets(After(m, len + 1))) = len
    BY <2>3 DEF Packets
  <2>5. len < m.next + (len + 1) - 1
    BY <1>1
  <2>6. After(m, len + 1).atEnd /\ After(m, len + 1).next > Len(Packets(After(m, len + 1)))
    <3> HIDE DEF len
    <3>1. After(m, len + 1).atEnd
      BY <2>3, <2>5, Zenon
    <3>2. After(m, len + 1).next > Len(Packets(After(m, len + 1)))
      BY <1>1, <2>3, <2>4
    <3> QED
      BY <3>1, <3>2
  <2>7. EndOfStream(After(m, len + 1))
    BY <2>6 DEF EndOfStream
  <2> QED
    <3>1. ~NeedBuffer(After(m, len + 1))
      BY <2>7, Zenon DEF NeedBuffer
    <3>2. m.next + (len + 1) - 1 >= Len(Packets(m))
      BY <1>1, <2>1
    <3> QED
      BY <3>1, <3>2, Zenon DEF Enough
<1>3. PICK n \in S : \A k \in S : ~(<<k, n>> \in OpToRel(<, Nat))
  <2>1. S \subseteq Nat /\ S # {}
    BY <1>1, <1>2
  <2> QED
    BY <2>1, NatLessThanWellFounded, WFMin, Zenon
<1>4. P(n)
  <2>1. n \in 0..(len + 1) /\ Enough(m, n)
    BY <1>3
  <2>2. ASSUME NEW k \in 0..(n - 1), Enough(m, k) PROVE FALSE
    <3>1. k \in S /\ k \in Nat /\ n \in Nat /\ k < n
      BY <1>1, <2>1, <2>2
    <3>2. <<k, n>> \in OpToRel(<, Nat)
      BY <3>1 DEF OpToRel
    <3> QED
      BY <1>3, <3>1, <3>2
  <2> QED
    BY <2>1, <2>2
<1>5. (CHOOSE i \in 0..(len + 1) : P(i)) \in 0..(len + 1)
  BY <1>3, <1>4
<1>6. FillBuffers(m) = After(m, CHOOSE i \in 0..(len + 1) : P(i))
  BY DEF FillBuffers
<1>7. (CHOOSE i \in 0..(len + 1) : P(i)) \in Nat
  BY <1>1, <1>5
<1> QED
  BY <1>6, <1>7, AfterBuffered

LEMMA ShownBuffered ==
  ASSUME NEW m, IsMovie(m), Buffered(m)
  PROVE  IsMovie(Show(PopFrames(m))) /\ Buffered(Show(PopFrames(m)))
<1> DEFINE p == PopFrames(m)
<1>1. VideoFrameIndex(m) \in Nat
  BY Division DEF Buffered, VideoFrameIndex
<1>2. IsMovie(p)
  BY DEF IsMovie, PopFrames, Fields
<1>3. Buffered(p)
  <2>1. CASE m.first > m.mFrameCounter - 1 \/ m.first >= VideoFrameIndex(m)
    BY <2>1 DEF PopFrames
  <2>2. CASE ~(m.first > m.mFrameCounter - 1 \/ m.first >= VideoFrameIndex(m))
    <3>1. p = [m EXCEPT !.first = Smaller(VideoFrameIndex(m), m.mFrameCounter - 1)]
      BY <2>2 DEF PopFrames
    <3>2. /\ p.name = m.name /\ p.next = m.next /\ p.mFrameCounter = m.mFrameCounter
          /\ p.mAudioBuffer = m.mAudioBuffer /\ p.mConsumedAudioBytes = m.mConsumedAudioBytes
          /\ p.shown = m.shown
          /\ p.first = Smaller(VideoFrameIndex(m), m.mFrameCounter - 1)
      BY <3>1 DEF IsMovie, Fields
    <3>3. /\ p.first \in Nat /\ p.first < p.mFrameCounter /\ m.first <= p.first
          /\ p.first <= VideoFrameIndex(m)
      BY <1>1, <2>2, <3>2 DEF Smaller, Buffered
    <3> HIDE DEF p
    <3> QED
      BY <1>1, <3>2, <3>3 DEF Buffered, Packets, VideoFrameIndex
  <2> QED
    BY <2>1, <2>2
<1> HIDE DEF p
<1>4. IsMovie(Show(p))
  BY <1>2 DEF IsMovie, Show, Fields
<1>5. Buffered(Show(p))
  <2>1. CASE ~(p.first < p.mFrameCounter)
    BY <1>3, <2>1 DEF Show
  <2>2. CASE p.first < p.mFrameCounter
    <3>1. Show(p) = [p EXCEPT !.shown = p.first]
      BY <2>2 DEF Show
    <3>2. /\ Show(p).name = p.name /\ Show(p).next = p.next /\ Show(p).first = p.first
          /\ Show(p).mFrameCounter = p.mFrameCounter /\ Show(p).mAudioBuffer = p.mAudioBuffer
          /\ Show(p).mConsumedAudioBytes = p.mConsumedAudioBytes /\ Show(p).shown = p.first
      BY <1>2, <3>1 DEF IsMovie, Fields
    <3> QED
      BY <1>3, <2>2, <3>2 DEF Buffered, Packets, VideoFrameIndex
  <2> QED
    BY <2>1, <2>2
<1> QED
  BY <1>4, <1>5 DEF p

LEMMA RenderedBuffered ==
  ASSUME NEW m, IsMovie(m), Buffered(m) PROVE Buffered(OnRenderFrame(m))
<1> DEFINE filled == FillBuffers(m)
           shown == Show(PopFrames(filled))
           rendered == FillBuffers(shown)
<1>1. IsMovie(filled) /\ Buffered(filled)
  BY FilledBuffered
<1>2. IsMovie(shown) /\ Buffered(shown)
  BY <1>1, ShownBuffered
<1>3. Buffered(rendered)
  BY <1>2, FilledBuffered
<1>4. OnRenderFrame(m) \in {m, rendered}
  BY DEF OnRenderFrame
<1> QED
  BY <1>3, <1>4

LEMMA ConsumedBuffered ==
  ASSUME NEW m, IsMovie(m), Buffered(m), NEW len \in CallbackLens
  PROVE  Buffered(Consumed(m, len))
<1> DEFINE take == Smaller(len, m.mAudioBuffer)
           c == Consumed(m, len)
<1>1. /\ c.name = m.name /\ c.next = m.next /\ c.first = m.first
      /\ c.mFrameCounter = m.mFrameCounter /\ c.shown = m.shown
      /\ c.mAudioBuffer = m.mAudioBuffer - take
      /\ c.mConsumedAudioBytes = m.mConsumedAudioBytes + take
  BY DEF IsMovie, Consumed, Fields
<1>2. take \in Nat /\ m.mAudioBuffer - take \in Nat
  <2>1. len \in Nat
    BY FmvAssumption
  <2> QED
    BY <2>1 DEF Smaller, Buffered
<1> HIDE DEF take, c
<1>0. m.mConsumedAudioBytes \in Nat /\ m.mConsumedAudioBytes + take \in Nat
  BY <1>2 DEF Buffered
<1>3. m.mConsumedAudioBytes \div BytesPerFrame <= (m.mConsumedAudioBytes + take) \div BytesPerFrame
  <2>1. BytesPerFrame \in Nat \ {0}
    BY FmvAssumption, Zenon
  <2> QED
    BY <1>0, <1>2, <2>1
<1>4. /\ m.mConsumedAudioBytes \div BytesPerFrame \in Nat
      /\ (m.mConsumedAudioBytes + take) \div BytesPerFrame \in Nat
  BY <1>0, Division
<1>5. Buffered(c)
  BY <1>1, <1>2, <1>3, <1>4 DEF Buffered, Packets, VideoFrameIndex
<1> QED
  BY <1>5 DEF c

\* Starting and stopping leave the buffers alone.
LEMMA PlayingBuffered ==
  ASSUME NEW m, IsMovie(m), Buffered(m), NEW b PROVE Buffered([m EXCEPT !.mPlaying = b])
<1> DEFINE c == [m EXCEPT !.mPlaying = b]
<1>1. /\ c.name = m.name /\ c.next = m.next /\ c.first = m.first
      /\ c.mFrameCounter = m.mFrameCounter /\ c.shown = m.shown
      /\ c.mAudioBuffer = m.mAudioBuffer /\ c.mConsumedAudioBytes = m.mConsumedAudioBytes
  BY DEF IsMovie, Fields
<1> HIDE DEF c
<1>2. Buffered(c)
  BY <1>1 DEF Buffered, Packets, VideoFrameIndex
<1> QED
  BY <1>2 DEF c

-----------------------------------------------------------------------------
(* The picture follows the sound *)

BufferInv == PlayerInv /\ (mFmv # 0 => Buffered(movie))

LEMMA BufferStep == BufferInv /\ [FmvNext]_fmvVars => BufferInv'
<1> SUFFICES ASSUME BufferInv, [FmvNext]_fmvVars PROVE BufferInv'
  OBVIOUS
<1>0. PlayerInv' /\ IsMovie(movie) /\ (mFmv # 0 => Buffered(movie))
  BY PlayerStep DEF BufferInv, PlayerInv
<1> SUFFICES mFmv' # 0 => Buffered(movie')
  BY <1>0 DEF BufferInv
<1>1. ASSUME NEW name, PlaySame(name) PROVE mFmv' # 0 => Buffered(movie')
  BY <1>0, <1>1 DEF PlaySame
<1>2. CASE Start \/ Stop \/ \E name : PlayOther(name)
  BY <1>0, <1>2, PlayingBuffered DEF Start, Stop, PlayOther
<1>3. CASE Located
  BY <1>3, OpenedBuffered DEF Located
<1>4. CASE WasNotFound \/ DestroyFmv
  BY <1>4 DEF WasNotFound, DestroyFmv
<1>5. CASE Render
  BY <1>0, <1>5, RenderedBuffered DEF Render
<1>6. ASSUME NEW len \in CallbackLens, AudioPlay(len) PROVE mFmv' # 0 => Buffered(movie')
  BY <1>0, <1>6, ConsumedBuffered DEF AudioPlay
<1>7. CASE Update \/ UpdateGoesOn \/ UpdateKeyPressed \/ UpdateEnds \/ End
  BY <1>0, <1>7 DEF Update, UpdateGoesOn, UpdateKeyPressed, UpdateEnds, End
<1>8. CASE AudioTest \/ AudioCall \/ AudioPlayDestroyed \/ UNCHANGED fmvVars
  BY <1>0, <1>8 DEF AudioTest, AudioCall, AudioPlayDestroyed, fmvVars
<1> QED
  BY <1>1, <1>2, <1>3, <1>4, <1>5, <1>6, <1>7, <1>8
     DEF FmvNext, UpdateSteps, PlaySteps, AudioSteps, Terminated

\* The frame that is shown and the one that is next never run ahead of the
\* sound, and a movie that has shown a frame always has one to show: the loop
\* of IMovie::OnRenderFrame ends.
THEOREM PictureInSync == FmvSpec => []InSync
<1>1. FmvInit => BufferInv
  BY OpenedIsMovie DEF FmvInit, BufferInv, PlayerInv
<1>2. BufferInv => InSync
  BY DEF BufferInv, Buffered, InSync
<1> QED
  BY <1>1, <1>2, BufferStep, PTL DEF FmvSpec
=============================================================================
