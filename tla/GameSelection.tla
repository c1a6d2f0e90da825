--------------------------- MODULE GameSelection ---------------------------
(***************************************************************************)
(* The game selection screen (src/gameselectionstate.cpp) with what it     *)
(* works on: the game definitions and the directories of the data sets     *)
(* (include/gamedefinition.hpp, src/gamedefinition.cpp).  A game needs     *)
(* data sets, each defined by a game definition that may need others; the  *)
(* user is asked for the directories that are not known, and the data sets *)
(* become the search order of every resource.                              *)
(*                                                                         *)
(* A data set name stands for its definition (names are unique), a         *)
(* directory for its path.  The reaction to one click is one action.       *)
(***************************************************************************)
EXTENDS Naturals, Sequences, SequencesExt

CONSTANTS
  Games,      \* names of the data sets that have a game definition
  Mods,       \* those whose definition comes from a mod archive
  Hidden,     \* those that are not listed on the screen
  Graphs,     \* the RequiredDatasets the definitions may have
  Meta,       \* data sets without files of their own
  IdOrder,    \* the other data sets DataSetIds.json can identify, in map order
  Rules,      \* their files: all of them, any of them, none of them
  Dirs, Contents, Parent,   \* the directories of the user
  SavedPaths, \* what DataSets.json may hold at first
  MaxRequired \* bound: mRequiredDataSets is not appended to beyond this

None == "none"
Ids == Range(IdOrder)
Names == Games \cup Meta \cup Ids \cup UNION {UNION {Range(g[n]) : n \in Games} : g \in Graphs}

ASSUME GameSelectionAssumption ==
  /\ IsFiniteSet(Games)
  /\ Mods \subseteq Games /\ Hidden \subseteq Games /\ Hidden # Games
  /\ Graphs \subseteq [Games -> Seq(Names)]
  /\ None \notin Names \cup Dirs /\ Meta \cap Ids = {}
  /\ \A d \in Dirs : Parent[d] \in Dirs
  /\ DOMAIN IdOrder \subseteq Nat
  /\ \A places \in SavedPaths : DOMAIN places \subseteq Nat /\ Range(places) \subseteq Dirs

VARIABLES
  mRequiredDataSetsOf,   \* mGameDefinitions: what each of them requires
  mPaths, saved,         \* DataPaths::mPaths, and DataSets.json
  selState, selected,    \* GameSelectionState::mState, SelectedGame()
  mRequiredDataSets, mRequiredDataSetNames, mMissingDataPaths,
  mActiveDataPaths,
  unopened               \* what SetActiveDataPaths returned: where it gave up, 0 if nowhere

definitionVars == <<mRequiredDataSetsOf>>
pathVars == <<mPaths, saved>>
requiredVars == <<mRequiredDataSets, mRequiredDataSetNames, mMissingDataPaths>>
activeVars == <<mActiveDataPaths, unopened>>
selectionVars == <<definitionVars, pathVars, selState, selected, requiredVars, activeVars>>

-----------------------------------------------------------------------------
(* DataSetIdentifiers and DataPaths *)

Matches(files, rule) ==
  /\ rule.all \subseteq files
  /\ rule.none \cap files = {}
  /\ rule.any \cap files # {} \/ rule.all # {}

\* The first of the map that fits.
Identified(dir) ==
  LET fitting == {i \in DOMAIN IdOrder : Matches(Contents[dir], Rules[IdOrder[i]])}
  IN IF fitting = {} THEN None ELSE IdOrder[Min(fitting)]

\* Mutant: the path is kept as the user gave it.
IdentifyKeepsPath(dir) ==
  [id |-> IF Identified(dir) # None THEN Identified(dir) ELSE Identified(Parent[dir]), path |-> dir]

\* A path that is not a data set stands for its parent.
Identify(dir) ==
  LET id == Identified(dir)
  IN IF id # None THEN [id |-> id, path |-> dir]
     ELSE [id |-> Identified(Parent[dir]), path |-> Parent[dir]]

\* expected is None while DataSets.json is read.
Accepts(paths, dir, expected) ==
  /\ Identify(dir).id \notin DOMAIN paths \cup {None}
  /\ expected \in {None, Identify(dir).id}

Added(paths, dir) ==
  [id \in DOMAIN paths \cup {Identify(dir).id} |->
    IF id = Identify(dir).id THEN Identify(dir).path ELSE paths[id]]

\* Add, for each entry of DataSets.json: the first that is identified as a
\* data set stays, the others are ignored.
PathsFrom(dirs) ==
  LET given == [i \in DOMAIN dirs |-> Identify(dirs[i])]
      FirstAs(id) == Min({i \in DOMAIN given : given[i].id = id})
  IN [id \in {given[i].id : i \in DOMAIN given} \ {None} |-> given[FirstAs(id)].path]

PathFor(id) == IF id \in DOMAIN mPaths THEN mPaths[id] ELSE None

MissingDataSetPaths(names, paths) == names \ (Meta \cup DOMAIN paths)

\* The known paths in the order of the map.  An entry is indexed by the place
\* of its data set in that order: only which comes first matters to PathsFrom.
Persisted(paths) ==
  [i \in {j \in DOMAIN IdOrder : IdOrder[j] \in DOMAIN paths} |-> paths[IdOrder[i]]]

-----------------------------------------------------------------------------
(* GameDefinition::GetDependencies: the calls still to be made are todo *)

Walks == [required : Seq(Names), lacking : SUBSET Names, todo : Seq(Names)]

Visit(s) ==
  LET n == Head(s.todo)
      rest == Tail(s.todo)
  IN IF n \in Range(s.required) THEN [s EXCEPT !.todo = rest]
     ELSE IF n \in Games
       THEN [s EXCEPT !.required = Append(@, n), !.todo = mRequiredDataSetsOf[n] \o rest]
     ELSE [s EXCEPT !.lacking = @ \cup {n}, !.todo = rest]

WalkDefinitions[s \in Walks] == IF s.todo = <<>> THEN s ELSE WalkDefinitions[Visit(s)]

\* The list is appended to, whatever it holds already.
GetDependencies(game) ==
  WalkDefinitions[[required |-> Append(mRequiredDataSets, game), lacking |-> {},
        todo |-> mRequiredDataSetsOf[game]]]

-----------------------------------------------------------------------------
(* GameSelectionState *)

Visible == Games \ Hidden

SelectionInit ==
  /\ mRequiredDataSetsOf = [g \in Games |-> <<>>]
  /\ mPaths = [id \in {} |-> None] /\ saved \in SavedPaths
  /\ selState = "eSelectGame" /\ selected \in Visible
  /\ mRequiredDataSets = <<>> /\ mRequiredDataSetNames = {} /\ mMissingDataPaths = {}
  /\ mActiveDataPaths = <<>> /\ unopened = 0

\* A mod is found in the archive its definition came from.
DataSetPath(n, paths) ==
  IF n \in Mods THEN n ELSE IF n \in DOMAIN paths THEN paths[n] ELSE None

\* An entry is indexed by the place of its data set among the required ones:
\* only the order matters.
ActivePaths(required, paths) ==
  [i \in {j \in DOMAIN required : DataSetPath(required[j], paths) # None} |->
     <<required[i], DataSetPath(required[i], paths)>>]

\* What DataPaths::SetActiveDataPaths makes of places: it gives up at the
\* first whose file system can no longer be opened.
UntilFails(places, failing) ==
  [i \in {j \in DOMAIN places : failing = 0 \/ j < failing} |-> places[i]]

\* What SetActiveDataPaths returns is not looked at.
LoadGameDefinition(required, paths) ==
  /\ saved' = Persisted(paths)
  /\ unopened' \in {0} \cup DOMAIN ActivePaths(required, paths)
  /\ mActiveDataPaths' = UntilFails(ActivePaths(required, paths), unopened')

SelectGame(game) ==
  /\ selState = "eSelectGame" /\ game \in Visible
  /\ selected' = game
  /\ UNCHANGED <<definitionVars, pathVars, selState, requiredVars, activeVars>>

\* "Start game" with a definition missing: only a message is logged.
StartLacking ==
  /\ selState = "eSelectGame" /\ Len(mRequiredDataSets) < MaxRequired
  /\ GetDependencies(selected).lacking # {}
  /\ mRequiredDataSets' = GetDependencies(selected).required
  /\ UNCHANGED <<definitionVars, pathVars, selState, selected,
                 mRequiredDataSetNames, mMissingDataPaths, activeVars>>

Started(required) ==
  /\ selState = "eSelectGame"
  /\ GetDependencies(selected).lacking = {}
  /\ required = GetDependencies(selected).required
  /\ mRequiredDataSets' = required
  /\ mRequiredDataSetNames' = Range(required) \ Mods
  /\ mMissingDataPaths' = MissingDataSetPaths(mRequiredDataSetNames', mPaths)

StartFinds ==
  /\ Started(GetDependencies(selected).required)
  /\ mMissingDataPaths' # {}
  /\ selState' = "eFindDataSets"
  /\ UNCHANGED <<definitionVars, pathVars, selected, activeVars>>

StartRuns ==
  /\ Started(GetDependencies(selected).required)
  /\ mMissingDataPaths' = {}
  /\ LoadGameDefinition(mRequiredDataSets', mPaths)
  /\ UNCHANGED <<definitionVars, mPaths, selState, selected>>

\* The user picks paths for wanted until one is accepted; the others change nothing.
GivePath(wanted, dir) ==
  /\ selState = "eFindDataSets" /\ wanted \in mMissingDataPaths
  /\ Accepts(mPaths, dir, wanted)
  /\ mPaths' = Added(mPaths, dir)
  /\ mMissingDataPaths' = MissingDataSetPaths(mRequiredDataSetNames, mPaths')
  /\ IF mMissingDataPaths' = {}
       THEN LoadGameDefinition(mRequiredDataSets, mPaths')
       ELSE UNCHANGED <<saved, activeVars>>
  /\ UNCHANGED <<definitionVars, selState, selected, mRequiredDataSets, mRequiredDataSetNames>>

\* Mutant: the data sets of the game that was given up stay required.
BackKeepsDataSets ==
  /\ selState = "eFindDataSets"
  /\ selState' = "eSelectGame"
  /\ mMissingDataPaths' = {} /\ mRequiredDataSetNames' = {}
  /\ UNCHANGED <<definitionVars, pathVars, selected, mRequiredDataSets, activeVars>>

Back ==
  /\ selState = "eFindDataSets"
  /\ selState' = "eSelectGame"
  /\ mMissingDataPaths' = {} /\ mRequiredDataSetNames' = {} /\ mRequiredDataSets' = <<>>
  /\ UNCHANGED <<definitionVars, pathVars, selected, activeVars>>
=============================================================================
