# A.L.I.V.E. in TLA+

TLA+ models of the game engine in `src/`, the TLC runs that check them on small
instances, and theorems about them that TLAPS proves for all instances.
Line references below are relative to `src/`. `PROJECT.json` maps every
definition to the lines it models and lists the hazards of the code, each at its
line, with the property that covers it or the reason why none does.

## 1. The system

A.L.I.V.E. runs two 1990s games from their original data files. One **main
thread** runs the loop of `Engine::Run`: input, update, render. Beside it run the
**workers** of the job system (two or more), the **audio thread** that SDL calls
for samples, and short-lived `std::async` tasks that locate resources. Nearly all
that can go wrong, and that a test would hardly reach, lies where these meet, or
where the main thread's work is cut into frames.

```
Engine ── Input, Renderer, GameSelectionState
  └─ World ── GameMode / EditorMode ── UndoStack, Selection
       ├─ GridMap::Loader ── MapObject::Loader ── MapObject (Squirrel scripts)
       ├─ PlayFmvState ── Fmv ── IMovie          ◄── audio thread (exclusive player)
       └─ Sound ── SoundCache ── JobTracker ── JobSystem ── ASyncQueue ── workers
            └─ players                           ◄── audio thread (ordinary players)
ResourceLocator ── ResourceCache, file systems, decoders   (called from all threads)
```

### Components that are modelled

| component | state it keeps | operations | what makes it hard | what makes it correct |
|---|---|---|---|---|
| `ASyncQueue` (`include/asyncqueue.hpp`) | queue, completed jobs, executing count, two atomic flags, three mutexes, a condition variable | `Add`, `Update`, `IsIdle`, `PauseAndCancelASync`, `UnPause`, `Stop`, `WorkerFunc` | flags tested outside locks, `notify_one` outside the lock, jobs that add jobs, joining with a mutex held | no lost wake-up, jobs notified once and in order, the count exact, `Stop` final and terminating |
| `JobSystem`, `JobTracker` (`jobsystem.*`) | the set of outstanding wrappers, their cancel flags | `StartJob`, `CancelOutstandingJobs`, `IsBusy`, `OnFinished` | a set shared by threads without a lock; a job outstanding until what it started is too | not busy means all done, and stays so; busy ends |
| `SoundCache` | `.wav`, `.tmp` and version files, sounds in memory | `Sync`, the two jobs, `Cancel`, `RemoveFromMemoryCache` | killed at any step and restarted as a newer version; conversions cancelled half-way | nothing truncated or stale is published or loaded; no debris; a job delivers |
| `Sound` | eight states, active and next theme, two players | `SetMusicTheme`, `HandleMusicEvent`, `StopAllMusic`, `Update`, `Play` | asked for a theme in any state; polling a tracker; the audio thread | exactly the right sounds in memory; the last request wins; every load ends |
| `World`, `GameMode` | world state, state to return to, path future, icon | `Update`, `LoadMap`, `PlayFmv`, pause, `Render`, the destructor | a load interrupted by a movie, by a second load, by exit | what is shown is a whole map; every load ends; no dangling camera subject |
| `GridMap::Loader`, `MapObject::Loader`, `IterativeForLoop` | loader state, three nested loop counters | one slice per frame; `UnloadMap`; textures of screens | nested loops left after 8 ms and re-entered in the next frame | every camera and object once, in order, whatever the slicing; textures released |
| `PlayFmvState`, `Fmv`, `IMovie` | movie, its buffers, the exclusive player of the audio device | `Play`, `Stop`, `Update`, `Render`, `Play(stream)` on the audio thread | the picture is driven by the sound that was consumed, two threads, a plain pointer | picture follows sound; no pointer to a dead movie is stored; every movie ends |
| `EditorMode`, `UndoStack`, `Selection` | the command stack and its index, merge flag, drag state | press, drag, release, group select, undo, redo, clear | long mixes of push, merge, undo, redo and trimming | undo and redo lead to exactly the earlier documents; a drag is one command |
| `Engine` | its state, the job that initialises it | `Update`, `OnJobFinished`, the event loop of `Run` | the job ends on a worker and is delivered in some later frame; a second start of the program | the engine gets to the game selection, and from there to a whole game |
| `GameSelectionState`, `GameDefinition`, `DataPaths` | required and missing data sets, the known directories, `DataSets.json` | selecting, starting, giving paths, going back, persisting | lists appended to over several starts; a definition that is missing; identification repeated at the next start | a game runs with every data set it needs, in the order of a depth first walk; a set-up survives a restart |
| `InputState`, `Actions` | keys and buttons held, open controllers, edges of actions | SDL events, `AddController`, `RemoveController`, `Update` | device indices of queued events go stale; keyboard and controller hold one action together | presses and releases alternate and are real; no dangling controller |
| `AbstractRenderer`, `OpenGLRenderer` | the command buffer, the cached texture and state, textures to destroy | quads, texts, paths, `EndFrame`, `DestroyTexture` | state is pushed only where it differs; the font grows within a frame; textures given up before they are drawn | each command is drawn as asked, in its layer; no texture is lost or used after it was deleted |
| `ResourceLocator`, `ResourceCache` | weak pointers to archives and sets, the mutex of the locator | locating animations and sounds, dropping what was located | a deleter that runs without the mutex on any thread | no stale entry; what is in use is shared |
| `CdFileStream` (`include/cdromfilesystem.hpp`) | the place in the file, the sector and the place in the image | `ReadBytes`, `Seek`, reading a movie by sectors, `Clone` | three counters of one place, in different units, from different beginnings | the file's bytes in order and all of them, across the ends of sectors |
| `LvlArchive`, `FileChunk` (`src/oddlib/lvlarchive.cpp`) | the files and chunks found, the one stream that all chunks share, the locator's mutex | `Load`, `ReadData`, `Stream` | all threads move one stream; a chunk's place is known from its header only | every chunk is found; who reads one is given all of it and nothing else |
| `SequencePlayer`, `AliveAudio` and its voices, `AudioConverter` | the messages of a sequence, the player's state, the voices with their delays and envelopes, the sample index | `LoadSequenceStream`, `Update`, `AliveRenderAudio`, `NoteOn`, `NoteOffDelay`, `StopSequence`, `AtEnd`, `Convert` | the voices of a whole song are made at once and told apart by program and note only; the end is noticed a buffer late, by a thread other than the one that plays | keys go up when their own note-off says; every sound ends, and not before all of it was heard and written |
| Abe (`data/scripts/abe.nut`), `MapObject::Update`, `Animation` | state function, clip, velocities, the coroutine | one `Update` per frame, with every input | states that lead to each other within a frame; animations whose callbacks a stop skips | still on the ground, through no floor, no hang in a frame or a clip |

### How they interact

* `World` calls `Sound::SetMusicTheme` when a map is loaded and polls
  `Sound::IsLoading` in `eSoundsLoading`. `Sound` polls `SoundCache::IsBusy`, which
  asks the tracker, whose jobs run on the queue and whose `OnFinished` is called
  by `JobSystem::Update` on the main thread. Module `World` relies on what run
  `sound` checks (a load ends), `Sound` on what `SoundCache` gives (it is shown to
  refine it), `JobTracker` on what `AsyncQueue` gives (it is built on it).
* `ResourceLocator` reads archives under its mutex; `LvlArchive` is built on
  `CdStream`, the stream of a file of a CD image, and `ResourceCache` on the
  archives being read right.
* A resident sound's job is started *by a job on a worker*
  (`SoundCache::CacheAllSoundEffectsImp`), so `Add` and `StartJob` run on
  workers. This is the source of two of the findings.
* The audio thread reads `mExclusiveAudio` and the players. `SdlAudioLocker` locks
  the device of `SDL_OpenAudio`, whereas the engine opens its own with
  `SDL_OpenAudioDevice`, so it excludes nothing.

### Components that are not modelled

| component | why |
|---|---|
| Collision lines (`collisionline.cpp`) | intersection is floating point over the map's data; what Abe's fall needs of it, a floor below or none, is an input of `Abe` |
| Other scripted objects (`data/scripts`) | doors, switches, mines, hoists are a counter or a flag each; nothing interacts that `Abe` does not show |
| Decompressors, image formats, paths, the directories of zip files and CD images, subtitles, `BitsFactory` | parsers and pure algorithms over byte streams: no state beyond one call, and tests with reference files cover them better than small bounded inputs |
| Video and audio decoders | transforms and tables |
| File systems, logging, tools, vendored code | I/O, or no part of the running engine |

The larger half of the repository's lines is among these: lookup tables
(`include/oddlib/masher_tables.hpp`, `vlctable.hpp`), generated dumps of names in
`tools/`, OpenGL headers and other libraries. There is no behaviour in them to
model, so the models cover a small share of the lines and nearly all of the
concurrency and the state machines.

Parts of modelled components that are left out: the camera, menus and drawing of
`EditorMode`; the map of sound-effect players and the browser in `Sound`; opening
devices and mixing of the audio device; camera movement and the browsers of
`World`; decoding and subtitles of movies; windows and the frame clock of
`Engine`; vertices, shaders and scaling of the renderers; the JSON mappings of
the resource locator; reverb, the pitch of tones, interpolation and the restart
of the ambiance of the music synthesis; horizontal distances, turning to the grid and the hoists'
positions of Abe.

## 2. Modules

| module | models | how state and actions correspond |
|---|---|---|
| `JobPool` | the promise of the job queue | abstract: a job is refused or queued, started in order, notified exactly once in completion order, and only queued jobs can be dropped |
| `AsyncQueue` | `include/asyncqueue.hpp` | `pc[t]` is the place of each thread between two accesses to shared state; one action per lock, atomic access, wait, wake-up (spurious ones too) or `notify`. A critical section in which nothing else can be observed is one step; the worker's is several, because `mQuit` is written without that mutex. `Pool` is the instance of `JobPool` it implements |
| `JobTracker` | `include/jobsystem.hpp`, `src/jobsystem.cpp` | extends `AsyncQueue`; an access to `mOutstandingJobs` has a beginning and an end; `Serialized` keeps accesses apart |
| `SoundCache` | `include/soundcache.hpp`, `src/soundcache.cpp` | a file is absent, cut, stale, whole, or being written by a job; `Sync` is one action per file operation; `Restart` kills the process at any point, which loses memory and cuts open files short, and may start a newer version |
| `Sound` | `include/sound.hpp`, `src/sound.cpp` | extends `SoundCache` without stop and crash; one action per `mState` of `Update`; `PlayBegin`/`PlayEnd` bracket the audio thread's critical section |
| `MapLoader` | `src/gridmap.cpp`, `src/mapobject.cpp`, `include/iterativeforloop.hpp` | one action is one *iteration* of a time-boxed loop. Nothing else changes the loader between two frames, so any slicing into frames is a behaviour of the module |
| `World` | `src/world.cpp`, `src/gamemode.cpp`, `src/debug.cpp` | extends `MapLoader`; one action per case of `World::Update` with everything that frame does |
| `Fmv` | `src/fmv.cpp`, `src/core/audiobuffer.cpp` | what happens with `mAudioBufferMutex` held is one step; the callback's test of `mExclusiveAudio` and its call through it are two |
| `EditorMode` | `include/editormode.hpp`, `src/editormode.cpp` | one action is one frame, with Ctrl+Z or Ctrl+Y in any of them; frames that never reach the mouse handling, and `World::LoadMap`, are actions too. The history field `past` remembers the documents there were, the history variable `astray` what happened that the code is not ready for, and `edit.undefined` that an empty selection was dereferenced. Positions are integers modulo `PosCount` |
| `GameSelection` | `src/gameselectionstate.cpp`, `src/gamedefinition.cpp` and its header | the reaction to one click is one action; a data set's name stands for its definition, a directory for its path. `GetDependencies` is a recursive function over the calls still to be made, one `Visit` after another. The lists the program only searches are sets; an active path is indexed by the place of its data set, since only the order matters |
| `Engine` | `src/engine.cpp` | extends `GameSelection`; one action per case of `Engine::Update`, preceded by the events of that frame (a quit or none) and the delivery of the job; `Restart` is a new process, which has `DataSets.json` only |
| `Input` | `include/input.hpp`, `src/input.cpp` | SDL is external: a list of devices, and a queue of events that carry an index (added) or an id (all others); one action per change of a device, per polled event, and for `Update` when the queue is empty |
| `Renderer` | `src/abstractrenderer.cpp`, `src/openglrenderer.cpp` | the command buffer is a sequence of cells, a header or a point of a path; the end of the frame walks it, sorts and issues it with the cached state |
| `ResourceCache` | `include/resourcemapper.hpp`, `src/resourcemapper.cpp` | an object in memory has the key in its deleter and its holders; `Get`, the assertion of `Add`, its insertion, the loss of a pointer, the deleter's erase and the end of the object are steps of their own, so they interleave with those of the jobs. A set that is not in its archive is a null pointer, whose use is the end (`doing[Main] = "crashed"`) |
| `ByteFile` | the promise of an open file | abstract: a position that moves over the bytes in order, whoever reads, and never passes one unread |
| `CdStream` | `include/cdromfilesystem.hpp` | an iteration of the loop of `ReadBytes` is one step, where the calls of two threads may take turns; `FilePlace` turns a place in the image into one in the file, and with it the stream is a `ByteFile` |
| `LvlArchive` | `src/oddlib/lvlarchive.cpp`, the locking of `ResourceLocator` | extends `CdStream`; `Load` is a step per structure and its fields, `ReadData` a seek and a read. The history `next` is where the next byte should come from |
| `Sequencer` | `src/oddlib/audio/` (`SequencePlayer`, `AliveAudio`, `Voice`), `src/audioconverter.cpp`, the players in `src/sound.cpp` | a song is loaded in `Init`, which nobody else sees; each call of a player is one step, as its callers hold `mSoundPlayersMutex` or are the only thread that knows it. Time is in frames, the level of a voice in small integers, a sample is 0 or not. The converter's loop and a player of `Sound` are two ways of using it |
| `Abe` | `data/scripts/abe.nut`, `src/mapobject.cpp`, animation updates | the coroutine between `wakeup` and `suspend`; `ClipFrame` is one turn of the loop in `PlayAnimation`, `Exec` one call of a state function. Vertical movement is exact, in tenths; horizontal movement is whether there is any, after which the floors below may be others |
| `MC*` | | constants of the instances; `MCGame`, `MCParts` and `MCSounds` put several modules side by side, `MCJobSystem` the queue used directly and the queue used through a tracker |
| `JobSystemProofs`, `SoundProofs`, `WorldProofs`, `ScreenProofs`, `EditorProofs`, `FrameProofs`, `ResourceProofs`, `AbeProofs` | | the theorems of section 5 |

No module declares a `RECURSIVE` operator: recursive definitions are recursive
functions or folds. Definitions with a comment that begins "Mutant" or "A
plausible fault" are used by no specification; they are variants of the
definition that follows, each of which makes the property that guards it fail.

## 3. Runs

| run | instance | distinct states | what it shows |
|---|---|---|---|
| `queue` | 2 workers, 3 jobs, one adds another; add, update, pause, stop; either directly or through a `JobTracker` with accesses of its set kept apart | 147 153 | no lost wake-up, exact executing count, `Stop` final, refinement of `JobPool`, every accepted job notified or cleared, `Stop` returns unless a job is adding a job; the tracker covers all work in progress if its set is not corrupted, busy ends |
| `queue_stop` | the same with 2 jobs | finding 1 | `Stop` holds `mStartStopMutex` while it joins a worker that waits for it |
| `queue_idle` | add and update only | finding 2 | `IsIdle` is TRUE with a job in flight |
| `tracker_race` | the set as it is | finding 3 | a worker inserts while the main thread erases or scans |
| `sound` | either `Sound`, with 2 themes sharing a sound and one that does not exist and 2 calls in any state, or `Sequencer` moves | 199 021 | right sounds in memory, last theme wins, refinement of `SoundCache` with disjoint loads, every load ends; a song's keys go up on time, what is converted or played was heard as a whole, every sound ends |
| `sound_race` | 1 theme of one sound | finding 4 | players are replaced while the audio thread plays them |
| `game` | one of `Engine`, `World`, `Fmv`, `Abe` moves | 103 467 | a whole game is run, and set-ups survive; maps are whole, their textures released, every load ends; picture and sound stay together, the exclusive player is alive, every movie ends; Abe is still on the ground, falls through nothing, and every update, clip and fall ends |
| `parts` | one of `Input`, `EditorMode`, `ResourceCache`, `LvlArchive`, `CdStream`, `SoundCache`, `Renderer` moves | 466 659 | edges and devices are real; the history is consistent; entries and objects agree; a file of a CD image is a file, and chunks are read whole by threads that share it; nothing truncated or outdated is published or loaded; textures and drawing are right |
| `editor_load` | a map is loaded after a change | finding 5 | `mCommandIndex` survives `Clear` |
| `input_replug` | one of two controllers unplugged and plugged in | finding 6 | a new controller is taken for one already added |
| `cache_assert` | the archives and animations of `parts` | finding 7 | `Add` runs while the entry of the object that has just gone is in the map |
| `fmv_callback` | the movies of `game` | finding 8 | a player that is replaced or destroyed is called by the audio thread |

**Why parts can be summed.** The modules in `game`, those in `parts`, and the two in
`sound`, share no variable. Their next-state relation is the disjunction of the modules', a
variable `part` chooses at the start which module moves, and the others keep one
initial state. Every behaviour of a module is a behaviour of the run and every
state of a module is reached, so the run asks what separate runs would ask; a
product would multiply states without a single new one for any module. The
fairness conditions are those of the modules, each for the part that moves. What
two of them do to one another is modelled where they share state: `JobTracker`
is built on `AsyncQueue`, `Sound` on `SoundCache`, `World` on `MapLoader`,
`Engine` on `GameSelection`, `LvlArchive` on `CdStream`, `ResourceCache` has the jobs of the sound cache and
`Fmv` the audio thread.

### Bounds, and why they are enough

* **Queue and tracker.** `MCJobSystem` has both, one in a behaviour (`tracked`).
  `NotStopped`: the owner of a tracker does not stop the queue, because what `Stop`
  does to the queue is seen without one and `BusyEnds` asks nothing after it.
* **Workers, jobs.** Two workers are needed, and enough, for a wake-up to go to
  the wrong thread and for a completion to be overtaken; three jobs give a batch
  that is notified while another job completes and a job that adds one. The
  theorems of queue and tracker hold for any number.
* **Sounds.** The resident set and the themes meet in one sound each; two themes
  that share a sound are needed for unload and load to interfere. One job per
  sound is what `data/sounds.json` gives (no theme names a sound twice);
  `UsesCacheRightly` checks that loads do not overlap.
* **`MaxCalls`, `MaxLoads`, `MaxPlays`, `MaxCommands`** bound how often a user
  asks for something. Two theme changes put a second request in each state of the
  first; four loads give a success after a failure after a success; three plays
  give a replay of the same movie, of another, and of a missing one; three
  commands are what two presses on different lines and a drag leave (`MaxCommands`
  bounds a stack without a limit; with the limit of one every push trims, and
  pushes are not bounded). `LastAstray` is where a behaviour of the editor ends:
  once a drag was merged into a command that was undone, or a map loaded over
  commands, no property speaks of it (finding 5); a drag that an Undo came in the
  middle of goes on.
* **Maps.** 2x2 with a blank screen, a screen without objects, an object the
  script rejects and several objects in one screen; 1x1 is the least map. Every
  index is reset at least once by a loop outside it.
* **Movies.** A stream has sound with each frame (Masher), or apart from it with
  more sound than picture at the end (MOV). The audio device asks for less and
  for more than a frame lasts.
* **`PosCount`** 3 distinguishes a position from both neighbours. `PressAt` {0} in
  `parts`: where the mouse is pressed matters by its distance from the lines
  only, which start at every place; `editor_load` presses at two.
* **Games.** A mod over a game over two disks that shares a data set with it, the
  same with a cycle, and with a definition nobody has; directories that are
  identified as they are, through their parent, as a demo, or not at all.
  `MaxRuns` 2 is one restart; `MaxRequired` 8 is more than a start and a second
  one append, and no start is made beyond it.
* **Input.** Two controllers at the start and a third id: one goes and comes back,
  or the indices move under a queued event. `MaxQueue` is how many events may
  wait before they are polled: one is enough for an index to go stale while the
  event waits; the theorems hold for any length. One action is on a key and a
  button, another needs two buttons.
* **Renderer.** `MaxCells` 3: two commands, or one path with its points, and the
  user interface; two layers, one on either side of it. There are textures enough
  for two quads and for the font to be replaced by each text and its shadow
  (`RendererAssumption`: a frame of `MaxCells` commands finds a name for every one).
* **Resources.** Two animations share a set, a third is listed in an archive that
  cannot be opened first, a fourth is missing from its archive, a sound is looked for in two archives, two jobs locate.
  `Objects` (8) is the room for archives and sets in memory (`Unused`), more than
  threads and animations can hold.
* **Archives and files.** A header across the end of a sector, a chunk that fills
  one, an empty file and a sound bank, read by two threads. A file of two
  sectors and some bytes, and a movie of which a part is cloned; `Places` are
  the beginning, the end of a sector and the middle of one, `Amounts` nothing,
  less than a sector, and more than one.
* **Songs.** One that uses running status, velocity 0 and one key again; one on two
  channels with programs of their own, an ignored event and a key of no tone's
  range excluded; a note whose program changes under it; one that another channel
  lets go too early; a stream refused at its first event; an empty one. Samples of a plucked tone and of a looping pad with
  two layers, and of a note without a tone. `MaxSample` 30 frames is beyond the end of every song that
  ends; `BufferFrames` 3 is less than a note and no divisor of the lengths;
  `MaxAhead` 1 is how many buffers
  the audio thread may fill between two updates.
* **Abe.** Frame counts are the game's data, which the repository does not hold:
  the animations whose frames the script names have as many as it names, the
  others two; some loops start again with their second frame. `Columns` is a ledge over a floor, either alone, and neither.
  `MaxRise` stands for the geometry of the maps, in which no ledge is jumped
  from in mid-air; `MaxDepth` ends a fall out of the map.

Deadlock is checked in `sound`, `game` and `parts`, where a system that has ended
stutters by an explicit action. `queue` says `CHECK_DEADLOCK FALSE`
for the reason `queue_stop` shows: `Stop` and a worker may block each other.

### Fairness

* **Queue and tracker.** Strong fairness of each thread's own steps: threads are
  scheduled, and a mutex that is free again and again is got by each thread that
  wants it. It has to be strong because another thread may take the mutex in
  between; the mutexes of the platforms do not starve a waiter for ever. Job
  bodies return. `Update` is called in every frame the main thread does not spend
  in another call. No `Add`, pause, stop or spurious wake-up need ever happen.
* **Sound.** `Engine::Run` calls `Sound::Update` and `JobSystem::Update` in every
  frame; `Play` returns; some worker goes on.
* **World.** The steps of the main loop that load, the `std::async` task, the
  sounds (`LoadingEnds` of `Sound`) and a movie (`MovieEnds` of `Fmv`) are weakly
  fair. No request is.
* **Movies.** Update steps and the audio callback are weakly fair; rendering is
  strongly fair, because each turn of the main loop updates and then renders, yet
  it is disabled between. Without an audio device no movie ends by itself; the
  TODO at `src/core/audiobuffer.cpp:71` says as much.
* **Engine.** A frame of the start-up that needs no event and no click, and the
  worker's two steps on the job, are weakly fair. No click and no quit is.
* **Songs.** The converter's loop, the update of the players in every turn of the
  main loop and the audio device's calls are weakly fair. No cancelling, no
  stopping and no key of the debug window is.
* **Abe.** `World::Update` calls `MapObject::Update` of each object in every frame,
  so some step of `AbeNext` is taken; which keys are held is up to the player.

### What the passing runs exclude

* `JobTracker` with `Serialized` TRUE: the race itself is `tracker_race`.
* `EditorMode` excludes nothing that a user can do, but its properties say less
  after some of it (`astray`). Ctrl+Z is handled in every frame
  (`src/editormode.cpp:483`), so in the middle of a drag too, where it can take the
  selection away: the next frame of the drag dereferences the beginning of an empty
  set (line 181), and the model ends there (`edit.undefined`).
  `SelectionIsCoherent` says that this happens in such a drag only, or in one
  whose release was not seen and that a press beside the lines left without a
  selection; that no drag is ever disturbed would be false. No document promises
  otherwise, so it is a hazard and no finding.
* The archive that is opened may turn out to have no valid header, and the game
  that is started a directory whose file system cannot be opened: the first
  is opened again by whoever locates next, the second leaves the game with the
  data sets before it, as nobody looks at what `SetActiveDataPaths` returns.
  `RunsWholeGame` says which they are.
* An animation set that is missing from its archive ends the program
  (`Animation::AnimationSetHolder` uses the null pointer); `ResourceCache` stops there.
* `Sound` with `UiEvents` FALSE: an event raised from the debug window while a
  theme is loading plays the old theme's ambiance.
* `KeysGoUpOnTime` speaks of a note (`IsProper`) that has a length, keeps its
  program, and whose own note-off is the first for its key of whichever channel:
  overlapping ones share the first note-off. `SoundsEnd` speaks of streams that end, whose notes do, and whose
  bars are a frame or more each: a stream that is refused never ends, and a
  shorter one divides by zero (`src/oddlib/audio/SequencePlayer.cpp:102`).
* `EndsWithItsSound` lets the encoder lose one sample: "trailing silence is chopped
  off" (`src/audioconverter.cpp:29`) counts single samples where the encoder takes
  frames, so that a sound whose last sample is a left one loses it.
* A call of the audio thread through a pointer that was reset or whose movie was
  destroyed is undefined; `Fmv` ends there (`audio = "crashed"`), and its
  properties speak of what the code stores. The race itself is finding 8.
* After a missing path `mCameraSubject` dangles (a TODO in the code says so);
  `SubjectIsAlive`, a part of `NothingDangles`, speaks of shown maps only.
* `UsedIsShared`, a part of `MapAndObjectsAgree`, speaks of dropping and locating that do not overlap; where they
  do, two copies are possible, and `cache_assert` shows how.
* `ChunksAreWhole` speaks of the threads that take the locator's mutex
  (`Browsers` is empty). `LocateVab`, which the sound browser calls, opens and
  reads archives without it (`src/resourcemapper.cpp:473`); with a browser
  among the callers the property does not hold.
* The constructor of `CdFileStream` keeps the sector of the image where the other
  operations keep that of the file; it would be felt by a first read, before any
  `Seek`, of more than a sector, which no caller makes: a guard of `ReadBytes`.
* `RunsWholeGame` speaks of games whose definitions are all there. A start that
  lacks one leaves its name in the list, and a second start may then run the
  game without it.
* Abe looks for a floor only where the script does: standing falls and walking
  off an edge. Of the states only `Walk` asks whether there is a floor; a jump
  looks for none, and a hop leaves him a little above the ground. That is the
  game's behaviour, and the properties do not promise more. Whether something is in the way of a
  movement is a choice of each frame.

## 4. Findings

Eight disagreements between the code and what it says of itself, each shown by a
run of its own:

1. **`Stop` may never return** (`queue_stop`). It joins with `mStartStopMutex`
   held (`include/asyncqueue.hpp:137`); a job inside `Add` waits for it.
2. **`IsIdle` is TRUE with a job in flight** (`queue_idle`), between pop and
   increment or between decrement and completion; `test/asyncqueue_tests.cpp:33`
   relies on the opposite.
3. **`mOutstandingJobs` is a `std::set` used by two threads** (`tracker_race`),
   against "Thread safe" at `include/soundcache.hpp:57`.
4. **The music players are replaced outside their mutex** (`sound_race`), against
   "Thread safe" at `include/sound.hpp:110`.
5. **Clearing the undo stack leaves its index** (`editor_load`); the next `Push`
   erases beyond the end.
6. **A controller that is plugged in again is ignored** (`input_replug`): the
   device index of the event is looked for among instance ids
   (`include/input.hpp:280`).
7. **`Add` may find the entry of an object that is gone** (`cache_assert`): the
   deleter erases without the mutex (`include/resourcemapper.hpp:585`), so the
   assertion at line 626 fails, and without assertions the new object is in no map.
8. **The audio callback is not protected** (`fmv_callback`): `SdlAudioLocker` locks
   another device than the one the engine opens, so the callback may run while the
   player it calls is taken away, against the comment at
   `src/core/audiobuffer.cpp:151`.

## 5. Theorems

All are of the form `Spec => []P`, `Spec => [][A]_v` or `Spec => Abstract`, for
every value of the constants that the named assumptions allow.

**`JobSystemProofs`**, of `AsyncQueue` (from `QueueAssumption`: a finite non-empty set of
workers, the main thread not among them). `QueueInv` is the type invariant with
`ThreadInv`, which says which mutex is held at which place; it gives
`TypeCorrect`. `StopInv` adds who owns `mStartStopMutex` and what `Stop` has
achieved at each step; without it `StopIsFinal` is not inductive, as an `Add` that
passed the flag test could push behind the clearing. It gives `QuitSeen` and
`StopFinal`. `ExecutingCount` and `Conserving` compare cardinalities of sets of
workers; each step moves one worker between sets, or, for `notify_all`, all
sleepers. `Implements` is the refinement of `JobPool`: `PlaceInv` says that each
job is in exactly one place (asked for, queued, with one worker, completed,
notified), once, and `UpdateInv` that there is no batch outside `Update`; with them each
step is a step of the pool or a stutter under the mapping `Pool`.

Of `JobTracker` (from the same, and `Serialized`: no two accesses of the
set overlap). `TrackerInv` says at each place of a call of the tracker which job
it is about and that it is outstanding; `Covers` follows (the run checks it as
`TrackedWorkIsOutstanding`, of the behaviours that have a tracker). `OwedInv`, that every
job ever given is outstanding or notified and that only an executing worker
starts jobs, gives `NotBusyDone` and `NotBusyStable`, on which `Sound` relies when
it polls `IsBusy`. The hypothesis is necessary: `tracker_race`.

**`SoundProofs`**, of `SoundCache` (from `SoundCacheAssumption` and, except for
the types, the hypothesis `OneJobPerSound`). The `.tmp` of a job is what its place
in the conversion says (`TmpOfJob`), a file is written by the job of its sound
only (`WriterOfTmp`), jobs exist only after `Sync` (`SyncFirst`), what was read is
whole (`DataWhole`): with them the safety properties are inductive together:
`DiskTrusted`, `Playable`, `Delivers`. The hypothesis is necessary: two jobs for
one sound share a `.tmp` file.

Of `Sound` (from `SoundAssumption`, without that hypothesis). `UsageInv` says in
which states the cache can be busy and in which `Sync` is done, so that a step of
`Sound` is a step of `SoundCache`'s own client: `RefinesCache`. With it every
invariant of the cache holds under `Sound` (`SoundPlaysWholeSounds`). `OwnedInv`:
what is in memory, or has a job, is resident or of the active theme.
`KeepsGoing`: no job of the load under way is cancelled. With it a sound that is
in memory or has a live job stays so (`PendingStays`: a job that is not
cancelled ends only with its sound in memory), which carries `ResidentInv` and
`ActiveInv` through the states of `Update`: `RightSoundsInMemory`. `ThemeInv`
gives `LastThemeActive`.

Of `Sequencer` (from `SequencerAssumption`: what is in a bank and in a stream, and
that the shortest note and the shortest sample are heard, and `SongsFitBank`: a
song's programs and keys are in the bank). The reading of a stream, the making
of the voices and the frames of a buffer are recursive functions over an initial
part of the numbers: each is shown to exist and to satisfy its equation, so that
a set of good steps that begins at 0 and is closed is all of them (`UpTo`).
`ListOf`: what is read is a song that ends, or is empty. `ProcessedTo` says, after
k messages, the program of each channel, which voices there are, and for each
the first note-off of its key so far (`OffSet`); it does not say that the note-off
is the note's own, which only a proper note makes it (`OffIs`). `SongInv` carries
that through the buffers (`UpAfter`: the key of a voice goes up after its frame,
whatever the place of the buffers): `KeysOnTime`. `SoundsToTheEnd` needs four more
invariants. `NotesPending`: a note that has a tone was heard or has a voice that
waits for its frame with the key down for at least one frame more (`Waiting`).
`ShotInv`: after n frames the voices of a single shot are those of its tones whose
sample is not over, at place n times the rate, with a level above 0, and `heard`
is the last sample of the tones up to n. `AllWritten`: what the encoder has is what
was played before this buffer. `Played`: only a sound at its end is done or erased,
and a converter is never stopped.

**`WorldProofs`** (from `MapAssumption` and `WorldAssumption`). Five layers, each
resting on those before: the modes and the place of the loader in them
(`ModeInv`: `SubjectLives`, `IconRight`); the nested loops (`LoopInv`: an inner
loop is under way only inside an iteration of the outer one; `WorldTypeCorrect`);
the screens (`ScreenInv`: those the loops have passed; `ScreensComplete`); the
object being initialised (`ObjectInv`: it has the animations its own loop has
passed, and all of them when it is ready); the objects (`PlacedInv`: while objects
are loaded, those that are there are exactly those of the map that the three
counters have passed, but for the one being initialised, which is the last one
passed). What is passed is a set given by the counters, ordered by column, row and
index, so each action of the loader adds nothing to it or the one object that
comes after all others. Together they give `MapIsWhole`, which is `LoadsWholeMap`.
The textures (`TexturesReleased`) need none of them. `DanglesNever` puts subject
and textures together as the run checks them.

**`ScreenProofs`**, of `Engine` with `GameSelection` (from
`GameSelectionAssumption`). `PathsInv`: every directory kept is identified as its
data set (`Known`), which `Add` keeps and reading `DataSets.json` establishes,
whatever it holds. What `Persist` writes of such directories is identified again
as the same data sets, entry by entry, and the first entry of a data set is the
one that was written; it gives `PathsKept`, which is `PathsSurviveRestart`.

`WholeGameRuns` is about the walk over the definitions. A call that meets a
definition leaves one less, the others one call less, so the walk ends also when
definitions need each other (`WalkLeaves`, `WalkReturns`); that it does is what makes the
recursive function exist. `WalkInv` holds after every call: each call still to be
made belongs to a definition that was met, those of the last met come first,
and whatever a definition needs was met or is to be called for it (`Owned`). That
gives `GoesOn`, that a definition is not left while it needs one that was not met, and
hence `IsDepthFirst`; at the end nothing is left to be called for, so all that is needed
was met. `GameInv` is the rest: when every definition is there, the screen starts a
game from an empty list. Without closed definitions it need not (section 3).

Of `Fmv` (from `FmvAssumption`). `PlayerInv`: while a movie is being
replaced or destroyed nothing stored points to it, and what is stored is the
current movie; it gives `ExclusiveAlive`. `BufferInv` adds `Buffered`: the frames
are those of the packets read, the first one is popped only when there is another
and the sound has come to it. That the loop of `FillBuffers` ends, at the end of
the stream if not before, is shown by a least number of packets. It gives
`PictureInSync`.

**`EditorProofs`** (from `EditorAssumption`, whatever the user does). A command that was recorded for a document is undone
exactly (`PointCommand`, `LineCommand` and the selection's: moving back is
arithmetic modulo `PosCount`), so `HistoryOf`, that every command of the stack was
recorded for the document before it and led to the one after it, is kept by
`Push`, with the cut of what was undone and the trim of a full stack, by
`PushMerge`, `Undo` and `Redo`; it gives `HistoryConsistent`. `DragInv`, that while a
drag is under way the last command is its own and was recorded for the document
there was at the press, gives `SelectionCoherent` and `DragIsOneUndo`. What they
except is what `astray` records: an Undo, a Redo or a press beside the lines since
the drag began, a drag merged into a command that was undone, a map loaded over
commands or a selection. Each exception is one of the code's (section 3).

**`FrameProofs`**, of `Input` (from `InputAssumption`). `EdgeInv`, that what is pressed is down
and what is released is not, turns the generic update of an action into the set
differences of `EdgesMatch`. The other two need what the queue says: an open
controller is attached or its removal is on its way (`GoneInv`: `NoneDangling`),
and of each key and button the last event that waits is the state it is in, or
none waits and the program knows that state (`HeldInv`: `HeldByDevices`). They hold
for any length of the queue.

Of `Renderer` (from `RendererAssumption`). `RendererInv` says where each texture
is, that those of waiting quads are held or wait to be deleted, and, of a buffer
whose commands have any sizes, that it can be walked to its end or to the path
that is being drawn (`WalkInv`): `PathBegin` writes a header without a size, and
`PathEnd` the size that joins the walk before it to the end. `EndFrame` is a
recursion over the sorted commands; that the recursive function exists, and that
`AsAsked` holds of it after every command (what the cache takes for the last
texture and state is the one that was pushed, except that a text leaves its font
where the texture of the shapes was), is shown by the first command, if any, at
which it would fail: `FramesAsAsked` and `TexturesAccounted`. The same argument
gives `Placed`, that what was issued after every command are the commands so far;
with `Walked` (the walk of the buffer meets its commands and no point of a path)
and `CellsInv` (what the buffer holds at a call's place is that call's command)
it gives `LayersInOrder`.

**`ResourceProofs`**, of `ResourceCache` (from `CacheAssumption`). `EntryInv`, with
`DeleterInv` about the place of a thread between the loss of the last pointer and
the end of the object, gives `NoEntryStays` although the deleter may erase a
successor's entry. `SharedInv` is about the one thread that locates while nothing
is dropped: between `Get` and `Add` no other object gets its key. It gives
`SharedByAll`, and `MapRight` is both, as the run checks them.

Of `CdStream` (from `CdAssumption` and `WholeSectors`: a movie has no broken
sector). `InPlace` says how the place in the file, the sector and the place in the
image belong together, for a file that was read or sought in, one that is fresh,
and a movie (`StreamInPlace`). With it every iteration of `ReadBytes` gives the
bytes from `Pos` on, those before the end of a sector or all that is wanted, and
the stream refines `ByteFile` (`StreamIsFile`, run `parts`: `ImplementsFile`).

Of `LvlArchive` (from the same, `LvlAssumption`, `HeadersAssumption` and
`PlacesAssumption`, which say that each chunk's header tells where the next one
begins and that one place has one header). `ArchiveInv`: one thread at most has
the stream, the one with the mutex (`OneReader`); while the archive is loaded,
what was found is the contents of the files before and of the headers before in
this one (`FoundSoFar`); and whoever reads a chunk has been given all bytes from
its beginning to the stream's place (`ChunkInv`). `WholeChunks` has the
hypothesis `Browsers = {}`, which is necessary: the threads that take no mutex
move the stream under the others.

**`AbeProofs`** (from `AbeAssumption`, any floors, any frame counts with at least
four frames of the hop, loops that start again anywhere). The invariant says which clips may carry a vertical
speed, and that the callbacks which clear it come before the clip can end
(`HopEnds`): `LandsStill`. `NeverThrough` compares what `StandFalling` expects with
what `ApplyMovement` does; the nearest floor exists by well-foundedness.

**Only model-checked:** all liveness (under fairness, out of the prover's reach):
`AcceptedJobsNotified`, `StopReturnsUnlessAdding`, `BusyEnds`, `EngineStarts`,
`UpdateReturns`, `ActionsEnd`, `MovieEnds`, `LoadingEnds`, `SoundsEnd`. Every
safety property of a passing run is a theorem.

## 6. What is left

* The linking of collision lines, and the objects Abe meets (hoists, doors), on a
  grid of screens.
* The parsers of paths and directories, as functions checked against reference
  definitions over bounded inputs.
