-------------------------------- MODULE Fmv --------------------------------
(***************************************************************************)
(* Playing a movie (src/fmv.cpp): PlayFmvState and Fmv on the main thread, *)
(* the buffers of an IMovie, and the audio thread, which consumes sound    *)
(* and by that alone moves the picture (core/audiobuffer.cpp).             *)
(*                                                                         *)
(* What happens with mAudioBufferMutex held is one step.  SdlAudioLocker   *)
(* excludes nothing: SDL_LockAudio locks the device of SDL_OpenAudio, and  *)
(* the wrapper opens its device with SDL_OpenAudioDevice.  The audio       *)
(* thread tests mExclusiveAudio and then calls through it; a call through  *)
(* null or on a destroyed movie is undefined and ends the model in         *)
(* "crashed".                                                              *)
(*                                                                         *)
(* Sound is counted in units; a frame lasts for BytesPerFrame of them.     *)
(***************************************************************************)
EXTENDS Integers, Sequences, FiniteSets

CONSTANTS
  Movies,         \* names LocateFmv finds
  NotFound,       \* names it does not find
  Stream,         \* Stream[n]: for every packet [video : 0..1, audio : Nat],
                  \* audio the sound in it and all packets before it
  EndsByFailing,  \* the movies whose end is noticed by a read that fails
                  \* (MasherMovie), not by AtEnd (MovMovie)
  BytesPerFrame,  \* mAudioBytesPerFrame
  Required,       \* NeedBuffer: sound to have in the buffer
  CallbackLens,   \* how much sound a callback asks for
  MaxPlays        \* bound: movies played

ASSUME FmvAssumption ==
  /\ "" \notin Movies \cup NotFound
  /\ Stream \in [Movies -> Seq([video : 0..1, audio : Nat])]
  /\ \A n \in Movies : \A i, j \in DOMAIN Stream[n] :
       i < j => Stream[n][i].audio <= Stream[n][j].audio
  /\ EndsByFailing \subseteq Movies
  /\ BytesPerFrame \in Nat \ {0} /\ Required \in Nat
  /\ CallbackLens \subseteq Nat \ {0} /\ CallbackLens # {} /\ MaxPlays \in Nat

VARIABLES
  world,           \* "game", or "movie": WorldState::ePlayFmv
  main,            \* where the main thread is
  mFmv, mFmvName,  \* the number of the movie, 0: nullptr
  movie,           \* the buffers of movie mFmv
  mExclusiveAudio,
  audio,           \* audio thread: idle, tested, calling, or crashed
  player,          \* the movie it calls
  plays            \* history: movies played

fmvVars == <<world, main, mFmv, mFmvName, movie, mExclusiveAudio, audio, player, plays>>

-----------------------------------------------------------------------------
(* The buffers of a movie: IMovie, MasherMovie, MovMovie *)

\* mVideoBuffer holds the frames from first to mFrameCounter - 1.
Opened(name) ==
  [name |-> name, next |-> 1, atEnd |-> FALSE,
   first |-> 0, mFrameCounter |-> 0, mAudioBuffer |-> 0, mConsumedAudioBytes |-> 0,
   shown |-> -1, mPlaying |-> FALSE]

Packets(m) == Stream[m.name]
EndOfStream(m) ==
  IF m.name \in EndsByFailing THEN m.atEnd ELSE m.next > Len(Packets(m))
NeedBuffer(m) ==
  (m.first = m.mFrameCounter \/ m.mAudioBuffer < Required) /\ ~EndOfStream(m)
VideoFrameIndex(m) == m.mConsumedAudioBytes \div BytesPerFrame

\* The sound in the first n packets.
Sound(name, n) == IF n = 0 THEN 0 ELSE Stream[name][n].audio

Smaller(a, b) == IF a < b THEN a ELSE b

\* The movie when n more packets are read; one too many only shows the end.
After(m, n) ==
  LET last == Smaller(m.next + n - 1, Len(Packets(m)))
  IN [m EXCEPT !.next = last + 1,
               !.atEnd = @ \/ last < m.next + n - 1,
               !.mFrameCounter = @ + Cardinality({i \in m.next..last : Packets(m)[i].video = 1}),
               !.mAudioBuffer = @ + Sound(m.name, last) - Sound(m.name, m.next - 1)]

\* Packets are read up to the next complete frame or the end of the stream,
\* until there are a frame and sound enough.
Enough(m, n) ==
  /\ ~NeedBuffer(After(m, n))
  /\ \/ n = 0
     \/ m.next + n - 1 >= Len(Packets(m))
     \/ Packets(m)[m.next + n - 1].video = 1

FillBuffers(m) ==
  After(m, CHOOSE n \in 0..(Len(Packets(m)) + 1) :
             Enough(m, n) /\ \A k \in 0..(n - 1) : ~Enough(m, k))

\* All frames before the current one are popped, the last one never.
PopFrames(m) ==
  LET last == m.mFrameCounter - 1
      index == VideoFrameIndex(m)
  IN IF m.first > last \/ m.first >= index THEN m
     ELSE [m EXCEPT !.first = Smaller(index, last)]

\* A plausible fault: the frame is popped when it has been shown.
ShowAndPop(m) ==
  IF m.first < m.mFrameCounter
  THEN [m EXCEPT !.shown = m.first, !.first = @ + 1] ELSE m

Show(m) == IF m.first < m.mFrameCounter THEN [m EXCEPT !.shown = m.first] ELSE m

OnRenderFrame(m) ==
  IF m.mPlaying
  THEN CHOOSE rendered \in {FillBuffers(shown) : shown \in {Show(PopFrames(filled)) :
                              filled \in {FillBuffers(m)}}} : TRUE
  ELSE m

\* A plausible fault: the frames must have been shown too.
IsEndWithoutFrames(m) == EndOfStream(m) /\ m.mAudioBuffer = 0 /\ m.first = m.mFrameCounter

IsEnd(m) == EndOfStream(m) /\ m.mAudioBuffer = 0

-----------------------------------------------------------------------------
FmvInit ==
  /\ world = "game" /\ main = "frame"
  /\ mFmv = 0 /\ mFmvName = "" /\ movie = Opened("")
  /\ mExclusiveAudio = 0
  /\ audio = "idle" /\ player = 0
  /\ plays = 0

Alive == audio # "crashed"
At(pc) == main = pc /\ Alive

(***************************************************************************)
(* Main thread.                                                            *)
(***************************************************************************)
\* Fmv::Play of the name that is set already does nothing.
PlaySame(name) ==
  /\ At("frame") /\ world = "game" /\ plays < MaxPlays
  /\ name = mFmvName
  /\ world' = "movie" /\ plays' = plays + 1
  /\ UNCHANGED <<main, mFmv, mFmvName, movie, mExclusiveAudio, audio, player>>

PlayOther(name) ==
  /\ At("frame") /\ world = "game" /\ plays < MaxPlays
  /\ name # mFmvName
  /\ mFmvName' = name
  /\ mExclusiveAudio' = IF mFmv = 0 THEN mExclusiveAudio ELSE 0
  /\ movie' = [movie EXCEPT !.mPlaying = FALSE]
  /\ main' = "locating" /\ plays' = plays + 1
  /\ UNCHANGED <<world, mFmv, audio, player>>

\* The assignment to mFmv destroys the movie there was.
Located ==
  /\ At("locating") /\ mFmvName \in Movies
  /\ mFmv' = plays /\ movie' = Opened(mFmvName)
  /\ main' = "starting"
  /\ UNCHANGED <<world, mFmvName, mExclusiveAudio, audio, player, plays>>

WasNotFound ==
  /\ At("locating") /\ mFmvName \in NotFound
  /\ mFmv' = 0 /\ movie' = Opened("")
  /\ main' = "frame" /\ world' = "movie"
  /\ UNCHANGED <<mFmvName, mExclusiveAudio, audio, player, plays>>

Start ==
  /\ At("starting")
  /\ mExclusiveAudio' = mFmv /\ movie' = [movie EXCEPT !.mPlaying = TRUE]
  /\ main' = "frame" /\ world' = "movie"
  /\ UNCHANGED <<mFmv, mFmvName, audio, player, plays>>

IsPlaying == mFmv # 0 /\ ~IsEnd(movie)

Update ==
  /\ At("frame") /\ world = "movie"
  /\ main' = IF IsPlaying THEN "updated" ELSE "stopping"
  /\ UNCHANGED <<world, mFmv, mFmvName, movie, mExclusiveAudio, audio, player, plays>>

\* PlayFmvState::Update asks again.  The sound may have run out meanwhile:
\* then the state is left, but the movie is not stopped.
UpdateGoesOn ==
  /\ At("updated") /\ IsPlaying
  /\ main' = "frame"
  /\ UNCHANGED <<world, mFmv, mFmvName, movie, mExclusiveAudio, audio, player, plays>>

UpdateKeyPressed ==
  /\ At("updated") /\ IsPlaying
  /\ main' = "stopping"
  /\ UNCHANGED <<world, mFmv, mFmvName, movie, mExclusiveAudio, audio, player, plays>>

UpdateEnds ==
  /\ At("updated") /\ ~IsPlaying
  /\ main' = "frame" /\ world' = "game"
  /\ UNCHANGED <<mFmv, mFmvName, movie, mExclusiveAudio, audio, player, plays>>

\* A plausible fault: mExclusiveAudio keeps the movie.
StopKeepsPlayer ==
  /\ At("stopping")
  /\ movie' = [movie EXCEPT !.mPlaying = FALSE]
  /\ main' = "destroying"
  /\ UNCHANGED <<world, mFmv, mFmvName, mExclusiveAudio, audio, player, plays>>

\* Fmv::Stop: IMovie::Stop, then the movie is destroyed.
Stop ==
  /\ At("stopping")
  /\ mExclusiveAudio' = IF mFmv = 0 THEN mExclusiveAudio ELSE 0
  /\ movie' = [movie EXCEPT !.mPlaying = FALSE]
  /\ main' = "destroying"
  /\ UNCHANGED <<world, mFmv, mFmvName, audio, player, plays>>

DestroyFmv ==
  /\ At("destroying")
  /\ mFmv' = 0 /\ mFmvName' = "" /\ movie' = Opened("")
  /\ main' = "frame" /\ world' = IF world = "movie" THEN "game" ELSE world
  /\ UNCHANGED <<mExclusiveAudio, audio, player, plays>>

Render ==
  /\ At("frame") /\ world = "movie" /\ mFmv # 0
  /\ movie' = OnRenderFrame(movie)
  /\ UNCHANGED <<world, main, mFmv, mFmvName, mExclusiveAudio, audio, player, plays>>

\* The world is destroyed, with it PlayFmvState.
End ==
  /\ At("frame") /\ world # "over"
  /\ world' = "over" /\ main' = "stopping"
  /\ UNCHANGED <<mFmv, mFmvName, movie, mExclusiveAudio, audio, player, plays>>

(***************************************************************************)
(* Audio thread.                                                           *)
(***************************************************************************)
AudioTest ==
  /\ audio = "idle" /\ mExclusiveAudio # 0
  /\ audio' = "tested" /\ player' = mExclusiveAudio
  /\ UNCHANGED <<world, main, mFmv, mFmvName, movie, mExclusiveAudio, plays>>

\* The pointer is read again, or the compiler has kept the one tested.
AudioCall ==
  /\ audio = "tested"
  /\ player' \in {mExclusiveAudio, player}
  /\ audio' = IF player' = 0 THEN "crashed" ELSE "calling"
  /\ UNCHANGED <<world, main, mFmv, mFmvName, movie, mExclusiveAudio, plays>>

Consumed(m, len) ==
  LET take == Smaller(len, m.mAudioBuffer)
  IN [m EXCEPT !.mAudioBuffer = @ - take, !.mConsumedAudioBytes = @ + take]

AudioPlay(len) ==
  /\ audio = "calling" /\ player = mFmv
  /\ movie' = Consumed(movie, len)
  /\ audio' = "idle" /\ player' = 0
  /\ UNCHANGED <<world, main, mFmv, mFmvName, mExclusiveAudio, plays>>

AudioPlayDestroyed ==
  /\ audio = "calling" /\ player # mFmv
  /\ audio' = "crashed" /\ player' = 0
  /\ UNCHANGED <<world, main, mFmv, mFmvName, movie, mExclusiveAudio, plays>>

-----------------------------------------------------------------------------
UpdateSteps ==
  Update \/ UpdateGoesOn \/ UpdateKeyPressed \/ UpdateEnds \/ Stop \/ DestroyFmv
PlaySteps ==
  \/ \E name \in Movies \cup NotFound : PlaySame(name) \/ PlayOther(name)
  \/ Located \/ WasNotFound \/ Start
AudioSteps ==
  AudioTest \/ AudioCall \/ AudioPlayDestroyed \/ \E len \in CallbackLens : AudioPlay(len)
Terminated == (~Alive \/ (world = "over" /\ main = "frame")) /\ UNCHANGED fmvVars

FmvNext == UpdateSteps \/ PlaySteps \/ Render \/ End \/ AudioSteps \/ Terminated

\* Every turn of the main loop updates and then renders (Engine::Run), so
\* that Render is not passed over for ever; the audio device keeps calling.
FmvFairness == WF_fmvVars(UpdateSteps) /\ SF_fmvVars(Render) /\ WF_fmvVars(AudioSteps)

FmvSpec == FmvInit /\ [][FmvNext]_fmvVars /\ FmvFairness

-----------------------------------------------------------------------------
(* Properties *)

(***************************************************************************)
(* The first buffered frame is never ahead of the sound (fmv.cpp:83-110:   *)
(* the loop that looks for the frame to show neither pops nor leaves when  *)
(* it is, so that the main thread would spin with mAudioBufferMutex held), *)
(* and once a movie has shown a frame there is always one to show.         *)
(***************************************************************************)
InSync ==
  mFmv # 0 =>
    /\ movie.first < movie.mFrameCounter => movie.first <= VideoFrameIndex(movie)
    /\ movie.shown >= 0 => movie.shown <= movie.first /\ movie.first < movie.mFrameCounter

(***************************************************************************)
(* The player that mutes the game (audiobuffer.cpp:204) is never a         *)
(* destroyed movie, and back in the game it is at most a movie that is     *)
(* over (fmv.cpp:679-681: the movie may be left unstopped).                *)
(***************************************************************************)
ExclusiveIsAlive ==
  /\ mExclusiveAudio # 0 => mExclusiveAudio = mFmv
  /\ world = "game" /\ main = "frame" /\ mFmv # 0 => IsEnd(movie)

(***************************************************************************)
(* A movie ends: the renderer fills the buffers, the audio thread empties  *)
(* them, and PlayFmvState::Update notices, without a key pressed.          *)
(***************************************************************************)
MovieEnds == world = "movie" ~> (world # "movie" \/ ~Alive)

(***************************************************************************)
(* audiobuffer.cpp:151, of setting mExclusiveAudio: "Protect from          *)
(* concurrent access in the audio call back".  The callback never calls    *)
(* through a pointer that was reset, or whose movie was destroyed, since   *)
(* it tested it.                                                           *)
(***************************************************************************)
CallbackIsProtected == audio # "crashed"
=============================================================================
