------------------------------- MODULE Sound -------------------------------
(***************************************************************************)
(* Sound (include/sound.hpp, src/sound.cpp), the owner of the SoundCache:  *)
(* a state machine driven by Update in every frame that unloads a music    *)
(* theme, caches the resident sounds and then the sounds of the next theme *)
(* with jobs, and plays ambiance and music from the cache.  SetMusicTheme  *)
(* may be called in any state, and the audio thread plays at any time.     *)
(*                                                                         *)
(* The job system is not stopped and the process not killed here; both are *)
(* in SoundCache, whose specification this one is shown to refine.         *)
(***************************************************************************)
EXTENDS SoundCache, Sequences

CONSTANTS Themes,      \* the themes LocateSoundTheme finds
          NoTheme,     \* nullptr
          Entries,     \* Entries[t][e]: the sounds of event e, <<>>: no entry
          Events,      \* music events; "AMBIANCE" is one of them
          MaxCalls,    \* bound: calls of SetMusicTheme
          UiEvents     \* events may be raised while a theme is loading

ASSUME SoundAssumption ==
  /\ NoTheme \notin Themes
  /\ Entries \in [Themes -> [Events -> Seq(Names)]]
  /\ "AMBIANCE" \in Events /\ "none" \notin Events \cup Names
  /\ MaxCalls \in Nat /\ UiEvents \in BOOLEAN

VARIABLES
  mState,
  mActiveTheme, mThemeToLoad,
  mEventToSetAfterLoad,
  mActiveThemeEntry,   \* the vector it points to and the index, or NoEntry
  mAmbiance, mMusicTrack,
  main,                \* where the main thread is inside Update
  left,                \* the theme's sounds CacheActiveTheme has yet to visit
  audio,               \* TRUE: the audio thread is in Play, with the mutex
  calls, wanted        \* history: SetMusicTheme calls, the last theme asked for

themes    == <<mActiveTheme, mThemeToLoad, mEventToSetAfterLoad, wanted, calls>>
playing   == <<mActiveThemeEntry, mAmbiance, mMusicTrack>>
soundVars == <<mState, themes, playing, main, left, audio>>

NoEntry    == [sounds |-> <<>>, index |-> 1]
SoundsOf(t) ==
  IF t = NoTheme THEN {}
  ELSE UNION {{Entries[t][e][i] : i \in DOMAIN Entries[t][e]} : e \in Events}

SoundInit ==
  /\ Init
  /\ mState = "eIdle"
  /\ mActiveTheme = NoTheme /\ mThemeToLoad = NoTheme
  /\ mEventToSetAfterLoad = "none"
  /\ mActiveThemeEntry = NoEntry
  /\ mAmbiance = "none" /\ mMusicTrack = "none"
  /\ main = "frame" /\ left = {}
  /\ audio = FALSE
  /\ calls = 0 /\ wanted = NoTheme

IsLoading == mState # "eIdle"

-----------------------------------------------------------------------------
\* Mutant: a load that is under way is not cancelled.
SetMusicThemeNoCancel(theme, eventOnLoad) ==
  /\ main = "frame" /\ calls < MaxCalls
  /\ calls' = calls + 1 /\ wanted' = theme
  /\ mAmbiance' = "none" /\ mMusicTrack' = "none"
  /\ mThemeToLoad' = theme
  /\ mEventToSetAfterLoad' = eventOnLoad
  /\ mState' = IF ~IsLoading THEN "eUnloadingActiveSoundTheme" ELSE mState
  /\ UNCHANGED <<vars, mActiveTheme, mActiveThemeEntry, main, left, audio>>

\* LocateSoundTheme finds a theme or returns nullptr.  The players are reset
\* without mSoundPlayersMutex.
SetMusicTheme(theme, eventOnLoad) ==
  /\ main = "frame" /\ calls < MaxCalls
  /\ calls' = calls + 1 /\ wanted' = theme
  /\ mAmbiance' = "none" /\ mMusicTrack' = "none"
  /\ mThemeToLoad' = theme
  /\ mEventToSetAfterLoad' = eventOnLoad
  /\ mState' = IF ~IsLoading THEN "eUnloadingActiveSoundTheme"
               ELSE IF theme # NoTheme THEN "eCancel"
               ELSE mState
  /\ UNCHANGED <<vars, mActiveTheme, mActiveThemeEntry, main, left, audio>>

StopAllMusic ==
  /\ main = "frame"
  /\ mAmbiance' = "none" /\ mMusicTrack' = "none"
  /\ UNCHANGED <<vars, mState, themes, mActiveThemeEntry, main, left, audio>>

\* PlaySound from the cache.
Cached(n) == IF mSoundDataCache[n] = "none" THEN "none" ELSE n

\* PlayThemeEntry: the entry it selects, and the sound or "none".
ThemeEntry(event) ==
  IF Entries[mActiveTheme][event] = <<>> THEN NoEntry
  ELSE [sounds |-> Entries[mActiveTheme][event], index |-> 1]

EntrySound(entry) ==
  IF entry = NoEntry THEN "none" ELSE Cached(entry.sounds[entry.index])

\* EnsureAmbiance takes the mutex, the rest of HandleMusicEvent does not.
MusicEvent(event) ==
  /\ ~audio
  /\ IF mActiveTheme = NoTheme
     THEN /\ mMusicTrack' = IF event = "AMBIANCE" THEN "none" ELSE mMusicTrack
          /\ UNCHANGED <<mAmbiance, mActiveThemeEntry>>
     ELSE LET sound == EntrySound(ThemeEntry(event))
          IN /\ mAmbiance' = IF mAmbiance # "none" THEN mAmbiance
                             ELSE EntrySound(ThemeEntry("AMBIANCE"))
             /\ mActiveThemeEntry' =
                  IF event # "AMBIANCE" \/ mAmbiance = "none"
                  THEN ThemeEntry(event) ELSE mActiveThemeEntry
             /\ mMusicTrack' = IF event = "AMBIANCE" THEN "none"
                               ELSE IF sound # "none" THEN sound
                               ELSE mMusicTrack

HandleMusicEvent(event) ==
  /\ main = "frame"
  /\ IsLoading => UiEvents
  /\ MusicEvent(event)
  /\ UNCHANGED <<vars, mState, themes, main, left, audio>>

-----------------------------------------------------------------------------
(* Update: the switch on mState, CacheActiveTheme sound by sound, and then *)
(* the players.                                                            *)

SetState(s) == mState' = s

\* A case that only changes the state.
Transit(from, to) ==
  /\ mState = from
  /\ SetState(to)
  /\ main' = "players"
  /\ UNCHANGED <<themes, playing, left, audio>>

UpdateIdle ==
  /\ main = "frame" /\ Transit("eIdle", "eIdle")
  /\ UNCHANGED vars

UpdateLoadEffects ==
  /\ main = "frame" /\ Transit("eLoadSoundEffects", "eLoadingSoundEffects")
  /\ CacheAllSoundEffects

UpdateLoadingEffects ==
  /\ main = "frame" /\ ~IsBusy
  /\ Transit("eLoadingSoundEffects", "eLoadActiveSoundTheme")
  /\ UNCHANGED vars

\* Mutant: the state stays eCancel.
UpdateCancelAgain ==
  /\ main = "frame" /\ Transit("eCancel", "eCancel")
  /\ Cancel

UpdateCancel ==
  /\ main = "frame" /\ Transit("eCancel", "eCancelling")
  /\ Cancel

\* Mutant: the cancelled jobs are not waited for.
UpdateCancellingAtOnce ==
  /\ main = "frame"
  /\ Transit("eCancelling", "eUnloadingActiveSoundTheme")
  /\ UNCHANGED vars

UpdateCancelling ==
  /\ main = "frame" /\ ~IsBusy
  /\ Transit("eCancelling", "eUnloadingActiveSoundTheme")
  /\ UNCHANGED vars

\* While the cache is busy the three waiting states stay as they are.
UpdateWaiting ==
  /\ main = "frame" /\ IsBusy
  /\ \E s \in {"eLoadingSoundEffects", "eCancelling",
               "eLoadingActiveSoundTheme"} : Transit(s, s)
  /\ UNCHANGED vars

\* CacheActiveTheme begins, if there is a theme.
Visit(from, how) ==
  /\ main = "frame" /\ mState = from
  /\ main' = how
  /\ left' = SoundsOf(mActiveTheme)
  /\ UNCHANGED <<vars, mState, themes, playing, audio>>

\* Mutant: the active theme is not removed from the cache.
UpdateUnloadNothing ==
  /\ main = "frame" /\ mState = "eUnloadingActiveSoundTheme"
  /\ main' = "uncache"
  /\ left' = {}
  /\ UNCHANGED <<vars, mState, themes, playing, audio>>

UpdateUnload == Visit("eUnloadingActiveSoundTheme", "uncache")
UpdateLoadTheme == Visit("eLoadActiveSoundTheme", "cache")

UncacheSound ==
  /\ main = "uncache"
  /\ \E n \in left :
       /\ left' = left \ {n}
       /\ RemoveFromMemoryCache(n)
  /\ UNCHANGED <<mState, themes, playing, main, audio>>

UncacheDone ==
  /\ main = "uncache" /\ left = {}
  /\ mActiveTheme' = mThemeToLoad
  /\ mThemeToLoad' = NoTheme
  /\ SetState("eLoadSoundEffects")
  /\ main' = "players"
  /\ UNCHANGED <<vars, mEventToSetAfterLoad, wanted, calls, playing, left,
                 audio>>

CacheThemeSound ==
  /\ main = "cache"
  /\ \E j \in Jobs :
       /\ NameOf[j] \in left
       /\ left' = left \ {NameOf[j]}
       /\ CacheSound(j)
  /\ UNCHANGED <<disk, memory, allVars, mStopWork>>
  /\ UNCHANGED <<mState, themes, playing, main, audio>>

CacheThemeDone ==
  /\ main = "cache" /\ left = {}
  /\ SetState("eLoadingActiveSoundTheme")
  /\ main' = "players"
  /\ UNCHANGED <<vars, themes, playing, left, audio>>

UpdateLoaded ==
  /\ main = "frame" /\ ~IsBusy
  /\ mState = "eLoadingActiveSoundTheme"
  /\ SetState("eIdle")
  /\ IF mEventToSetAfterLoad = "none" THEN UNCHANGED playing
     ELSE MusicEvent(mEventToSetAfterLoad)
  /\ mEventToSetAfterLoad' = "none"
  /\ main' = "players"
  /\ UNCHANGED <<vars, mActiveTheme, mThemeToLoad, wanted, calls, left, audio>>

\* The end of Update, with the mutex: the music goes on to its next entry.
NextEntry ==
  [mActiveThemeEntry EXCEPT !.index = @ + 1]

UpdatePlayers ==
  /\ main = "players" /\ ~audio
  /\ main' = "frame"
  /\ \/ UNCHANGED <<mMusicTrack, mActiveThemeEntry>>
     \/ /\ mMusicTrack # "none"  \* and is at its end
        /\ IF mActiveThemeEntry.index < Len(mActiveThemeEntry.sounds)
           THEN /\ mActiveThemeEntry' = NextEntry
                /\ mMusicTrack' = EntrySound(NextEntry)
           ELSE /\ mMusicTrack' = "none"
                /\ UNCHANGED mActiveThemeEntry
  /\ UNCHANGED <<vars, mState, themes, mAmbiance, left, audio>>

UpdateStep ==
  \/ UpdateIdle \/ UpdateLoadEffects \/ UpdateLoadingEffects
  \/ UpdateCancel \/ UpdateCancelling \/ UpdateWaiting
  \/ UpdateUnload \/ UncacheSound \/ UncacheDone
  \/ UpdateLoadTheme \/ CacheThemeSound \/ CacheThemeDone \/ UpdateLoaded
  \/ UpdatePlayers

-----------------------------------------------------------------------------
\* Sound::Play, on the audio thread.
PlayBegin ==
  /\ ~audio /\ audio' = TRUE
  /\ UNCHANGED <<vars, mState, themes, playing, main, left>>

PlayEnd ==
  /\ audio /\ audio' = FALSE
  /\ UNCHANGED <<vars, mState, themes, playing, main, left>>

\* JobSystem::Update in the main loop, and the workers.
Notified ==
  /\ main = "frame"
  /\ AllFinished \/ \E j \in Jobs : JobFinished(j)
  /\ UNCHANGED soundVars

Working == (AllStep \/ \E j \in Jobs : JobStep(j)) /\ UNCHANGED soundVars

SoundNext ==
  \/ \E t \in Themes \cup {NoTheme}, e \in {"none"} \cup Events :
       SetMusicTheme(t, e)
  \/ StopAllMusic
  \/ \E e \in Events : HandleMusicEvent(e)
  \/ UpdateStep
  \/ PlayBegin \/ PlayEnd
  \/ Notified \/ Working

SoundSpec == SoundInit /\ [][SoundNext]_<<vars, soundVars>>

\* The main loop calls both Updates in every frame, Play returns, and a worker
\* goes on with some job.
FairSoundSpec ==
  /\ SoundSpec
  /\ SF_<<vars, soundVars>>(UpdateStep)
  /\ SF_<<vars, soundVars>>(Notified)
  /\ WF_<<vars, soundVars>>(PlayEnd)
  /\ WF_<<vars, soundVars>>(Working)

-----------------------------------------------------------------------------
\* Sound uses its cache as SoundCache expects: sounds are removed and the
\* resident sounds cached only when no job is outstanding, the sounds of a
\* theme only after a Sync, in whatever state a theme is asked for.
UsesCacheRightly == Spec

\* IdleMeansLoaded: when loading is over every sound of the theme, and every
\* resident one, is in memory, however many loads were cancelled before.
IdleMeansLoaded ==
  mState = "eIdle" /\ mActiveTheme # NoTheme =>
    \A n \in (Resident \cup SoundsOf(mActiveTheme)) \cap Locatable :
      mSoundDataCache[n] # "none"

\* OtherThemesUnloaded: and nothing else is: no job of a cancelled load puts
\* a sound in memory after its theme was unloaded.
OtherThemesUnloaded ==
  mState = "eIdle" =>
    \A n \in Names : mSoundDataCache[n] # "none" =>
      n \in Resident \cup SoundsOf(mActiveTheme)

\* MemoryMatchesTheme: whatever was asked for and cancelled on the way, an
\* idle Sound has in memory the sounds of its theme and no other theme's.
MemoryMatchesTheme == IdleMeansLoaded /\ OtherThemesUnloaded

\* LastThemeWins: the theme that is active when loading is over is the one
\* asked for last, if there is such a theme.
LastThemeWins ==
  mState = "eIdle" /\ wanted # NoTheme => mActiveTheme = wanted

\* LoadingEnds: every load ends, unless themes are asked for for ever; the
\* world waits for it before the game begins.
LoadingEnds == IsLoading ~> ~IsLoading

\* mAmbiance and mMusicTrack are commented "Thread safe" (sound.hpp): they do
\* not change while the audio thread is playing them.
PlayersChangeUnderMutex ==
  [][audio => UNCHANGED <<mAmbiance, mMusicTrack>>]_<<vars, soundVars>>
=============================================================================
